\* Two rows in batches of one or two, one failed send, one crash, one failed write,
\* each of them cut at the end of a line, within one or before its newline.
SPECIFICATION FairRoundSpec
CONSTANTS
    Hash <- MCHash
    NoHash <- MCNoHash
    Owner = round1
    Interval = 3
    BaseDelay = 1
    MaxDelay = 4
    BatchLimit = 2
    MaxRows = 2
    NetworkFaults = 1
    StorageFaults = 0
    MaxPages = 1
    Cuts = {"line", "torn", "bare"}
    WriteFaults = 1
    Crashes = 1
    MaxRequests = 6
    MaxBeacons = 1
INVARIANTS
    ReviewTellsTheTruth
PROPERTIES
    DeliversAtLeastOnce
    EventuallyHeld
\* The last page closes and no further page is opened.
CHECK_DEADLOCK FALSE
