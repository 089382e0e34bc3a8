\* Three rows in batches of two; an outage of two sends, two storage failures.
SPECIFICATION FairSpec
CONSTANTS
    Hash <- MCHash
    NoHash <- MCNoHash
    Owner = round1
    Interval = 3
    BaseDelay = 1
    MaxDelay = 4
    BatchLimit = 2
    MaxRows = 3
    NetworkFaults = 2
    StorageFaults = 2
    MaxPages = 2
INVARIANTS
    TypeOK
    LoopComesBack
    OldestFirst
PROPERTIES
    EventuallyDelivered
\* The last page closes and no further page is opened.
CHECK_DEADLOCK FALSE
