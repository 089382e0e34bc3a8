\* One row, one failed write: the server answers 400 and the loop settles the row.
SPECIFICATION RoundSpec
CONSTANTS
    Hash <- MCHash
    NoHash <- MCNoHash
    Owner = round1
    Interval = 3
    BaseDelay = 1
    MaxDelay = 4
    BatchLimit = 2
    MaxRows = 1
    NetworkFaults = 0
    StorageFaults = 0
    MaxPages = 1
    Cuts = {"line"}
    WriteFaults = 1
    Crashes = 0
    MaxRequests = 2
    MaxBeacons = 0
INVARIANTS
    DeliveredIsHeld
CHECK_DEADLOCK FALSE
