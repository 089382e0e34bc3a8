\* One round open in two tabs, no storage failure.
SPECIFICATION Spec
CONSTANTS
    Hash <- MCHash
    NoHash <- MCNoHash
    Sessions = {round1}
    NoPage = NoPage
    ChunkMaxEvents = 2
    StorageFaults = 0
    MaxEvents = 2
    MaxSeals = 1
    MaxPages = 2
PROPERTIES
    StoredForever
CHECK_DEADLOCK FALSE
