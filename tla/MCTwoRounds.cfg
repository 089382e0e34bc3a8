\* One browser, first for one round and then for another, one page at a time.
SPECIFICATION Spec
CONSTANTS
    Hash <- MCHash
    NoHash <- MCNoHash
    Sessions = {round1, round2}
    NoPage = NoPage
    ChunkMaxEvents = 2
    StorageFaults = 0
    MaxEvents = 2
    MaxSeals = 1
    MaxPages = 2
INVARIANTS
    RoundVerifies
CHECK_DEADLOCK FALSE
