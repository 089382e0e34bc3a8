\* One contestant's browser: pages of one round, one of them open at a time.
SPECIFICATION FairSpec
CONSTANTS
    Hash <- MCHash
    NoHash <- MCNoHash
    Sessions = {round1}
    NoPage = NoPage
    ChunkMaxEvents = 2
    StorageFaults = 1
    MaxEvents = 3
    MaxSeals = 2
    MaxPages = 2
INVARIANTS
    TypeOK
    QueueVerifies
    RecordedInOrder
    FullIsSealed
    OneStart
PROPERTIES
    LogPromise
    BufferedGetsSealed
\* The last page closes and no further page is opened.
CHECK_DEADLOCK FALSE
