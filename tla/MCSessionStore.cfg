\* Two participants, three chunks, writes cut at the end of a line, within one
\* or right before its newline.
SPECIFICATION FairSpec
CONSTANTS
    Files = {alice, bob}
    Seqs = {0, 1, 2}
    Cuts = {"line", "torn", "bare"}
    WriteFaults = 1
    Crashes = 1
    MaxRequests = 3
INVARIANTS
    TypeOK
    NoDuplicates
    AckedIsKept
    RefusedForCause
PROPERTIES
    EveryRequestAnswered
CHECK_DEADLOCK FALSE
