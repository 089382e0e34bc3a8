\* One participant, one write cut short within a line.
SPECIFICATION Spec
CONSTANTS
    Files = {alice}
    Seqs = {0, 1}
    Cuts = {"torn"}
    WriteFaults = 0
    Crashes = 1
    MaxRequests = 2
INVARIANTS
    AckedIsReadable
CHECK_DEADLOCK FALSE
