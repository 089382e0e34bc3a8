\* The instance of MCWorkspace.cfg, but for one transaction at a time.
SPECIFICATION Spec
CONSTANTS
    None = None
    Coalesce = 1
    MaxRevisions = 2
    MaxIds = 2
    MaxEdits = 3
    MaxClock = 2
    MaxQueue = 1
INVARIANT
    WrittenBack
CHECK_DEADLOCK FALSE
