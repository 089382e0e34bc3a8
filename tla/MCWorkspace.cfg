\* Two problems, three edits; saves within a tick coalesce, two revisions are kept.
SPECIFICATION FairSpec
CONSTANTS
    None = None
    Coalesce = 1
    MaxRevisions = 2
    MaxIds = 2
    MaxEdits = 3
    MaxClock = 2
    MaxQueue = 2
INVARIANTS
    TypeOK
    OpenProblemExists
    RevisionsSpread
    RevisionsBelong
PROPERTIES
    SourceNeverGoesBack
    AutosaveLands
CHECK_DEADLOCK FALSE
