\* Two runs of two cases; a test input of one line, two typed lines, of which the
\* second does not fit the buffer.
SPECIFICATION FairSpec
CONSTANTS
    Capacity = 2
    Cases = 2
    Input <- MCInput
    MaxRuns = 2
    MaxTyped = 2
    MaxWrites = 1
    MaxInbox = 2
INVARIANTS
    TypeOK
    InputConserved
    PromptIsCurrent
    ResultsOfThisRun
    FinishedIsComplete
PROPERTIES
    StopIsFinal
    RunEnds
CHECK_DEADLOCK FALSE
