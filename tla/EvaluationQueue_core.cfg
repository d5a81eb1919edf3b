SPECIFICATION FairSpec
CONSTANTS
    MaxRuns = 2
    NumItems = 2
    MaxConcurrency = 1
    Requests = {q1, q2}
    MaxErrors = 1
CHECK_DEADLOCK FALSE
INVARIANTS TypeOK RunIsHeld
PROPERTIES KeepsScoreSheets RunsEnd
