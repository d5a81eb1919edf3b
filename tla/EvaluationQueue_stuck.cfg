SPECIFICATION FairSpec
CONSTANTS
    MaxRuns = 1
    NumItems = 1
    MaxConcurrency = 1
    Requests = {q1}
    MaxErrors = 0
PROPERTY CancelEnds
CHECK_DEADLOCK FALSE
