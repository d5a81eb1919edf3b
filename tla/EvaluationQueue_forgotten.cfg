SPECIFICATION Spec
CONSTANTS
    MaxRuns = 1
    NumItems = 1
    MaxConcurrency = 1
    Requests = {q1}
    MaxErrors = 0
PROPERTY CancelIsKept
CHECK_DEADLOCK FALSE
