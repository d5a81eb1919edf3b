SPECIFICATION Spec
CONSTANTS
    NumDocs = 1
    Deletable = {1}
    MaxJobs = 1
    NumSections = 1
    MaxAttempts = 1
    Requests = {r1, r2}
    MaxTasks = 3
    MaxCrashes = 0
    MaxDbErrors = 0
    SetupFails = TRUE
CHECK_DEADLOCK FALSE
PROPERTY CancelledIsFinal
