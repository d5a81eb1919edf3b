SPECIFICATION Spec
CONSTANTS
    NumDocs = 1
    Deletable = {1}
    MaxJobs = 2
    NumSections = 1
    MaxAttempts = 1
    Requests = {r1, r2}
    MaxTasks = 3
    MaxCrashes = 0
    MaxDbErrors = 0
    SetupFails = FALSE
CHECK_DEADLOCK FALSE
INVARIANT OneUnfinishedPerDocument
