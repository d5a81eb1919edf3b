SPECIFICATION FairSpec
CONSTANTS
    NumDocs = 2
    Deletable = {}
    MaxJobs = 2
    NumSections = 1
    MaxAttempts = 1
    Requests = {r1}
    MaxTasks = 2
    MaxCrashes = 1
    MaxDbErrors = 0
    SetupFails = FALSE
CHECK_DEADLOCK FALSE
INVARIANT WorkIsHeld
PROPERTIES JobsMove CancelReturns
