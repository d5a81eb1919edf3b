SPECIFICATION Spec
CONSTANTS
    NumDocs = 1
    Deletable = {1}
    MaxJobs = 1
    NumSections = 2
    MaxAttempts = 3
    Requests = {r1, r2}
    MaxTasks = 3
    MaxCrashes = 1
    MaxDbErrors = 2
    SetupFails = TRUE
SYMMETRY Symmetry
CHECK_DEADLOCK FALSE
INVARIANTS RecordedIsWritten AppliedIsComplete CountedByOneWorker
PROPERTY ProgressInOrder
