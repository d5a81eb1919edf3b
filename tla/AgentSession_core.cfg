SPECIFICATION FairSpec
CONSTANTS
    Tools = {"search", "submit", "finish"}
    Terminal = {"finish"}
    Returning = {"submit"}
    Submitting = {"submit"}
    Streaming = TRUE
    HasDeadline = TRUE
    MaxModelCalls = 3
    MaxParallel = 2
    MaxTexts = 2
CHECK_DEADLOCK FALSE
INVARIANTS TypeOK SessionIsSound StoredIsTrue
PROPERTIES NothingBeginsAfter SessionEnds
