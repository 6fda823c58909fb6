\* A user who waits for answers and opens the page again; every request may fail.
CONSTANTS
    MaxRequests = 6
    Unreliable = TRUE
    FirstNonce = 1
    TemplateNonce = FALSE
    Texts = {a, b}
    Warnings = {calm}
    Bytes <- OwnSize
    MaxMounts = 2
    WaitsForAnswers = TRUE
    NoDraft = NoDraft
SPECIFICATION PostFairSpec
INVARIANT PostInv
PROPERTY RetryHoldsOnce
CHECK_DEADLOCK FALSE
