\* A user who waits for answers and changes the content warning after the hold.
CONSTANTS
    MaxRequests = 3
    Unreliable = TRUE
    FirstNonce = 1
    TemplateNonce = FALSE
    Texts = {a}
    Warnings = {calm, graphic}
    Bytes <- OneSize
    MaxMounts = 1
    WaitsForAnswers = TRUE
    NoDraft = NoDraft
SPECIFICATION PostFairSpec
INVARIANT HoldIsForContent
CHECK_DEADLOCK FALSE
