\* Nothing makes the user wait, who may also edit what resets nothing.
CONSTANTS
    MaxRequests = 5
    Unreliable = TRUE
    FirstNonce = 1
    TemplateNonce = TRUE
    Texts = {a}
    Warnings = {calm, graphic}
    Bytes <- OneSize
    MaxMounts = 1
    WaitsForAnswers = FALSE
    NoDraft = NoDraft
SPECIFICATION PostFairSpec
INVARIANT PostInv AnswerIsPaidFor
PROPERTY StepsEnd
CHECK_DEADLOCK FALSE
