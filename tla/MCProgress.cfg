SPECIFICATION Spec
CONSTANTS
    None = None
    w1 = w1
    w2 = w2
    Wrappers <- MCWrappers
    MaxKeys = 2
    MaxCrashes = 2
    MaxLosses = 1
    Submissions <- MCSubmissions
INVARIANTS
    TypeOK
    OneKeyForTheData
    NobodyIsLeft
PROPERTIES
    ComesUp
    OutcomeIsReported
CHECK_DEADLOCK FALSE
