SPECIFICATION Spec
CONSTANTS
    Calls = {c1, c2}
    b1 = b1
    b2 = b2
    ask = ask
    k1 = k1
    s1 = s1
    Root = root
    NoKey = none
    CallSpecs <- MCCallSpecs
    MaxConcurrent = 2
    IdempotencyRetries = 1
    SafeRetries = 1
    MaxRestarts = 1
SYMMETRY MCSymmetry
INVARIANTS
    RequestsTypeOK
    ExecutedOnce
    AnswersAreReal
    OneHandlePerShard
PROPERTIES
    AnsweredNotRepeated
CHECK_DEADLOCK FALSE
