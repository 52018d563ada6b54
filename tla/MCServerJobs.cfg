SPECIFICATION Spec
CONSTANTS
    None = None
    w1 = w1
    r1 = r1
    Jobs = {1}
    Workers = {w1}
    MaxAttempts = 3
    LeaseTimes = {0, 2}
    Runtimes = {r1}
    MaxTime = 2
    MaxRequests = 5
    MaxCrashes = 1
    IoFails = TRUE
INVARIANTS
    TypeOK
    RecoverySucceeds
    CompletionSurvives
    TokensUnique
PROPERTY UnexpiredLeaseKept
CHECK_DEADLOCK FALSE
