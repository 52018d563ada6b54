SPECIFICATION Spec
CONSTANTS
    MaxEpoch = 3
    MaxOps = 3
    MaxRestarts = 1
    MaxCheckpoints = 0
    Faults = {"short_write"}
INVARIANT AckedRecoverable

CHECK_DEADLOCK FALSE
