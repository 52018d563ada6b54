SPECIFICATION Spec
CONSTANTS
    MaxEpoch = 2
    MaxOps = 2
    MaxRestarts = 1
    MaxCheckpoints = 1
    Faults = {"manifest_corruption"}
INVARIANT AckedRecoverable

CHECK_DEADLOCK FALSE
