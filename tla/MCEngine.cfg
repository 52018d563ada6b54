SPECIFICATION Spec
CONSTANTS
    MaxEpoch = 4
    MaxOps = 4
    MaxRestarts = 2
    MaxCheckpoints = 2
    Faults = {"sync_fail", "io_fail", "power_loss"}
INVARIANTS TypeOK AckedRecoverable LiveIsRecoverable ChainedWal
PROPERTIES AckedFramesStay ImplementsDurableLog
CHECK_DEADLOCK FALSE
