SPECIFICATION Spec
CONSTANTS
    MaxEpoch = 3
    MaxOps = 3
    MaxRestarts = 2
    MaxCheckpoints = 1
    Faults = {"sync_fail", "short_write", "io_fail", "power_loss", "manifest_corruption"}
INVARIANTS OneCommitPerEpoch
PROPERTIES ManifestAdvances
CHECK_DEADLOCK FALSE
