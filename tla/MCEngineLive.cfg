SPECIFICATION FairSpec
CONSTANTS
    MaxEpoch = 3
    MaxOps = 3
    MaxRestarts = 2
    MaxCheckpoints = 1
    Faults = {"power_loss"}

PROPERTIES CommittedBecomesLive
CHECK_DEADLOCK FALSE
