SPECIFICATION Spec
CONSTANTS
    k1 = k1
    k2 = k2
    b1 = b1
    Keys = {k1, k2}
    Bodies = {b1}
    Dims = {1}
    Schemas = {1}
    Statuses = {"Pending"}
    RepeatedKeys = FALSE
    MaxEpoch = 4
SYMMETRY Symmetry
INVARIANTS
    TypeOK
    ReplayMatchesLive
    VersionChain
    SourceHashCurrent
PROPERTIES
    SnapshotStable
    NothingResurrected
CHECK_DEADLOCK FALSE
