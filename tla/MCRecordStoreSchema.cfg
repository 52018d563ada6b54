SPECIFICATION Spec
CONSTANTS
    k1 = k1
    b1 = b1
    Keys = {k1}
    Bodies = {b1}
    Dims = {1, 2}
    Schemas = {1, 2}
    Statuses = {"Pending"}
    RepeatedKeys = FALSE
    MaxEpoch = 4
INVARIANT ReplaySucceeds
CHECK_DEADLOCK FALSE
