SPECIFICATION Spec
CONSTANTS
    Sessions <- MCSessions
    HolderOf <- MCHolderOf
    Holders = {"a", "b"}
    TtlsMs = {1500}
    MaxTime = 4
    MaxWrites = 3
    MaxGeneration = 2
INVARIANTS TypeOK LeaseExclusive FencingTokensProgress
PROPERTY PointerAdvances
CHECK_DEADLOCK FALSE
