SPECIFICATION Spec
CONSTANTS
    Keys = {1, 2}
    Vals <- MCVals
    SegmentIds <- MCSegmentIds
    MaxEpoch = 3
    MaxGen = 5
    MaxFaults = 1
    Queries <- MCQueries
    Signed = TRUE
    MinDocuments = 2
    Capacity = 1
INVARIANTS
    QueryTypeOK
    MatchingRecordsAnswered
    NothingHiddenAnswered
    ScansAreOneSnapshot
    PagesAreOneSnapshot
    CacheIsTransparent
    ManifestVerifies
    CopyIsConsistent
CHECK_DEADLOCK FALSE
