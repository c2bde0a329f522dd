CONSTANTS
    a = a
    Rows = {1, 2}
    Tenants = {a}
    TenantOf <- MCTenantOf
    Dropped = {}
    GroupSizes = {1, 2}
    MaxSeq = 3
    MaxMerges = 1
SPECIFICATION FairSpec
INVARIANTS
    TypeOK
    NoRowLost
    KeyContentStable
    StoredOnce
    MarkerMeansComplete
    CommittedHasMarker
    ActiveNotCommitted
PROPERTIES
    CommitNeverForgotten
    ImplementsLog
    EventuallyRemoved
CHECK_DEADLOCK FALSE
