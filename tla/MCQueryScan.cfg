SPECIFICATION FairSpec
CONSTANTS
    Queries = {1, 2}
    Workers = {1, 2, 3}
    Objects = {"a", "b", "c"}
    QueryOf <- MCQueryOf
    Tasks <- MCTasks
    Size <- MCSize
    Plan <- MCPlan
    Groups <- MCGroups
    FileSlots = 2
    MaxResident = 2
    MaxFiles = 2
    MaxLive = 2
    Decoders = 2
    RowCeilings <- MCRowCeilings
    NoObject = NoObject
INVARIANTS
    TypeOK
    Complete
    CeilingOvershoot
    LiveCeiling
    NoLostWakeup
    PoolsAccounted
PROPERTIES
    EveryQueryEnds
CHECK_DEADLOCK FALSE
