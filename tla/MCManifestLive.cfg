SPECIFICATION FairSpec
CONSTANTS
    A = A
    B = B
    j1 = j1
    j2 = j2
    Nodes = {A}
    Raw = {1, 2}
    Outs = {3}
    WriterOf <- MCWriterOf
    Jobs = {j1}
    RunsOn <- MCRunsOn
    PageEnds = {2, 3}
    MaxRetired = 1
    MaxCrashes = 1
CHECK_DEADLOCK FALSE
PROPERTIES
    Converges
