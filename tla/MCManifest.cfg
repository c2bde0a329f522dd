SPECIFICATION Spec
CONSTANTS
    A = A
    B = B
    j1 = j1
    j2 = j2
    Nodes = {A}
    Raw = {1, 2}
    Outs = {3, 4}
    WriterOf <- MCWriterOf
    Jobs = {j1, j2}
    RunsOn <- MCRunsOn
    PageEnds = {2, 4}
    MaxRetired = 2
    MaxCrashes = 1
SYMMETRY Symmetry
VIEW NoHistory
CHECK_DEADLOCK FALSE
INVARIANTS
    TypeOK
    NoRowGone
    NoRowTwice
