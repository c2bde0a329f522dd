SPECIFICATION Spec
CONSTANTS
    A = A
    B = B
    j1 = j1
    j2 = j2
    Nodes = {A, B}
    Raw = {1, 2}
    Outs = {3}
    WriterOf <- MCWriterOf
    Jobs = {j1}
    RunsOn <- MCRunsOn
    PageEnds = {2, 3}
    MaxRetired = 3
    MaxCrashes = 0
SYMMETRY Symmetry
CHECK_DEADLOCK FALSE
INVARIANTS
    RowsKnown
