CONSTANTS
    q1 = q1
    Segs = {1}
    Queries = {q1}
    Readers = {"pod"}
    Asked = {"pod"}
    Grace = 4
    Check = 1
    Delay = 1
    Skew = 0
    Lag = 1
    RefreshGap = 3
    Timely = FALSE
    HoldLimit = 2
SPECIFICATION Spec
INVARIANTS
    PodHidesNoRow
CHECK_DEADLOCK FALSE
