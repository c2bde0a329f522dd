CONSTANTS
    q1 = q1
    Segs = {1}
    Queries = {q1}
    Readers = {"pod", "select"}
    Asked = {"pod", "select"}
    Grace = 3
    Check = 1
    Delay = 0
    Skew = 0
    Lag = 1
    RefreshGap = 2
    Timely = TRUE
    HoldLimit = 1
SPECIFICATION Spec
INVARIANTS
    TypeOK
    PodHidesNoRow
    SelectHidesNoRow
    NoRowTwice
    ViewStaysOpen
PROPERTIES
    MergedAfterRetired
CHECK_DEADLOCK FALSE
