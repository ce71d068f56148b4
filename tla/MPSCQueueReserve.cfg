\* A queue without storage on which Reserve(1) is called.
CONSTANTS
    Producers = {p1}
    Items = {a}
    NoItem = NoItem
    InitSizes = {2}
    ReserveSizes = {1}
    MaxPos = 3
SPECIFICATION Spec
INVARIANTS OccupancyBounded
CHECK_DEADLOCK FALSE
