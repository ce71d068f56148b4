\* Two producers, one consumer, storage of 2 or 3 nodes, positions that wrap
\* around the ring more than once.
CONSTANTS
    Producers = {p1, p2}
    Items = {a, b}
    NoItem = NoItem
    InitSizes = {1, 2}
    ReserveSizes = {3}
    MaxPos = 4
SPECIFICATION FairSpec
INVARIANTS TypeOK NoSlotShared OccupancyBounded QueueInv
PROPERTIES RefusedOnlyWhenFull ImplementsFIFO EveryClaimPopped
CHECK_DEADLOCK FALSE
