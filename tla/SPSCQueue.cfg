\* Rings of one slot (always full), two and three slots; rounds are unbounded.
CONSTANTS
    Items = {a, b}
    NoItem = NoItem
    InitSizes = {0, 1, 2, 3}
SPECIFICATION Spec
INVARIANTS TypeOK NoSlotShared SPSCInv
PROPERTIES ImplementsFIFO
CHECK_DEADLOCK FALSE
