CONSTANTS
    Start = 4
    Size = 11
    PageSize = 2
    ItemBits = 3
    Usize = 32
    MaxCount = 7
SPECIFICATION Spec
INVARIANT PanicsOnlyOutside
PROPERTIES MapIsFreePages SetIsFreePages
CHECK_DEADLOCK FALSE
