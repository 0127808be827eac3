SPECIFICATION Spec
CONSTANTS
    Trees <- MCTrees
    DeviceAt <- MCDeviceAt
    CellBase = 16
    PageSize = 4
    PoolPages = 4
    UartSize = 16
    HeapStart = 45
    Char = {"a", "b"}
    BufLen = 2
    FifoDepth = 1
    MaxKeys = 4
    UartIrq = 33
CHECK_DEADLOCK FALSE
INVARIANTS Found MemoryApart LineRight
PROPERTY KeysRead
