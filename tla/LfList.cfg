CONSTANTS
    Pusher = {t1, t2}
    Remover = {t2, t3}
    Reader = {t3}
    NAddr = 3
    MaxPush = 3
    MaxNth = 2
SPECIFICATION Spec
INVARIANTS Linked NothingLost MemorySafe IterExact
PROPERTY PushesEnd
CHECK_DEADLOCK FALSE
