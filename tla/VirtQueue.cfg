SPECIFICATION Spec
CONSTANTS
    RingLen = 3
    IdxMod = 5
    MaxCalls = 6
INVARIANTS OnlyTheCallsBuffers OnlyKnownPanics
PROPERTIES CallsReturn
CHECK_DEADLOCK FALSE
