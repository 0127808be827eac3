CONSTANTS
    NPages = 5
    MaxRun = 2
SPECIFICATION Spec
INVARIANT UnwrapsHold
CHECK_DEADLOCK FALSE
