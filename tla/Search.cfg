SPECIFICATION SearchSpec
CONSTANTS
    c1 = c1
    c2 = c2
    c3 = c3
    Container = {c1, c2, c3}
    Lists <- Few
    MaxKnown = 1
    None = None
INVARIANTS SearchTypeOK SearchCorrect
PROPERTIES Terminates
CHECK_DEADLOCK FALSE
