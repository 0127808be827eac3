CONSTANTS
    NPages = 8
    MaxRun = 4
SPECIFICATION Spec
INVARIANTS WellLinked NoRedRed
PROPERTY IsFreePages
CHECK_DEADLOCK FALSE
