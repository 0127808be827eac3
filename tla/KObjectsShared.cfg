SPECIFICATION Spec
CONSTANTS
    NPages = 40
    KObjNPages = 2
    ThreadNPages = 3
    NMove = 11
    NPools = 2
    Tasks <- TaskEach
    Home <- SharedHome
    LabelOf <- Labels
    SchedLabelOf <- SchedLabels
    Bottom = "bottom"
    CanFlow <- Flows
    Invalid = Invalid
INVARIANTS RefsValid
CHECK_DEADLOCK FALSE
