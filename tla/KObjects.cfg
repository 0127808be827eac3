SPECIFICATION Spec
CONSTANTS
    NPages = 57
    KObjNPages = 2
    ThreadNPages = 3
    NMove = 20
    NPools = 2
    Tasks <- TasksEach
    Home <- OwnHome
    LabelOf <- Labels
    SchedLabelOf <- SchedLabels
    Bottom = "bottom"
    CanFlow <- Flows
    Invalid = Invalid
INVARIANTS TypeOK PagesPartition SlotsSound RefsValid
PROPERTIES PagesStay TasksSpawned
CHECK_DEADLOCK FALSE
