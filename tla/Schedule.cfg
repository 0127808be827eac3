CONSTANTS
    Main = main
    s1 = s1
    s2 = s2
    t1 = t1
    t2 = t2
    NoThread = NoThread
    NPools = 2
    SchedOf <- MCSchedOf
    TasksOf <- MCTasks
    Slices <- MCSlices
    Peer <- MCPeer
    TimeSlice = 2
SPECIFICATION Spec
INVARIANTS CurrentIsRunning MaskMatchesCode NeverSpins NoPanic
PROPERTIES SchedulersRun TasksRun InterruptsComeBack
