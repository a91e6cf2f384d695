SPECIFICATION HSpec
CONSTANTS
    p1 = p1
    p2 = p2
    Projects = {p1, p2}
    ProjectOf <- ThreeTasks
    Tasks = {1, 2, 3}
    Intervals = {1}
    RunIds = {1, 2, 3, 4, 5, 6}
    Pids = {}
    Null = Null
    Daemons = {d1}
    MaxTime = 0
    MaxFaults = 2
    MaxCrashes = 1
    MaxSignals = 1
    Clients = {}
    Editable = {}
    MaxEdits = 0
INVARIANTS
    LockedIffRunning
    SingleRun
    NoLeakedLock
    AtMostOneLateStart
PROPERTIES
    ImplementsRunLock
