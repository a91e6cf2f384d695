SPECIFICATION FairSpec
CONSTANTS
    p1 = p1
    p2 = p2
    Projects = {p1, p2}
    ProjectOf <- TwoTasks
    Tasks = {1, 2}
    Intervals = {1}
    RunIds = {1, 2, 3, 4, 5}
    Pids = {}
    Null = Null
    Daemons = {d1}
    MaxTime = 0
    MaxFaults = 0
    MaxCrashes = 1
    MaxSignals = 0
    Clients = {}
    Editable = {}
    MaxEdits = 0
PROPERTIES
    LocksAreReleased
