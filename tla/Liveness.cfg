SPECIFICATION ForeverSpec
CONSTANTS
    p1 = p1
    p2 = p2
    Projects = {p1, p2}
    ProjectOf <- TwoTasks
    Tasks = {1, 2}
    Intervals = {1}
    RunIds = {1}
    Pids = {}
    Null = Null
    Daemons = {d1}
    MaxTime = 3
    MaxFaults = 0
    MaxCrashes = 0
    MaxSignals = 1
    Clients = {c1}
    Editable = {1}
    MaxEdits = 1
PROPERTIES
    DueTaskRuns
    LocksAreReleased
    SignalledDaemonExits
