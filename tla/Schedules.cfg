SPECIFICATION HSpec
CONSTANTS
    p1 = p1
    p2 = p2
    Projects = {p1}
    ProjectOf <- SameProject
    Tasks = {1, 2}
    Intervals = {1, 2}
    RunIds = {1, 2, 3, 4, 5, 6, 7}
    Pids = {}
    Null = Null
    Daemons = {d1}
    MaxTime = 2
    MaxFaults = 0
    MaxCrashes = 0
    MaxSignals = 0
    Clients = {c1}
    Editable = {1}
    MaxEdits = 1
INVARIANTS
    ScheduleFollowsRuns
    BoundedBypass
    DisableTakesEffect
PROPERTIES
    NoImmediateRetryUnedited
