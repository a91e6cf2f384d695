SPECIFICATION FairSpec
CONSTANTS
    p1 = p1
    p2 = p2
    Projects = {p1, p2}
    ProjectOf <- OneEach
    Tasks = {1, 2}
    Intervals = {1}
    RunIds = {1, 2, 3}
    Pids = {101, 102, 103}
    Null = Null
    Managers = {m1, m2}
    MaxLosses = 1
INVARIANTS
    TypeOK
    LocksNameRunningRuns
PROPERTIES
    OnlyDeadLocksCleared
    PidLocksAreReleased
