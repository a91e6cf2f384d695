\* Binary digits: 16 seconds of four ticks; a duration overflows at 6 seconds.
CONSTANTS
    Base = 2
    SecondDigits = 4
    FractionDigits = 2
    DurationLimit = 24
    Epoch = 24
    MaxClock = 33
    MaxRuns = 3
    Projects = {"p1", "p2"}
    Tasks = {1, 2}
    ProjectOf <- MCProjectOf
    Intervals = {1, 8}
    Null = Null
    MaxParts = 2
    Unsent = Unsent
    Unknown = "other"
    Unmatched = "Prompt"
    Keys <- MCKeys
    Vals <- MCVals
    Paths <- MCPaths
    ShellParts <- MCShellParts
    JSONParts <- MCJSONParts
SPECIFICATION Spec
INVARIANTS DueToTheSecond NewestListedFirst ArrivesAsMeant
PROPERTIES OldestStartsFirst
CHECK_DEADLOCK FALSE
