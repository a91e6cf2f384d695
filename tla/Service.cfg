SPECIFICATION FairSpec
CONSTANTS
    server = server
    cli = cli
    x1 = x1
    t1 = t1
    t2 = t2
    s1 = s1
    s2 = s2
    Procs = {server, cli}
    Projects = {x1}
    MaxFailures = 1
    Server = server
    Tabs = {t1, t2}
    Ids = {s1, s2}
    TTL = 1
    MaxClock = 2
    Null = Null
INVARIANTS
    TypeOK
    SchemaComplete
    NoKeyLost
PROPERTIES
    AcceptedIffLive
    ImplementsSessions
    ServesOrStuck
    SignalledServerExits
