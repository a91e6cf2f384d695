SPECIFICATION Spec
CONSTANTS
    p1 = p1
    p2 = p2
    t1 = t1
    t2 = t2
    r1 = r1
    r2 = r2
    Projects = {p1, p2}
    Tasks = {t1, t2}
    Runs = {r1, r2}
    ProjectOf <- OneEach
    Texts = {"x"}
    MaxFetches = 2
    Null = Null
INVARIANTS
    TypeOK
    NoSilentLoading
    SettlesAsAsked
PROPERTIES
    TypedTextStays
