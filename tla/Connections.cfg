SPECIFICATION Spec
CONSTANTS
    h1 = h1
    h2 = h2
    a1 = a1
    a2 = a2
    p1 = p1
    k1 = k1
    k1b = k1b
    k2 = k2
    e1 = e1
    c1 = c1
    c2 = c2
    Hosts = {h1, h2}
    Keys = {k1, k1b, k2, e1}
    SshKeys = {k1, k1b, k2}
    Accounts = {a1, a2}
    Paths = {p1}
    FirstKeys <- TwoKeys
    Authorized <- LoginsAllowed
    Directories <- DirectoriesThere
    KnownHosts <- OneKnown
    Clients = {c1,c2}
    Forms <- OneForm
    MaxRotations = 1
    Edits <- SmallEdits
    Blank = Blank
    Null = Null
SYMMETRY RequestSymmetry
INVARIANTS
    TypeOK
    TrustedSessions
    MismatchHasCause
PROPERTIES
    PinnedAsTested
