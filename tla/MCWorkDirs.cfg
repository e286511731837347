SPECIFICATION Spec
CONSTANTS
    home = home
    repo = repo
    p1 = p1
    p2 = p2
    None = None
    Missing = Missing
    Torn = Torn
    Dirs <- MCDirs
    Pages <- MCPages
    Users <- MCOnePage
    ConfigDir = home
    MaxAsks = 2
    MaxFaults = 1
INVARIANTS
    TypeOK
    AckedDurable
    EntriesOfPath
PROPERTY
    PagesCatchUp
CHECK_DEADLOCK FALSE
