SPECIFICATION Spec
CONSTANTS
    s1 = s1
    s2 = s2
    home = home
    Old = {s1}
    Fresh = s2
    DirOf <- MCDirOf
    New = New
    Legacy = Legacy
    None = None
    MaxPrompts = 2
    MaxUpsets = 2
    MaxWire = 2
INVARIANTS
    TypeOK
    ReadyAnswered
PROPERTIES
    BucketsKept
    NotStuckLoading
CHECK_DEADLOCK FALSE
