SPECIFICATION Spec
CONSTANTS
    Managers = {m1, m2}
    WorkDirs = {d1}
    Stems = {s1, s2, s3}
    LegacyKey = Legacy
    DefaultDir = None
    Listings <- OldListings
    None = None
SYMMETRY Symmetry
PROPERTY
    MigratesOnce
CHECK_DEADLOCK FALSE
