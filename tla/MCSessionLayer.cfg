SPECIFICATION Spec
CONSTANTS
    Managers = {m1, m2}
    WorkDirs = {d1, d2}
    Stems = {s1, s2}
    LegacyKey = Legacy
    DefaultDir = d1
    Listings <- OldListings
    None = None
SYMMETRY Symmetry
INVARIANTS
    TypeOK
    SessionIsNew
    RoutedRight
CHECK_DEADLOCK FALSE
