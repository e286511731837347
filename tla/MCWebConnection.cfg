SPECIFICATION Spec
CONSTANTS
    Sockets = {s1, s2, s3}
    Tokens = {t1, t2}
    Nonces = {n1, n2, n3}
    None = None
    FailLimit = 2
    MaxPending = 2
    MaxFaults = 2
    MaxUser = 2
INVARIANTS
    TypeOK
    OneConnection
    NeverAsleep
PROPERTY
    EndsUpOnline
CHECK_DEADLOCK FALSE
