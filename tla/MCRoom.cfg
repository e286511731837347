CONSTANTS
    BridgeConns = {b1, b2}
    WebConns = {w1}
    Foreign = {b1, b2, w1}
    NoConn = NoConn
    Serial = {0, 1, 2, 3, 4}
    PingInterval = 20
    PongTimeout = 30
    MaxMissed = 3
    MaxBacklog = 1

SPECIFICATION Spec
SYMMETRY ConnSymmetry

INVARIANTS
    TypeOK
    RelayToOwner
    StatusTold
    SilenceBounded

CHECK_DEADLOCK FALSE
