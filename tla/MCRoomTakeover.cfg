CONSTANTS
    BridgeConns = {b1, b2, b3}
    WebConns = {}
    Foreign = {b1, b2, b3}
    NoConn = NoConn
    Serial = {0, 1, 2, 3, 4, 5}
    PingInterval = 20
    PongTimeout = 30
    MaxMissed = 2
    MaxBacklog = 1

SPECIFICATION FairSpec

INVARIANTS
    SlotIsOpenBridge
    ChallengeHandled

PROPERTIES
    ChallengeDecided
    SlotImplemented
    EveryoneSettled

CHECK_DEADLOCK FALSE
