CONSTANTS
    Sockets = {s1, s2, s3}
    NoSocket = NoSocket
    MaxAttempt = 3
    MaxInFlight = 2

SPECIFICATION Spec

PROPERTIES
    RefusalsBackOff
