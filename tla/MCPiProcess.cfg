CONSTANTS
    Children = {p1, p2}
    NoChild = NoChild
    Writes = {w1}
    Reads = {g1}
    Requests = {r1, r2}
    Timed = {r1}
    p1 = p1
    Asker <- MCAsker

SPECIFICATION FairSpec

INVARIANTS
    TypeOK
    CommandsInOrder
    DialogsOnce
    

PROPERTIES
    KilledStaysDown
    SpawnEnds

CHECK_DEADLOCK FALSE
