\* One call at a time: three tasks in parallel or a chain of two steps.
CONSTANTS
    Jobs = {"trio", "chain"}
    Kind <- KindOf
    Width <- WidthOf
    Concurrency = 2
    MaxStarts = 1
    MaxMishaps = 1
    MaxSuspensions <- SuspensionsOf
    MaxResumes = 2
SPECIFICATION Spec
INVARIANTS TypeOK FrozenReachable ResultsInOrder
PROPERTIES KillIsFinal CallsSettle
CHECK_DEADLOCK FALSE
