SPECIFICATION Spec
CONSTANTS
    Procs = {p1, p2}
    NoOne = NoOne
    Ttl = 3
    RenewEvery = 1
    FenceAfter = 1
    LockWait = 1
    TimerSlack = 1
    MaxTime = 5
    MaxInFlight = 2
SYMMETRY Symmetry
INVARIANTS HeldIsHolder NoWriteAfterTakeover
PROPERTIES ResumesAsHolder
CHECK_DEADLOCK FALSE
