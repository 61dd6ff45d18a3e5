SPECIFICATION Spec
CONSTANTS
    Sessions = {s1, s2}
    Window = 1
    StreamQueue = 4
    MaxLines = 2
INVARIANT NobodyWaitsInVain
CHECK_DEADLOCK FALSE
