SPECIFICATION Spec
CONSTANTS
    Sessions = {s1, s2}
    Window = 1
    StreamQueue = 2
    MaxLines = 2
SYMMETRY Symmetry
INVARIANTS
    CreditAccount
    ShardHearsInOrder
    NoZombie
CHECK_DEADLOCK FALSE
