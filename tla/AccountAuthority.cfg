SPECIFICATION Spec
CONSTANTS
    Clients = {k1, k2}
    Issued = {c1}
    Password = pw
    MaxChanges = 2
    MaxLost = 1
SYMMETRY Symmetry
VIEW View
INVARIANTS RevocationReaches ChangeReaches
CHECK_DEADLOCK FALSE
