SPECIFICATION Spec
CONSTANTS
    c1 = c1
    c2 = c2
    Conns = {c1, c2}
    Shards = {1, 2}
    Home <- MCHome
    Welcomed = {c2}
    Does <- MCDoes
    Uses <- MCUses
    BeforeConnect = TRUE
    MaxAttempts <- MCAttempts
    MaxTrouble = 2
INVARIANT RegistrationCompletes
CHECK_DEADLOCK FALSE

VIEW View
