SPECIFICATION MembershipSpec
CONSTANTS
    u1 = u1
    u2 = u2
    ch1 = ch1
    ch3 = ch3
    ch2 = ch2
    n1 = n1
    n2 = n2
    n3 = n3
    Conns = {u1, u2}
    Chans = {ch1, ch2, ch3}
    Nicks = {n1, n2, n3}
    Shards = {1, 2}
    Home <- SameHome
    Owner <- MCOwner
    FirstNick <- MCNick
    MaxChannels = 2
    Verbs <- JoinAndQuit
    MaxCommands <- MCCommands
INVARIANT ViewsAreExact
CHECK_DEADLOCK FALSE

SYMMETRY Symmetry
