CONSTANTS
    None = None
    alice = alice
    bob = bob
    carol = carol
    Conns <- TwoConns
    Fds <- TwoFds
    ListenFd = 3
    AbruptPhases <- AtIdle
CHECK_DEADLOCK FALSE
SPECIFICATION Spec
INVARIANTS
    FreshConnectionsStartUp
