CONSTANTS
    None = None
    alice = alice
    bob = bob
    carol = carol
    Conns <- ThreeConns
    Fds <- TwoFds
    ListenFd = 3
    AbruptPhases <- OutsideQueries
CHECK_DEADLOCK FALSE
SPECIFICATION FairSpec
INVARIANTS
    TypeOK
    Agreement
    OnlyQueriesEndTheServer
    NoLostWakeup
    EventsAreForOpenSockets
PROPERTIES
    OnlyGoneClientsAreClosed
    QueriesAreAnswered
    GoneClientsAreClosed
    StopEndsTheLoop
