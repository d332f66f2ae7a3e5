SPECIFICATION FairSpec
CONSTANTS
    i1 = i1
    i2 = i2
    k1 = k1
    k2 = k2
    k3 = k3
    Nil = Nil
    Conn = {k1, k2, k3}
    Id = {i1, i2}
    IdOf <- MCIdOf
    Pusher = {p}
    Tcp = TRUE
INVARIANTS
    TypeOK
    MapHoldsLive
    LostOnlyToRival
PROPERTY
    ShutdownClosesListed
    ImplementsConnections
CHECK_DEADLOCK FALSE
