SPECIFICATION Spec
CONSTANTS
    alice = alice
    g1 = g1
    g2 = g2
    c1 = c1
    c2 = c2
    c3 = c3
    Nil = Nil
    Account = {alice}
    Gateway = {g1, g2}
    Channel = {c1, c2}
    Owner <- MCOwner
    Gate <- MCGate
    Faults = {"forward", "redis", "crash", "stop", "expiry"}
INVARIANTS
    TypeOK
    LocationBacked
    LoggedOutIsForgotten
    KickoutJustified
    EstablishedSessionFound
    SoleDeviceReachable
PROPERTY
    ImplementsRegistry
CHECK_DEADLOCK FALSE
