SPECIFICATION Spec
CONSTANTS
    alice = alice
    bob = bob
    c1 = c1
    c2 = c2
    t1 = t1
    t2 = t2
    Nil = Nil
    Account = {alice, bob}
    Channel = {c1, c2}
    Owner <- MCOwner
    Talk = {t1, t2}
    From <- MCFrom
    Dest <- MCDest
    Reader = {alice}
    MaxTime = 2
    PageSize = 1
    Faults = {"redis", "db", "rpc", "push", "crash"}
INVARIANTS
    AnsweredIsKept
    PushedIsStored
    MissedOnlyByMove
    AckNamesContent
PROPERTY
    ImplementsMessageStore
CHECK_DEADLOCK FALSE
