SPECIFICATION FairSpec
CONSTANTS
    s1 = s1
    s2 = s2
    Sender = {s1, s2}
    Message <- MCMessage
    Op <- MCOp
    PingLocks = FALSE
    MaxFrames = 2
    Nil = Nil
    Base = 3
INVARIANTS
    TypeOK
    SendsNeverMix
    PeerReadsWhole
PROPERTY
    CloseEndsAll
CHECK_DEADLOCK FALSE
