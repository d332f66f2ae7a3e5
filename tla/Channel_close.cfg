SPECIFICATION FairSpec
CONSTANTS
    Packet = {p1, p2}
    Stopper = {s1, s2}
INVARIANT
    CloseOnce
PROPERTY
    GoroutinesEnd
CHECK_DEADLOCK FALSE
