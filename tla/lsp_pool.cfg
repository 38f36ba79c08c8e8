\* Two operations, two preloads and a shutdown.
SPECIFICATION FairSpec
CONSTANTS
    u1 = u1
    u2 = u2
    p1 = p1
    p2 = p2
    d1 = d1
    w1 = w1
    w2 = w2
    Users = {u1, u2}
    Preloads = {p1, p2}
    Shutdowns = {d1}
    Root <- MCRoot
    MaxConnections = 3
    InitialConnections = 2
INVARIANTS SoleUse Accounted LimitUntilEased
PROPERTIES EveryCallReturns
CHECK_DEADLOCK FALSE
