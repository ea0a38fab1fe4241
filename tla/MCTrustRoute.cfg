CONSTANTS
    Threads = {t1, t2, t3}
    Values = {n1, n2, n3}
    MaxEntries = 2
    NONE = NONE
    Clear = Clear
    s1 = s1
    s2 = s2
    k1 = k1
    k2 = k2
    n1 = n1
    n2 = n2
    n3 = n3
    Senders = {s1, s2}
    Keys = {k1, k2}
    Requests <- MCRequests
SYMMETRY Symmetry
SPECIFICATION RouteSpec
INVARIANTS RouteTypeOK AcceptedOnce Bounded LockInv OnlyRacersReplace
PROPERTIES ImplementsOneTime
