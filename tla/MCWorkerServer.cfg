CONSTANTS
    o1 = o1
    o2 = o2
    s1 = s1
    s2 = s2
    Senders <- MCSenders
    Keys = {k1, k2}
    SessionIds <- MCSessionIds
    Queries = {q1, q2}
    Envelopes = {n1, n2}
    Nonces = {b1, b2, b3, b4}
    MaxNonces = 3
    MaxSessions = 2
    MaxIncarnations = 2
    SenderOf <- MCSenderOf
    KemOf <- MCKemOf
    NONE = NONE
SYMMETRY Symmetry
SPECIFICATION Spec
INVARIANTS TypeOK OncePerSession ClosedForGood LiveSessionsPinned WorkerInv
