CONSTANTS
    o1 = o1
    n1 = n1
    NONE = NONE
    Orchestrator = o1
    Calls = {c1, c2}
    Senders <- MCSenders
    Keys <- MCKeys
    SessionIds = {c1, c2}
    Queries = {c1, c2}
    Envelopes = {c1, c2}
    Nonces <- MCNonces
    ClientNonce <- OwnNonces
    FaultyCalls = {}
    LogFaults = {}
    MaxActive = 2
    Redelivery = FALSE
    Attempts = 3
    MaxIncarnations = 1
    MaxRestarts = 0
    AuditRoom = 9
    MaxNonces = 12
    MaxSessions = 3
    MaxDelegations = 3
CHECK_DEADLOCK FALSE
SPECIFICATION Spec
INVARIANTS OkMeansGone
