CONSTANTS
    o1 = o1
    n1 = n1
    NONE = NONE
    Orchestrator = o1
    Calls = {c1, c2, c3, c4}
    Senders <- MCSenders
    Keys <- MCKeys
    SessionIds = {c1, c2, c3, c4}
    Queries = {c1, c2, c3, c4}
    Envelopes = {c1, c2, c3, c4}
    Nonces <- MCNonces
    ClientNonce <- RepeatedNonce
    FaultyCalls = {c1, c2}
    LogFaults = {c1, c2}
    MaxActive = 1
    Redelivery = TRUE
    Attempts = 2
    MaxIncarnations = 1
    MaxRestarts = 0
    AuditRoom = 4
    MaxNonces = 14
    MaxSessions = 3
    MaxDelegations = 3
CHECK_DEADLOCK FALSE
SYMMETRY Symmetry
SPECIFICATION Spec
INVARIANTS ClientNonceOnce OkMeansGone OnlyUnconfirmedLeak CleanCallsRecover SerialInv RecoveryInv
PROPERTIES DiscardKeepsSession
