CONSTANTS
    o1 = o1
    o2 = o2
    w1 = w1
    w2 = w2
    Orchestrators <- MCOrchestrators
    Workers <- MCWorkers
    Ids <- MCIds
    IdOf <- MCIdOf
    Epochs <- MCEpochs
    Fresh <- MCFresh
    MaxEntries = 2
    MaxSessions = 3
    MaxCalls = 4
    Label <- MCLabel
    Compared <- MCCompared
    Fields <- MCFields
    NONE = NONE
CHECK_DEADLOCK FALSE
SYMMETRY Symmetry
SPECIFICATION Spec
INVARIANTS TypeOK KeptSessionsAgree OnlyDisplacedLeak SentMeansTornDown OnlyStrangersFail AnswersMatchRuns OneVerifiedWorker SessionsDistinct InProcessInv
