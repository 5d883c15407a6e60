SPECIFICATION LiveSpec
CONSTANTS
    Callers = {c1, c2}
    MaxCalls = 2
    MaxFrames = 2
    MaxAsks = 1
    MaxPipe = 2
INVARIANTS
    TypeOK
    AnswerReachesItsCaller
    PendingIsUnderWay
    EveryFrameArrives
    KilledOnlyAfterTimeout
    NoSilentLeak
PROPERTIES
    RequestsAnswered
CHECK_DEADLOCK FALSE
