\* two rooms, two workers, two containers in any state at start, failing runs
CONSTANTS
    Callers = {c1, c2}
    Workers = {w1, w2}
    Containers = {k1, k2}
    MaxJobCount = 1
    MaxRetries = 2
    RunOutcomes = {"ok", "fail"}
    InitStates = {"idle", "error"}
    None = None
\* the program stops when every room waits for an answer that is lost
CHECK_DEADLOCK FALSE
SPECIFICATION FairSpec
INVARIANTS
    TypeOK
    ExclusiveContainer
    HeldIsBusy
    OneOwner
    SendNeverBlocks
    StarvationHasCause
PROPERTIES
    JudgeSpec
    RejectedByOthers
    WorkersReturn
    AnsweredOrAbandoned
    HealthyCallsReturn
