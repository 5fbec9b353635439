\* containers that start well and runs that may fail: a call that never returns
CONSTANTS
    Callers = {c1, c2}
    Workers = {w1, w2}
    Containers = {k1, k2}
    MaxJobCount = 1
    MaxRetries = 2
    RunOutcomes = {"ok", "fail"}
    InitStates = {"idle"}
    None = None
\* the program stops when every room waits for an answer that is lost
CHECK_DEADLOCK FALSE
SPECIFICATION FairSpec
PROPERTY
    EveryCallReturns
