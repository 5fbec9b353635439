\* a room made by CreateRoomHandler: two Start goroutines on one channel
CONSTANTS
    a = a
    b = b
    Players = {a, b}
    Registered = {a, b}
    Consumers = {s1, s2}
    EventCap = 2
    Requests <- TwoTabs
    Unknown <- NoUnknown
    Tests = 1
    BlankTests = {}
    JobAnswers = {"match", "error"}
    DbFaults = FALSE
    Leftovers <- Unranked
    None = None
\* the requests are finite: the room stops when all are served
CHECK_DEADLOCK FALSE
SPECIFICATION FairSpec
INVARIANTS
    OneVerdict
    LeaderboardFresh
PROPERTY
    EveryEventServed
