\* two connections of one player, and SQL statements that fail
CONSTANTS
    a = a
    b = b
    Players = {a, b}
    Registered = {a, b}
    Consumers = {s1}
    EventCap = 1
    Conns <- Twice
    Requests <- TwiceRequests
    Unknown <- NoUnknown
    Tests = 1
    BlankTests = {}
    JobAnswers = {"match", "mismatch"}
    DbFaults = TRUE
    Leftovers <- NoRows
    None = None
\* the connections are finite: the room stops when all are closed
CHECK_DEADLOCK FALSE
SPECIFICATION FairStreamSpec
INVARIANTS
    StreamTypeOK
    NoStaleListener
    DeprivedByOwnPlayer
PROPERTIES
    EndIsAnnounced
    DispatchEnds
    StartReturns
