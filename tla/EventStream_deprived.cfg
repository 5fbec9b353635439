\* two connections of one player
CONSTANTS
    a = a
    b = b
    Players = {a, b}
    Registered = {a, b}
    Consumers = {s1}
    EventCap = 1
    Conns <- Twice
    Requests <- TwiceRequests
    Unknown <- NoUnknown
    Tests = 1
    BlankTests = {}
    JobAnswers = {"match", "mismatch"}
    DbFaults = FALSE
    Leftovers <- NoRows
    None = None
\* the connections are finite: the room stops when all are closed
CHECK_DEADLOCK FALSE
SPECIFICATION StreamSpec
INVARIANT
    ConnectedAreListeners
