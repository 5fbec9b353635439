\* a channel that fills while Start judges a submission
CONSTANTS
    a = a
    b = b
    Players = {a, b}
    Registered = {a, b}
    Consumers = {s1}
    EventCap = 1
    Requests <- Busy
    Unknown <- NoUnknown
    Tests = 1
    BlankTests = {}
    JobAnswers = {"match"}
    DbFaults = FALSE
    Leftovers <- NoRows
    None = None
\* the requests are finite: the room stops when all are served
CHECK_DEADLOCK FALSE
SPECIFICATION FairSpec
PROPERTY
    EveryEventServed
