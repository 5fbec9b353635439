\* one Start goroutine: players come and go, submissions are judged in every way
CONSTANTS
    a = a
    b = b
    Players = {a, b}
    Registered = {a, b}
    Consumers = {s1}
    EventCap = 2
    Requests <- ComeAndGo
    Unknown <- NoUnknown
    Tests = 2
    BlankTests = {2}
    JobAnswers = {"match", "mismatch", "error", "rejected", "lost"}
    DbFaults = FALSE
    Leftovers <- Unranked
    None = None
\* the requests are finite: the room stops when all are served
CHECK_DEADLOCK FALSE
SPECIFICATION Spec
INVARIANTS
    TypeOK
    MembersFollowEvents
    AnnouncedAreMembers
    VerdictsInOrder
    OccupiedRoomStays
PROPERTY
    RoomSpec
