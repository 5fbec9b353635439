\* one room of development and the id of new rooms, two workers, up to three
\* containers in any state, three starts
CONSTANTS
    Ids = {k1, k2, k3}
    MaxWorkers = 2
    None = None
    RoomIds = {0, 1}
    DevRooms = {1}
    NewRoom = 0
    MaxManagers = 2
    MaxDeletes = 2
    MaxStreams = 2
    MaxAttempts = 3
SPECIFICATION Spec
INVARIANTS
    ServerTypeOK
    CleanStart
    NewRoomsReachable
    SettledStreamsHear
PROPERTIES
    NoPileUp
    OrphanedRoomsStay
CHECK_DEADLOCK FALSE
