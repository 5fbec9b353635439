\* a host that was rebooted: containers that stopped
CONSTANTS
    Ids = {k1, k2, k3}
    MaxWorkers = 2
    None = None
    RoomIds = {0, 1}
    DevRooms = {1}
    NewRoom = 0
    MaxManagers = 2
    MaxDeletes = 2
    MaxStreams = 2
    MaxAttempts = 2
SPECIFICATION Spec
INVARIANT
    AllCanRun
CHECK_DEADLOCK FALSE
