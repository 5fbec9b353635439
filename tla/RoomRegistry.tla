------------------------------- MODULE RoomRegistry -------------------------------
(***************************************************************************)
(* Which rooms there are and which manager serves each: the map Rooms of   *)
(* GlobalRooms (internal/channels/room_manager.go), table rooms, and the   *)
(* handlers of internal/handlers that go through them.                     *)
(*                                                                         *)
(* The map holds pointers and dies with the process; the rows do not.      *)
(* What a manager does with its events is the matter of module             *)
(* RoomManager: here a manager is told from an earlier one of its room by  *)
(* a number, a room has members or not, and a deletion is one step.        *)
(***************************************************************************)
EXTENDS Naturals, FiniteSets

CONSTANTS RoomIds,
          DevRooms,     \* the rooms NewGlobalRooms makes, 1 to 3 in the code
          NewRoom,      \* CreateRoomParams.ID of a new room, never set: always 0
          MaxManagers,  \* bound: managers made for a room in one life
          MaxDeletes,   \* bound: deletions of a room under way at once
          MaxStreams    \* bound: event streams that differ

ASSUME RegistryAssumption ==
    /\ DevRooms \subseteq RoomIds /\ NewRoom \in RoomIds
    /\ MaxManagers \in Nat \ {0} /\ MaxDeletes \in Nat /\ MaxStreams \in Nat

VARIABLES rooms,      \* gr.Rooms: the number of each room's manager, 0 for none
          creating,   \* handlers between the insert of a row and gr.CreateRoom
          deletes,    \* RoomDeleted events on their way, for each room
          streams,    \* open event streams: room, manager, and whether they were
                      \* opened, and are still, on a room with nothing under way
          born,       \* history: the rooms whose row was inserted in this life
          roomRows,   \* table rooms
          occupied    \* the rooms with rows in room_players

memory == <<rooms, creating, deletes, streams, born>>
registryVars == <<memory, roomRows, occupied>>

Stream == [room : RoomIds, manager : 1 .. MaxManagers, settled : BOOLEAN]

RegistryTypeOK == /\ rooms \in [RoomIds -> 0 .. MaxManagers]
                  /\ creating \in 0 .. MaxManagers
                  /\ deletes \in [RoomIds -> 0 .. MaxDeletes]
                  /\ streams \subseteq Stream /\ Cardinality(streams) <= MaxStreams
                  /\ born \subseteq roomRows
                  /\ roomRows \subseteq RoomIds /\ occupied \subseteq roomRows

\* nothing is left of the memory of a process that ended
ForgetRooms == /\ rooms' = [r \in RoomIds |-> 0]
               /\ creating' = 0
               /\ deletes' = [r \in RoomIds |-> 0]
               /\ streams' = {}
               /\ born' = {}
               /\ UNCHANGED <<roomRows, occupied>>

\* no process, and whatever an earlier one left in the tables
RegistryInit == /\ roomRows \in SUBSET RoomIds
                /\ occupied \in SUBSET roomRows
                /\ rooms = [r \in RoomIds |-> 0]
                /\ creating = 0
                /\ deletes = [r \in RoomIds |-> 0]
                /\ streams = {} /\ born = {}

-------------------------------------------------------------------------------

\* NewGlobalRooms: managers for the rooms of development, not for the rows
NewGlobalRooms ==
    /\ rooms' = [r \in RoomIds |-> IF r \in DevRooms THEN 1 ELSE 0]
    /\ UNCHANGED <<creating, deletes, streams, born, roomRows, occupied>>

\* seeded bug: INSERT ... ON CONFLICT DO UPDATE
InsertOrUpdate ==
    /\ rooms[NewRoom] + creating < MaxManagers
    /\ roomRows' = roomRows \cup {NewRoom}
    /\ born' = born \cup {NewRoom}
    /\ creating' = creating + 1
    /\ UNCHANGED <<rooms, deletes, streams, occupied>>

\* CreateRoomHandler up to its insert, which the primary key refuses while the row
\* of the last room made this way is there
Insert ==
    /\ rooms[NewRoom] + creating < MaxManagers
    /\ NewRoom \notin roomRows
    /\ roomRows' = roomRows \cup {NewRoom}
    /\ born' = born \cup {NewRoom}
    /\ creating' = creating + 1
    /\ UNCHANGED <<rooms, deletes, streams, occupied>>

\* the rest of it: gr.CreateRoom puts a new manager in the place of any other
Register ==
    /\ creating > 0
    /\ creating' = creating - 1
    /\ rooms' = [rooms EXCEPT ![NewRoom] = @ + 1]
    /\ UNCHANGED <<deletes, streams, born, roomRows, occupied>>

\* DeleteRoomHandler: the room has its row and a manager
Delete(r) ==
    /\ r \in roomRows /\ rooms[r] # 0
    /\ deletes[r] < MaxDeletes
    /\ deletes' = [deletes EXCEPT ![r] = @ + 1]
    /\ UNCHANGED <<rooms, creating, streams, born, roomRows, occupied>>

\* the row is gone, and every stream of the room is on a room that was deleted
RemoveRow(r) ==
    /\ roomRows' = roomRows \ {r}
    /\ born' = born \ {r}
    /\ streams' = {IF s.room = r THEN [s EXCEPT !.settled = FALSE] ELSE s : s \in streams}

\* seeded bugs: no foreign key; the manager is taken out of the map as well
DeleteRowForced(r) ==
    /\ deletes[r] > 0
    /\ deletes' = [deletes EXCEPT ![r] = @ - 1]
    /\ RemoveRow(r)
    /\ UNCHANGED <<rooms, creating, occupied>>

DeleteRowAndManager(r) ==
    /\ deletes[r] > 0
    /\ deletes' = [deletes EXCEPT ![r] = @ - 1]
    /\ IF r \in occupied THEN UNCHANGED <<roomRows, born, streams>> ELSE RemoveRow(r)
    /\ rooms' = [rooms EXCEPT ![r] = 0]
    /\ UNCHANGED <<creating, occupied>>

\* processRoomDeleted: the foreign key of room_players keeps a room with members;
\* the manager stays in the map
DeleteRow(r) ==
    /\ deletes[r] > 0
    /\ deletes' = [deletes EXCEPT ![r] = @ - 1]
    /\ IF r \in occupied THEN UNCHANGED <<roomRows, born, streams>> ELSE RemoveRow(r)
    /\ UNCHANGED <<rooms, creating, occupied>>

\* EventHandler asks the map and not the table; it keeps the manager it found
Open(r) ==
    /\ rooms[r] # 0
    /\ Cardinality(streams) < MaxStreams
    /\ streams' = streams \cup
          {[room |-> r, manager |-> rooms[r],
            settled |-> r \in roomRows /\ (r = NewRoom => creating = 0)]}
    /\ UNCHANGED <<rooms, creating, deletes, born, roomRows, occupied>>

Close == /\ \E s \in streams : streams' = streams \ {s}
         /\ UNCHANGED <<rooms, creating, deletes, born, roomRows, occupied>>

\* managers add and remove the members of their room
Occupy(r) ==
    /\ rooms[r] # 0 /\ r \in roomRows
    /\ occupied' = occupied \cup {r}
    /\ UNCHANGED <<memory, roomRows>>

Vacate(r) ==
    /\ rooms[r] # 0
    /\ occupied' = occupied \ {r}
    /\ UNCHANGED <<memory, roomRows>>

-------------------------------------------------------------------------------
(* What holds. *)

\* A room made in this life of the process can be reached, to join it or to delete
\* it, once its handler is done: the map never loses its manager, whatever
\* deletions and creations of the same id overlap (GetRoomById, room_manager.go:67).
NewRoomsReachable == \A r \in born : rooms[r] # 0 \/ creating > 0

\* A stream opened on a room at rest hears the manager that requests go to until
\* the row of the room is deleted; no creation takes its place before that
\* ("each room will have a room manager, acting as a broadcaster for room-related
\* events to all connected clients", room_manager.go:22).
SettledStreamsHear == \A s \in streams : s.settled => s.manager = rooms[s.room]
===============================================================================
