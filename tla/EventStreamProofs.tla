--------------------------- MODULE EventStreamProofs ---------------------------
(***************************************************************************)
(* Proofs about module EventStream: what the table of listeners holds, and *)
(* that the room keeps its guarantees with the event streams around it,    *)
(* for every number of players and connections, in whatever order a        *)
(* player's connections come and go, and whatever the room manager does    *)
(* meanwhile.                                                              *)
(*                                                                         *)
(* The table and the state of the connections are enough to say why:       *)
(* connections of a player open in order, so the one that opens last is    *)
(* the one registered, and every other change of a player's entry is the   *)
(* end of one of the player's own connections.                             *)
(***************************************************************************)
EXTENDS EventStream, RoomRefinementProofs

StreamTyped == /\ conn \in [Conns -> ConnStages]
               /\ Listerners \in [Players -> Conns \cup {None}]
               /\ snapped \subseteq sent
               /\ pushes \subseteq Notice \X Conns

StreamTInv == TInv /\ StreamTyped

LEMMA ConnFacts ==
    /\ \A k \in Conns : k.player \in Players /\ k.no \in Nat
    /\ \A k, l \in Conns : k.no = l.no => k = l
    /\ \A k \in Conns : Joined(k) \in Requests /\ Left(k) \in Requests
    /\ None \notin Conns
  BY StreamAssumption DEF StreamAssumption

\* A handler that hands an event to a goroutine leaves the room manager as typed.
LEMMA SpawnTyped ==
    ASSUME TInv, NEW e \in Requests, Spawn(e)
    PROVE  TInv' /\ sent' = sent
<1>1. /\ unsent' = unsent \ {e} /\ sending' = sending \cup {e}
      /\ UNCHANGED <<events, at, ev, test, verdict, rows, roomRow, sent, moved, judged>>
  BY DEF Spawn, db, history
<1>2. UNCHANGED roomRow
  BY <1>1
<1>3. QED
  BY <1>1 DEF TInv, TypeOK, Locals, Local

\* Nothing takes back a notice.
LEMMA SentGrows ==
    ASSUME NEW c \in Consumers, ConsumerStep(c) PROVE sent \subseteq sent'
  BY DEF ConsumerStep, Recv, LoadPlayer, CheckPlayer, InsertPlayer, RemovePlayer, Rank, DeleteRoom,
         Lookup, Judge, Accept, Post, Deliver, AddScore, Dispatch

LEMMA RoomStepTyped ==
    ASSUME StreamTInv, RoomStep PROVE StreamTInv'
<1>1. LooseNext
  BY DEF RoomStep, LooseNext, Request, Ask
<1>2. TInv'
  BY <1>1, TInvStep DEF StreamTInv
<1>3. sent \subseteq sent'
  BY SentGrows DEF RoomStep, Request, Spawn, Send
<1>4. QED
  BY <1>2, <1>3 DEF RoomStep, streamVars, StreamTInv, StreamTyped

LEMMA StreamTInvStep == StreamTInv /\ [StreamNext]_allVars => StreamTInv'
<1> SUFFICES ASSUME StreamTInv, [StreamNext]_allVars PROVE StreamTInv'
  OBVIOUS
<1>i. TInv /\ StreamTyped
  BY DEF StreamTInv
<1>v. ASSUME UNCHANGED vars PROVE TInv' /\ sent' = sent
  BY <1>v, <1>i, TInvStep DEF vars
<1>1. CASE RoomStep
  BY <1>1, RoomStepTyped
<1>2. CASE UNCHANGED allVars
  BY <1>2, <1>i, <1>v DEF allVars, streamVars, StreamTyped, StreamTInv
<1>3. ASSUME NEW k \in Conns, Open(k) PROVE StreamTInv'
  <2>1. TInv' /\ sent' = sent
    BY <1>3, <1>v DEF Open
  <2>2. StreamTyped'
    BY <1>3, <1>i, <2>1, ConnFacts DEF Open, Step, StreamTyped, ConnStages
  <2>3. QED
    BY <2>1, <2>2 DEF StreamTInv
<1>4. ASSUME NEW k \in Conns, Disconnect(k) \/ Flush(k) \/ Loop(k) \/ Close(k) PROVE StreamTInv'
  <2>1. TInv' /\ sent' = sent
    BY <1>4, <1>v DEF Disconnect, Flush, Loop, Close
  <2>2. StreamTyped'
    BY <1>4, <1>i, <2>1 DEF Disconnect, Flush, Loop, Close, Step, StreamTyped, ConnStages
  <2>3. QED
    BY <2>1, <2>2 DEF StreamTInv
<1>5. ASSUME NEW k \in Conns, Enter(k) \/ Unregister(k) PROVE StreamTInv'
  <2>1. TInv' /\ sent' = sent
    BY <1>5, <1>i, ConnFacts, SpawnTyped DEF Enter, Unregister
  <2>2. StreamTyped'
    BY <1>5, <1>i, <2>1 DEF Enter, Unregister, Step, StreamTyped, ConnStages
  <2>3. QED
    BY <2>1, <2>2 DEF StreamTInv
<1>6. ASSUME NEW n \in sent, Snapshot(n) PROVE StreamTInv'
  <2>1. TInv' /\ sent' = sent
    BY <1>6, <1>v DEF Snapshot
  <2>2. n \in Notice
    BY <1>i DEF TInv, TypeOK, Notice
  <2>3. n.of \in Event /\ n.of.player \in Players
    <3>1. n.of \in Event
      BY <2>2 DEF Notice
    <3>2. QED
      BY <3>1, EventKinds
  <2>4. \A q \in Players : Listerners[q] # None => Listerners[q] \in Conns
    BY <1>i DEF StreamTyped
  <2>5. Audience(n) \subseteq Players
    BY <2>3 DEF Audience
  <2>6. pushes' \subseteq Notice \X Conns
    BY <1>6, <1>i, <2>2, <2>4, <2>5 DEF Snapshot, StreamTyped
  <2>7. StreamTyped'
    BY <1>6, <1>i, <2>1, <2>6 DEF Snapshot, StreamTyped
  <2>8. QED
    BY <2>1, <2>7 DEF StreamTInv
<1>7. ASSUME NEW m \in pushes, Push(m[1], m[2]) \/ Drop(m[1], m[2]) PROVE StreamTInv'
  <2>1. TInv' /\ sent' = sent
    BY <1>7, <1>v DEF Push, Drop
  <2>2. StreamTyped'
    BY <1>7, <1>i, <2>1 DEF Push, Drop, Step, StreamTyped, ConnStages
  <2>3. QED
    BY <2>1, <2>2 DEF StreamTInv
<1>8. QED
  BY <1>1, <1>2, <1>3, <1>4, <1>5, <1>6, <1>7 DEF StreamNext, HandlerStep

LEMMA StreamTInvInit == StreamInit => StreamTInv
<1> SUFFICES ASSUME StreamInit PROVE StreamTInv
  OBVIOUS
<1>1. TInv
  BY TInvInit DEF StreamInit
<1>2. StreamTyped
  BY DEF StreamInit, StreamTyped, ConnStages, Init
<1>3. QED
  BY <1>1, <1>2 DEF StreamTInv

LEMMA StreamTInvAlways == StreamSpec => []StreamTInv
  BY StreamTInvInit, StreamTInvStep, PTL DEF StreamSpec

\* The room, its connections and the goroutines between them keep their types.
THEOREM StreamTypeCorrect == StreamSpec => []StreamTypeOK
<1>1. StreamTInv => StreamTypeOK
  BY DEF StreamTInv, TInv, StreamTyped, StreamTypeOK
<1>2. QED
  BY <1>1, StreamTInvAlways, PTL

-------------------------------------------------------------------------------
(* Whose channel is registered. *)

\* a player's connections have opened in order of their numbers
OpenedInOrder ==
    \A k, l \in Conns : k.player = l.player /\ k.no < l.no /\ conn[l] # "new" => conn[k] # "new"

ListenInv == StreamTyped /\ OpenedInOrder /\ NoStaleListener /\ DeprivedByOwnPlayer

LEMMA ListenInit == StreamInit => ListenInv
<1> SUFFICES ASSUME StreamInit PROVE ListenInv
  OBVIOUS
<1>1. StreamTyped
  BY StreamTInvInit DEF StreamTInv
<1>2. \A k \in Conns : conn[k] = "new"
  BY DEF StreamInit
<1>3. OpenedInOrder
  BY <1>2 DEF OpenedInOrder
<1>4. \A p \in Players : Listerners[p] = None
  BY DEF StreamInit
<1>5. NoStaleListener /\ DeprivedByOwnPlayer
  BY <1>2, <1>4 DEF NoStaleListener, DeprivedByOwnPlayer, IsOpen
<1>6. QED
  BY <1>1, <1>3, <1>5 DEF ListenInv

\* Steps that leave the table alone and move handlers between the stages of an open
\* connection, or from closing to closed.
LEMMA ListenKept ==
    ASSUME ListenInv, Listerners' = Listerners,
           \A k \in Conns : /\ conn'[k] = "new" <=> conn[k] = "new"
                            /\ IsOpen(k)' <=> IsOpen(k)
                            /\ conn[k] \in {"closing", "closed"} => conn'[k] \in {"closing", "closed"}
    PROVE  (OpenedInOrder /\ NoStaleListener /\ DeprivedByOwnPlayer)'
<1>i. StreamTyped /\ OpenedInOrder /\ NoStaleListener /\ DeprivedByOwnPlayer
  BY DEF ListenInv
<1>1. OpenedInOrder'
  BY <1>i DEF OpenedInOrder
<1>2. NoStaleListener'
  <2>1. \A p \in Players : Listerners[p] # None => Listerners[p] \in Conns
    BY <1>i DEF StreamTyped
  <2>2. QED
    BY <1>i, <2>1 DEF NoStaleListener
<1>3. DeprivedByOwnPlayer'
  BY <1>i DEF DeprivedByOwnPlayer
<1>4. QED
  BY <1>1, <1>2, <1>3

LEMMA ListenOpen ==
    ASSUME ListenInv, NEW k \in Conns, Open(k)
    PROVE  (OpenedInOrder /\ NoStaleListener /\ DeprivedByOwnPlayer)'
<1>i. StreamTyped /\ OpenedInOrder /\ NoStaleListener /\ DeprivedByOwnPlayer
  BY DEF ListenInv
<1>1. /\ conn[k] = "new" /\ conn'[k] = "registered" /\ k.player \in Players
      /\ \A l \in Conns : l # k => conn'[l] = conn[l]
      /\ Listerners'[k.player] = k
      /\ \A p \in Players : p # k.player => Listerners'[p] = Listerners[p]
      /\ \A l \in Conns : l.player = k.player /\ l.no < k.no => conn[l] # "new"
  BY <1>i, ConnFacts DEF Open, Step, StreamTyped
<1>2. \A l \in Conns : l.player = k.player /\ conn[l] # "new" => l.no < k.no
  BY <1>i, <1>1, ConnFacts DEF OpenedInOrder
<1>3. OpenedInOrder'
  BY <1>i, <1>1, ConnFacts DEF OpenedInOrder
<1>4. NoStaleListener'
  <2> SUFFICES ASSUME NEW p \in Players, Listerners'[p] # None
               PROVE  /\ IsOpen(Listerners[p])' /\ Listerners'[p].player = p
                      /\ \A l \in Conns : l.player = p /\ l.no > Listerners'[p].no => conn'[l] = "new"
    BY DEF NoStaleListener
  <2>1. CASE p = k.player
    BY <1>1, <1>2, <2>1, ConnFacts DEF IsOpen
  <2>2. CASE p # k.player
    <3>1. Listerners'[p] = Listerners[p] /\ Listerners[p] \in Conns /\ Listerners[p].player = p
      BY <1>i, <1>1, <2>2 DEF NoStaleListener, StreamTyped
    <3>2. QED
      BY <1>i, <1>1, <2>2, <3>1 DEF NoStaleListener, IsOpen
  <2>3. QED
    BY <2>1, <2>2
<1>5. DeprivedByOwnPlayer'
  <2> SUFFICES ASSUME NEW j \in Conns, IsOpen(j)', Listerners'[j.player] # j
               PROVE  \E l \in Conns : /\ l.player = j.player
                                       /\ \/ l.no > j.no /\ conn'[l] # "new"
                                          \/ l.no < j.no /\ conn'[l] \in {"closing", "closed"}
    BY DEF DeprivedByOwnPlayer
  <2>1. j # k /\ IsOpen(j) /\ conn[j] # "new"
    BY <1>1 DEF IsOpen
  <2>2. CASE j.player = k.player
    BY <1>1, <1>2, <2>1, <2>2, ConnFacts
  <2>3. CASE j.player # k.player
    <3>1. Listerners[j.player] # j
      BY <1>1, <2>3, ConnFacts
    <3>2. PICK l \in Conns : /\ l.player = j.player
                             /\ \/ l.no > j.no /\ conn[l] # "new"
                                \/ l.no < j.no /\ conn[l] \in {"closing", "closed"}
      BY <1>i, <2>1, <3>1 DEF DeprivedByOwnPlayer
    <3>3. l # k
      BY <2>3, <3>2
    <3>4. QED
      BY <1>1, <3>2, <3>3
  <2>4. QED
    BY <2>2, <2>3
<1>6. QED
  BY <1>3, <1>4, <1>5

LEMMA ListenUnregister ==
    ASSUME ListenInv, NEW k \in Conns, Unregister(k)
    PROVE  (OpenedInOrder /\ NoStaleListener /\ DeprivedByOwnPlayer)'
<1>i. StreamTyped /\ OpenedInOrder /\ NoStaleListener /\ DeprivedByOwnPlayer
  BY DEF ListenInv
<1>1. /\ conn[k] = "leaving" /\ conn'[k] = "closing" /\ k.player \in Players
      /\ \A l \in Conns : l # k => conn'[l] = conn[l]
      /\ Listerners'[k.player] = None
      /\ \A p \in Players : p # k.player => Listerners'[p] = Listerners[p]
  BY <1>i, ConnFacts DEF Unregister, Step, StreamTyped
<1>2. OpenedInOrder'
  BY <1>i, <1>1 DEF OpenedInOrder
<1>3. NoStaleListener'
  <2> SUFFICES ASSUME NEW p \in Players, Listerners'[p] # None
               PROVE  /\ IsOpen(Listerners[p])' /\ Listerners'[p].player = p
                      /\ \A l \in Conns : l.player = p /\ l.no > Listerners'[p].no => conn'[l] = "new"
    BY DEF NoStaleListener
  <2>1. p # k.player
    BY <1>1
  <2>2. Listerners'[p] = Listerners[p] /\ Listerners[p] \in Conns /\ Listerners[p].player = p
    BY <1>i, <1>1, <2>1 DEF NoStaleListener, StreamTyped
  <2>3. QED
    BY <1>i, <1>1, <2>1, <2>2 DEF NoStaleListener, IsOpen
<1>4. DeprivedByOwnPlayer'
  <2> SUFFICES ASSUME NEW j \in Conns, IsOpen(j)', Listerners'[j.player] # j
               PROVE  \E l \in Conns : /\ l.player = j.player
                                       /\ \/ l.no > j.no /\ conn'[l] # "new"
                                          \/ l.no < j.no /\ conn'[l] \in {"closing", "closed"}
    BY DEF DeprivedByOwnPlayer
  <2>1. j # k /\ IsOpen(j)
    BY <1>1 DEF IsOpen
  <2>2. CASE j.player = k.player
    <3>1. j.no # k.no /\ j.no \in Nat /\ k.no \in Nat
      BY <2>1, ConnFacts
    <3>2. k.no > j.no \/ k.no < j.no
      BY <3>1
    <3>3. QED
      BY <1>1, <2>2, <3>2
  <2>3. CASE j.player # k.player
    <3>1. Listerners[j.player] # j
      BY <1>1, <2>3, ConnFacts
    <3>2. PICK l \in Conns : /\ l.player = j.player
                             /\ \/ l.no > j.no /\ conn[l] # "new"
                                \/ l.no < j.no /\ conn[l] \in {"closing", "closed"}
      BY <1>i, <2>1, <3>1 DEF DeprivedByOwnPlayer
    <3>3. l # k
      BY <2>3, <3>2
    <3>4. QED
      BY <1>1, <3>2, <3>3
  <2>4. QED
    BY <2>2, <2>3
<1>5. QED
  BY <1>2, <1>3, <1>4

LEMMA ListenStep == ListenInv /\ StreamTyped' /\ [StreamNext]_allVars => ListenInv'
<1> SUFFICES ASSUME ListenInv, StreamTyped', [StreamNext]_allVars
             PROVE  (OpenedInOrder /\ NoStaleListener /\ DeprivedByOwnPlayer)'
  BY DEF ListenInv
<1>t. conn \in [Conns -> ConnStages]
  BY DEF ListenInv, StreamTyped
<1>1. CASE RoomStep \/ UNCHANGED allVars \/ (\E n \in sent : Snapshot(n))
           \/ (\E m \in pushes : Drop(m[1], m[2]))
  <2>1. UNCHANGED <<conn, Listerners>>
    BY <1>1 DEF RoomStep, allVars, streamVars, Snapshot, Drop
  <2>2. QED
    BY <2>1, ListenKept DEF IsOpen
<1>2. ASSUME NEW k \in Conns,
             Enter(k) \/ Flush(k) \/ Loop(k) \/ Disconnect(k) \/ Close(k) \/ (\E n : Push(n, k))
      PROVE  (OpenedInOrder /\ NoStaleListener /\ DeprivedByOwnPlayer)'
  <2>1. /\ Listerners' = Listerners
        /\ \E from, to \in ConnStages :
              /\ Step(k, from, to)
              /\ \/ {from, to} \subseteq {"registered", "entering", "select", "writing", "flushed",
                                          "leaving"}
                 \/ {from, to} \subseteq {"closing", "closed"}
    BY <1>2 DEF Enter, Flush, Loop, Disconnect, Close, Push, ConnStages
  <2>2. \A l \in Conns : /\ conn'[l] = "new" <=> conn[l] = "new"
                         /\ IsOpen(l)' <=> IsOpen(l)
                         /\ conn[l] \in {"closing", "closed"} => conn'[l] \in {"closing", "closed"}
    BY <1>t, <2>1 DEF Step, IsOpen
  <2>3. QED
    BY <2>1, <2>2, ListenKept
<1>3. ASSUME NEW m \in pushes, Push(m[1], m[2])
      PROVE  (OpenedInOrder /\ NoStaleListener /\ DeprivedByOwnPlayer)'
  <2>1. m[2] \in Conns
    BY DEF ListenInv, StreamTyped
  <2>2. QED
    BY <1>2, <1>3, <2>1
<1>4. ASSUME NEW k \in Conns, Open(k) PROVE (OpenedInOrder /\ NoStaleListener /\ DeprivedByOwnPlayer)'
  BY <1>4, ListenOpen
<1>5. ASSUME NEW k \in Conns, Unregister(k)
      PROVE  (OpenedInOrder /\ NoStaleListener /\ DeprivedByOwnPlayer)'
  BY <1>5, ListenUnregister
<1>6. QED
  BY <1>1, <1>2, <1>3, <1>4, <1>5 DEF StreamNext, HandlerStep

LEMMA ListenAlways == StreamSpec => []ListenInv
<1>1. StreamTInv => StreamTyped
  BY DEF StreamTInv
<1>2. QED
  BY <1>1, StreamTInvAlways, ListenInit, ListenStep, PTL DEF StreamSpec

\* The table never holds a channel that is closed or about to be, nor one that a newer
\* connection of its player has replaced.
THEOREM NeverStale == StreamSpec => []NoStaleListener
<1>1. ListenInv => NoStaleListener
  BY DEF ListenInv
<1>2. QED
  BY <1>1, ListenAlways, PTL

\* An open connection that lost its entry lost it to another connection of its own player.
THEOREM LostToOwn == StreamSpec => []DeprivedByOwnPlayer
<1>1. ListenInv => DeprivedByOwnPlayer
  BY DEF ListenInv
<1>2. QED
  BY <1>1, ListenAlways, PTL

-------------------------------------------------------------------------------
(* The room within the composition: what a handler of the event stream hands to  *)
(* a goroutine is a request that was not made before, so every step of the whole *)
(* is a step of the room manager with senders that check nothing.  "left" of a   *)
(* player without a row in players is such a request: LeaveRoomHandler would     *)
(* refuse it, the deferred function of EventHandler does not look.               *)

\* a connection has not used the two requests that it makes in its life
Unused ==
    /\ \A k \in Conns : conn[k] \in {"new", "registered"} => Joined(k) \in unsent
    /\ \A k \in Conns : conn[k] \notin {"closing", "closed"} => Left(k) \in unsent

LEMMA OwnRequests ==
    /\ \A k, l \in Conns : Joined(k) # Left(l)
    /\ \A k, l \in Conns : Joined(k) = Joined(l) => k = l
    /\ \A k, l \in Conns : Left(k) = Left(l) => k = l
<1>1. \A k, l \in Conns : Joined(k) # Left(l)
  BY DEF Joined, Left
<1>2. ASSUME NEW k \in Conns, NEW l \in Conns, Joined(k) = Joined(l) PROVE k = l
  <2>1. 2 * k.no = 2 * l.no /\ k.no \in Nat /\ l.no \in Nat
    BY <1>2, ConnFacts DEF Joined
  <2>2. k.no = l.no
    BY <2>1
  <2>3. QED
    BY <2>2, ConnFacts
<1>3. ASSUME NEW k \in Conns, NEW l \in Conns, Left(k) = Left(l) PROVE k = l
  <2>1. 2 * k.no + 1 = 2 * l.no + 1 /\ k.no \in Nat /\ l.no \in Nat
    BY <1>3, ConnFacts DEF Left
  <2>2. k.no = l.no
    BY <2>1
  <2>3. QED
    BY <2>2, ConnFacts
<1>4. QED
  BY <1>1, <1>2, <1>3

LEMMA UnusedInit == StreamInit => Unused
<1> SUFFICES ASSUME StreamInit PROVE Unused
  OBVIOUS
<1>1. unsent = Requests
  BY DEF StreamInit, Init
<1>2. QED
  BY <1>1, ConnFacts DEF Unused

\* Stages change and requests do not: no connection comes back to a stage before the
\* request it made.
LEMMA UnusedKept ==
    ASSUME Unused, unsent' = unsent,
           \A k \in Conns : /\ conn'[k] \in {"new", "registered"} => conn[k] \in {"new", "registered"}
                            /\ conn[k] \in {"closing", "closed"} => conn'[k] \in {"closing", "closed"}
    PROVE  Unused'
<1>1. \A k \in Conns : Joined(k)' = Joined(k) /\ Left(k)' = Left(k)
  BY DEF Joined, Left
<1>2. QED
  BY <1>1 DEF Unused

LEMMA UnusedRoom == ASSUME Unused, RoomStep PROVE Unused'
<1>1. CASE \E e \in Requests \ OfConns : Request(e)
  <2>1. PICK e \in Requests \ OfConns : Request(e)
    BY <1>1
  <2>2. unsent' = unsent \ {e} /\ \A k \in Conns : e # Joined(k) /\ e # Left(k)
    BY <2>1 DEF Request, Spawn, OfConns
  <2>3. QED
    BY <2>2 DEF RoomStep, streamVars, Unused
<1>2. CASE unsent' = unsent
  BY <1>2, UnusedKept DEF RoomStep, streamVars
<1>3. ASSUME NEW c \in Consumers, ConsumerStep(c) PROVE unsent' = unsent
  BY <1>3 DEF ConsumerStep, Recv, LoadPlayer, CheckPlayer, InsertPlayer, RemovePlayer, Rank,
              DeleteRoom, Lookup, Judge, Accept, Post, Deliver, AddScore
<1>4. ASSUME NEW e \in Requests, Send(e) PROVE unsent' = unsent
  BY <1>4 DEF Send
<1>5. QED
  BY <1>1, <1>2, <1>3, <1>4 DEF RoomStep

LEMMA UnusedStep == StreamTyped /\ Unused /\ [StreamNext]_allVars => Unused'
<1> SUFFICES ASSUME StreamTyped, Unused, [StreamNext]_allVars PROVE Unused'
  OBVIOUS
<1>t. conn \in [Conns -> ConnStages]
  BY DEF StreamTyped
<1>1. CASE RoomStep
  BY <1>1, UnusedRoom
<1>2. CASE UNCHANGED allVars \/ (\E n \in sent : Snapshot(n)) \/ (\E m \in pushes : Drop(m[1], m[2]))
  <2>1. unsent' = unsent /\ conn' = conn
    BY <1>2 DEF allVars, streamVars, vars, Snapshot, Drop
  <2>2. QED
    BY <2>1, UnusedKept
<1>3. ASSUME NEW k \in Conns,
             Open(k) \/ Flush(k) \/ Loop(k) \/ Disconnect(k) \/ Close(k) \/ (\E n : Push(n, k))
      PROVE  Unused'
  <2>1. /\ unsent' = unsent
        /\ \E from, to \in ConnStages :
              /\ Step(k, from, to)
              /\ \/ from = "new" /\ to = "registered"
                 \/ {from, to} \subseteq {"entering", "select", "writing", "flushed", "leaving"}
                 \/ {from, to} \subseteq {"closing", "closed"}
    BY <1>3 DEF Open, Flush, Loop, Disconnect, Close, Push, ConnStages, vars
  <2>2. \A l \in Conns : /\ conn'[l] \in {"new", "registered"} => conn[l] \in {"new", "registered"}
                         /\ conn[l] \in {"closing", "closed"} => conn'[l] \in {"closing", "closed"}
    BY <1>t, <2>1 DEF Step
  <2>3. QED
    BY <2>1, <2>2, UnusedKept
<1>4. ASSUME NEW k \in Conns, Enter(k) PROVE Unused'
  <2>1. /\ conn'[k] = "entering" /\ \A l \in Conns \ {k} : conn'[l] = conn[l]
        /\ unsent' = unsent \ {Joined(k)} /\ conn[k] = "registered"
    BY <1>4, <1>t DEF Enter, Step, Spawn
  <2>2. \A l \in Conns : Left(l) # Joined(k) /\ (l # k => Joined(l) # Joined(k))
    BY OwnRequests
  <2>3. QED
    BY <2>1, <2>2 DEF Unused
<1>5. ASSUME NEW k \in Conns, Unregister(k) PROVE Unused'
  <2>1. /\ conn'[k] = "closing" /\ \A l \in Conns \ {k} : conn'[l] = conn[l]
        /\ unsent' = unsent \ {Left(k)}
    BY <1>5, <1>t DEF Unregister, Step, Spawn
  <2>2. \A l \in Conns : Joined(l) # Left(k) /\ (l # k => Left(l) # Left(k))
    BY OwnRequests
  <2>3. QED
    BY <2>1, <2>2 DEF Unused
<1>6. ASSUME NEW m \in pushes, Push(m[1], m[2]) PROVE Unused'
  <2>1. m[2] \in Conns
    BY DEF StreamTyped
  <2>2. QED
    BY <1>3, <1>6, <2>1
<1>7. QED
  BY <1>1, <1>2, <1>3, <1>4, <1>5, <1>6 DEF StreamNext, HandlerStep

LEMMA RoomWithin == StreamTyped /\ Unused /\ [StreamNext]_allVars => [LooseNext]_vars
<1> SUFFICES ASSUME StreamTyped, Unused, [StreamNext]_allVars PROVE LooseNext \/ UNCHANGED vars
  OBVIOUS
<1>1. CASE RoomStep
  BY <1>1 DEF RoomStep, LooseNext, Request, Ask
<1>2. CASE UNCHANGED allVars \/ (\E n \in sent : Snapshot(n))
           \/ (\E m \in pushes : Push(m[1], m[2]) \/ Drop(m[1], m[2]))
  BY <1>2 DEF allVars, Snapshot, Push, Drop
<1>3. ASSUME NEW k \in Conns, Open(k) \/ Flush(k) \/ Loop(k) \/ Disconnect(k) \/ Close(k)
      PROVE  UNCHANGED vars
  BY <1>3 DEF Open, Flush, Loop, Disconnect, Close
<1>4. ASSUME NEW k \in Conns, Enter(k) PROVE LooseNext
  <2>1. Joined(k) \in Requests /\ Joined(k) \in unsent /\ Spawn(Joined(k))
    BY <1>4, ConnFacts DEF Enter, Step, Unused
  <2>2. QED
    BY <2>1 DEF LooseNext, Ask
<1>5. ASSUME NEW k \in Conns, Unregister(k) PROVE LooseNext
  <2>1. Left(k) \in Requests /\ Left(k) \in unsent /\ Spawn(Left(k))
    BY <1>5, ConnFacts DEF Unregister, Step, Unused
  <2>2. QED
    BY <2>1 DEF LooseNext, Ask
<1>6. QED
  BY <1>1, <1>2, <1>3, <1>4, <1>5 DEF StreamNext, HandlerStep

LEMMA RoomInside == StreamSpec => LooseSpec
<1>1. StreamInit => Init
  BY DEF StreamInit
<1>2. StreamTInv => StreamTyped
  BY DEF StreamTInv
<1>3. QED
  BY <1>1, <1>2, StreamTInvAlways, UnusedInit, UnusedStep, RoomWithin, PTL
     DEF StreamSpec, LooseSpec

\* With the event streams around it (events.go:16-80), the room manager still behaves
\* as the room service: a connection's PlayerJoined and PlayerLeft, however the
\* connections come and go, are requests that take effect once and are told of once.
THEOREM StreamRoomImplemented == StreamSpec => RoomSpec
  BY RoomInside, RoomImplementedLoosely, PTL

\* With the event streams around it, an event leads to one notice at most, and a room
\* with members keeps its row.
THEOREM StreamRoomSafe == StreamSpec => [](OneVerdict /\ OccupiedRoomStays)
  BY RoomInside, SingleVerdictLoosely, OccupiedStaysLoosely, PTL

\* With the event streams around it, and one Start goroutine, an arrival is announced
\* when the player has a row, and verdicts come in the order of the submissions.
THEOREM StreamRoomOrderly ==
    ASSUME NEW c, Consumers = {c}
    PROVE  StreamSpec => [](AnnouncedAreMembers /\ VerdictsInOrder)
  BY RoomInside, AnnouncedInLoosely, OrderedVerdictsLoosely, PTL

\* With the event streams around it, one Start goroutine and no failing statement, the
\* members are those whose latest join or leave was a join, wherever it came from:
\* handlers of the HTTP API, or connections that open and end (events.go:43-57).
THEOREM StreamMembersFollow ==
    ASSUME NEW c, Consumers = {c}, DbFaults = FALSE
    PROVE  StreamSpec => [](MembersFollowEvents /\ LeaderboardFresh)
  BY RoomInside, MembersFollowLoosely, FreshLoosely, PTL

-------------------------------------------------------------------------------
(* To whom a notice goes. *)

\* a send that is under way is of a notice whose goroutine has copied the table, goes to
\* a connection of a player the notice is for, and to one connection of the player only
Addressed ==
    /\ \A m \in pushes : m[1] \in snapped /\ m[2].player \in Audience(m[1])
    /\ \A m, l \in pushes : m[1] = l[1] /\ m[2].player = l[2].player => m = l

LEMMA AddressedKept ==
    ASSUME Addressed, pushes' \subseteq pushes, snapped' = snapped PROVE Addressed'
<1>1. \A m \in pushes' : m \in pushes
  OBVIOUS
<1>2. \A m \in pushes' : m[1] \in snapped' /\ m[2].player \in Audience(m[1])'
  BY <1>1 DEF Addressed, Audience
<1>3. \A m, l \in pushes' : m[1] = l[1] /\ m[2].player = l[2].player => m = l
  BY <1>1 DEF Addressed
<1>4. QED
  BY <1>2, <1>3 DEF Addressed

LEMMA AddressedSnapshot ==
    ASSUME ListenInv, Addressed, NEW n \in sent, Snapshot(n), n.of.player \in Players
    PROVE  Addressed'
<1> DEFINE new == {<<n, Listerners[p]>> : p \in {q \in Audience(n) : Listerners[q] # None}}
<1>1. /\ n \notin snapped /\ snapped' = snapped \cup {n} /\ pushes' = pushes \cup new
  BY DEF Snapshot
<1>2. \A p \in Players : Listerners[p] # None => Listerners[p].player = p
  BY DEF ListenInv, NoStaleListener
<1>3. Audience(n) \subseteq Players
  BY DEF Audience
<1>4. \A m \in new : m[1] = n /\ m[2].player \in Audience(n) /\ m[2] = Listerners[m[2].player]
  BY <1>2, <1>3
<1>5. \A m \in pushes : m[1] \in snapped /\ m[1] # n /\ m[2].player \in Audience(m[1])
  BY <1>1 DEF Addressed
<1>6. \A m \in new : \E k : m = <<n, k>>
  OBVIOUS
<1>7. \A m, l \in new : m[2].player = l[2].player => m = l
  <2> SUFFICES ASSUME NEW m \in new, NEW l \in new, m[2].player = l[2].player PROVE m = l
    OBVIOUS
  <2>1. m[2] = l[2]
    BY <1>4
  <2>2. QED
    BY <1>6, <2>1
<1>8. \A m \in pushes' : m \in pushes \/ m \in new
  BY <1>1
<1>9. \A m \in pushes' : m[1] \in snapped' /\ m[2].player \in Audience(m[1])'
  BY <1>1, <1>4, <1>5, <1>8 DEF Audience
<1>10. \A m, l \in pushes' : m[1] = l[1] /\ m[2].player = l[2].player => m = l
  <2> SUFFICES ASSUME NEW m \in pushes', NEW l \in pushes', m[1] = l[1], m[2].player = l[2].player
               PROVE  m = l
    OBVIOUS
  <2>1. CASE m \in pushes /\ l \in pushes
    BY <2>1 DEF Addressed
  <2>2. CASE m \in new /\ l \in new
    BY <1>7, <2>2
  <2>3. ~(m \in pushes /\ l \in new) /\ ~(m \in new /\ l \in pushes)
    BY <1>4, <1>5
  <2>4. QED
    BY <1>8, <2>1, <2>2, <2>3
<1>11. QED
  BY <1>9, <1>10 DEF Addressed

LEMMA AddressedStep ==
    StreamTInv /\ ListenInv /\ Addressed /\ [StreamNext]_allVars => Addressed'
<1> SUFFICES ASSUME StreamTInv, ListenInv, Addressed, [StreamNext]_allVars PROVE Addressed'
  OBVIOUS
<1>1. ASSUME NEW n \in sent, Snapshot(n) PROVE Addressed'
  <2>1. n \in Notice
    BY DEF StreamTInv, TInv, TypeOK, Notice
  <2>2. n.of \in Event
    BY <2>1 DEF Notice
  <2>3. n.of.player \in Players
    BY <2>2, EventKinds
  <2>4. QED
    BY <1>1, <2>3, AddressedSnapshot
<1>2. CASE RoomStep \/ UNCHANGED allVars \/ (\E k \in Conns : Open(k) \/ Disconnect(k) \/ HandlerStep(k))
  BY <1>2, AddressedKept DEF RoomStep, allVars, streamVars, Open, Disconnect, HandlerStep, Enter,
                             Flush, Loop, Unregister, Close
<1>3. ASSUME NEW m \in pushes, Push(m[1], m[2]) \/ Drop(m[1], m[2]) PROVE Addressed'
  BY <1>3, AddressedKept DEF Push, Drop
<1>4. QED
  BY <1>1, <1>2, <1>3 DEF StreamNext

LEMMA AddressedAlways == StreamSpec => []Addressed
<1>1. StreamInit => Addressed
  BY DEF StreamInit, Addressed
<1>2. QED
  BY <1>1, AddressedStep, StreamTInvAlways, ListenAlways, PTL DEF StreamSpec

\* A verdict goes to connections of its own player only, and every notice to one
\* connection of each player at most, the one registered when the table was copied:
\* with several tabs open, one of them is told (room_manager.go:124-207).
THEOREM ToItsPlayer == StreamSpec => []Addressed
  BY AddressedAlways

LEMMA SnapshotOnce ==
    ASSUME [StreamNext]_allVars
    PROVE  /\ snapped \subseteq snapped'
           /\ \A n \in snapped : \A k : <<n, k>> \in pushes' => <<n, k>> \in pushes
<1>1. CASE \E n \in sent : Snapshot(n)
  BY <1>1 DEF Snapshot
<1>2. CASE RoomStep \/ UNCHANGED allVars \/ (\E k \in Conns : Open(k) \/ Disconnect(k) \/ HandlerStep(k))
  BY <1>2 DEF RoomStep, allVars, streamVars, Open, Disconnect, HandlerStep, Enter, Flush, Loop,
              Unregister, Close
<1>3. CASE \E m \in pushes : Push(m[1], m[2]) \/ Drop(m[1], m[2])
  BY <1>3 DEF Push, Drop
<1>4. QED
  BY <1>1, <1>2, <1>3 DEF StreamNext

\* From one step to the next: once a notice of an event has been dispatched, no send for
\* that event starts any more, by this notice or another.
NoneAnew ==
    \A n \in snapped : \A m \in pushes' : m[1].of.id = n.of.id => m \in pushes

\* A player is told of an event once at most, in one tab: when a dispatch goroutine has
\* copied the table, no goroutine sends for that event again, what it has sent is not
\* sent again, and its sends are to different players.
THEOREM ToldOnce ==
    /\ StreamSpec => [][NoneAnew]_allVars
    /\ StreamSpec => [](\A m, l \in pushes :
                            m[1].of.id = l[1].of.id /\ m[2].player = l[2].player => m = l)
<1> DEFINE Apiece == \A m, l \in pushes :
                         m[1].of.id = l[1].of.id /\ m[2].player = l[2].player => m = l
           Known == PlaceInv /\ StreamTyped /\ Addressed
<1>1. Known => Apiece
  BY DEF PlaceInv, Single, StreamTyped, Addressed
<1>2. ASSUME Known, Known', [StreamNext]_allVars PROVE NoneAnew
  <2> SUFFICES ASSUME NEW n \in snapped, NEW m \in pushes', m[1].of.id = n.of.id PROVE m \in pushes
    BY DEF NoneAnew
  <2>1. m[1] \in snapped' /\ n \in snapped' /\ m \in Notice \X Conns /\ snapped' \subseteq sent'
    BY <1>2, SnapshotOnce DEF Addressed, StreamTyped, Notice
  <2>2. m[1] = n
    BY <1>2, <2>1 DEF PlaceInv, Single
  <2>3. m = <<n, m[2]>>
    BY <2>1, <2>2
  <2>4. QED
    BY <1>2, <2>3, SnapshotOnce
<1>3. StreamSpec => []Known
  <2>1. StreamTInv => StreamTyped
    BY DEF StreamTInv
  <2>2. QED
    BY <2>1, StreamTInvAlways, AddressedAlways, RoomInside, PlaceInvAlways, PTL
<1>4. StreamSpec => [][StreamNext]_allVars
  BY PTL DEF StreamSpec
<1> HIDE DEF Apiece, Known
<1>5. StreamSpec => []Apiece
  BY <1>1, <1>3, PTL
<1>6. StreamSpec => [][NoneAnew]_allVars
  BY <1>2, <1>3, <1>4, PTL
<1>7. QED
  BY <1>5, <1>6 DEF Apiece

-------------------------------------------------------------------------------
(* Run stream_deprived shows an open connection that is no listener.  *)
(* It takes two connections of the player that are open at once.           *)

\* A player has one connection open at most: each opens after the one before has
\* deleted its entry.
NoOverlap == \A k, l \in Conns : IsOpen(k) /\ IsOpen(l) /\ k.player = l.player => k = l

Heard == \A k \in Conns : IsOpen(k) => Listerners[k.player] = k

LEMMA HeardStep == StreamTyped /\ NoOverlap /\ Heard /\ NoOverlap' /\ [StreamNext]_allVars => Heard'
<1> SUFFICES ASSUME StreamTyped, NoOverlap, Heard, NoOverlap', [StreamNext]_allVars PROVE Heard'
  OBVIOUS
<1>1. ASSUME Listerners' = Listerners, \A k \in Conns : IsOpen(k)' => IsOpen(k) PROVE Heard'
  BY <1>1 DEF Heard
<1>2. CASE RoomStep \/ UNCHANGED allVars \/ \E n \in sent : Snapshot(n)
  BY <1>2, <1>1 DEF RoomStep, allVars, streamVars, Snapshot, IsOpen
<1>3. ASSUME NEW k \in Conns, Open(k) PROVE Heard'
  <2>1. /\ \A l \in Conns : l # k => conn'[l] = conn[l]
        /\ IsOpen(k)' /\ Listerners'[k.player] = k /\ k.player \in Players
        /\ \A p \in Players : p # k.player => Listerners'[p] = Listerners[p]
    BY <1>3, ConnFacts DEF StreamTyped, Open, Step, IsOpen
  <2>2. ASSUME NEW l \in Conns, IsOpen(l)' PROVE Listerners'[l.player] = l
    <3>1. CASE l.player = k.player
      BY <2>1, <2>2, <3>1 DEF NoOverlap
    <3>2. CASE l.player # k.player
      BY <2>1, <2>2, <3>2, ConnFacts DEF Heard, IsOpen
    <3>3. QED
      BY <3>1, <3>2
  <2>3. QED
    BY <2>2 DEF Heard
<1>4. ASSUME NEW k \in Conns, Unregister(k) PROVE Heard'
  <2>1. /\ \A l \in Conns : l # k => conn'[l] = conn[l]
        /\ IsOpen(k) /\ ~IsOpen(k)' /\ k.player \in Players
        /\ \A p \in Players : p # k.player => Listerners'[p] = Listerners[p]
    BY <1>4, ConnFacts DEF StreamTyped, Unregister, Step, IsOpen
  <2>2. ASSUME NEW l \in Conns, IsOpen(l)' PROVE Listerners'[l.player] = l
    <3>1. IsOpen(l) /\ l # k
      BY <2>1, <2>2 DEF IsOpen
    <3>2. l.player # k.player
      BY <2>1, <3>1 DEF NoOverlap
    <3>3. QED
      BY <2>1, <3>1, <3>2, ConnFacts DEF Heard
  <2>3. QED
    BY <2>2 DEF Heard
<1>5. ASSUME NEW k \in Conns, Enter(k) \/ Flush(k) \/ Loop(k) \/ Disconnect(k) \/ Close(k)
      PROVE  Heard'
  BY <1>5, <1>1 DEF StreamTyped, Enter, Flush, Loop, Disconnect, Close, Step, IsOpen
<1>6. ASSUME NEW m \in pushes, Push(m[1], m[2]) \/ Drop(m[1], m[2]) PROVE Heard'
  <2>1. m[2] \in Conns
    BY DEF StreamTyped
  <2>2. QED
    BY <1>6, <1>1, <2>1 DEF StreamTyped, Push, Drop, Step, IsOpen
<1>7. QED
  BY <1>2, <1>3, <1>4, <1>5, <1>6 DEF StreamNext, HandlerStep

\* As long as a player's connections do not overlap, each that serves its client is the
\* listener of its player: nothing that the room, other players or dispatch goroutines do
\* takes an entry away.
THEOREM AloneIsHeard == StreamSpec /\ []NoOverlap => []Heard /\ []ConnectedAreListeners
<1>1. StreamInit => Heard
  BY DEF StreamInit, Heard, IsOpen
<1>2. StreamTInv /\ NoOverlap /\ Heard /\ NoOverlap' /\ [StreamNext]_allVars => Heard'
  BY HeardStep DEF StreamTInv
<1>3. Heard => ConnectedAreListeners
  BY StreamAssumption DEF Heard, ConnectedAreListeners, IsOpen
<1>4. QED
  BY <1>1, <1>2, <1>3, StreamTInvAlways, PTL DEF StreamSpec

================================================================================
