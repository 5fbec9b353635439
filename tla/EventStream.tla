------------------------------- MODULE EventStream -------------------------------
(***************************************************************************)
(* The event streams of one room: EventHandler (internal/handlers/         *)
(* events.go), one goroutine per connection, and the dispatch goroutines   *)
(* of room_manager.go, composed with the room manager of RoomManager.      *)
(*                                                                         *)
(* A connection is of one player; a player may have several, one after the *)
(* other or at once (a second tab, the browser's automatic reconnect).     *)
(* Each has a listen channel without a buffer: a non-blocking send         *)
(* succeeds only while the handler waits in its select.  What a handler    *)
(* does between two operations on shared state is one step.                *)
(***************************************************************************)
EXTENDS RoomManager

CONSTANT Conns   \* records [player, no]; a player's connections open in order of no

Joined(k) == [kind |-> "join", player |-> k.player, id |-> 2 * k.no]
Left(k) == [kind |-> "left", player |-> k.player, id |-> 2 * k.no + 1]

ASSUME StreamAssumption ==
    /\ \A k \in Conns : k.player \in Players /\ k.no \in Nat
    /\ \A k, l \in Conns : k.no = l.no => k = l
    /\ \A k \in Conns : {Joined(k), Left(k)} \subseteq Requests
    /\ None \notin Conns

VARIABLES conn,       \* where the handler of each connection is
          Listerners, \* rm.Listerners: the connection whose channel is registered
          snapped,    \* notices whose dispatch goroutine has copied Listerners
          pushes      \* the sends it has started: a notice and a connection

streamVars == <<conn, Listerners, snapped, pushes>>
allVars == <<vars, streamVars>>

ConnStages == {"new", "registered", "entering", "select", "writing", "flushed", "leaving", "closing",
               "closed"}
Notice == [notice : Notices, of : Event]

StreamTypeOK == /\ TypeOK
                /\ conn \in [Conns -> ConnStages]
                /\ Listerners \in [Players -> Conns \cup {None}]
                /\ snapped \subseteq sent
                /\ pushes \subseteq Notice \X Conns

StreamInit == /\ Init
              /\ conn = [k \in Conns |-> "new"]
              /\ Listerners = [p \in Players |-> None]
              /\ snapped = {} /\ pushes = {}

-------------------------------------------------------------------------------
(* EventHandler. *)

Step(k, from, to) == conn[k] = from /\ conn' = [conn EXCEPT ![k] = to]

\* seeded bug: a player who listens already is not registered again
OpenIfAbsent(k) ==
    /\ Step(k, "new", "registered")
    /\ \A l \in Conns : l.player = k.player /\ l.no < k.no => conn[l] # "new"
    /\ Listerners' = [Listerners EXCEPT ![k.player] = IF @ = None THEN k ELSE @]
    /\ UNCHANGED <<vars, snapped, pushes>>

\* the channel is made and registered, under Mu
Open(k) ==
    /\ Step(k, "new", "registered")
    /\ \A l \in Conns : l.player = k.player /\ l.no < k.no => conn[l] # "new"
    /\ Listerners' = [Listerners EXCEPT ![k.player] = k]
    /\ UNCHANGED <<vars, snapped, pushes>>

\* PlayerJoined goes its way, and may be announced before the handler is in its loop
Enter(k) ==
    /\ Step(k, "registered", "entering")
    /\ Spawn(Joined(k))
    /\ UNCHANGED <<Listerners, snapped, pushes>>

\* the event is written and flushed: the client may have it from now on
Flush(k) ==
    /\ Step(k, "writing", "flushed")
    /\ UNCHANGED <<vars, Listerners, snapped, pushes>>

\* to the select, for the first time or again
Loop(k) ==
    /\ Step(k, "entering", "select") \/ Step(k, "flushed", "select")
    /\ UNCHANGED <<vars, Listerners, snapped, pushes>>

\* the client is gone: r.Context().Done()
Disconnect(k) ==
    /\ Step(k, "select", "leaving")
    /\ UNCHANGED <<vars, Listerners, snapped, pushes>>

\* seeded bugs: the entry is kept; nobody is told
UnregisterNothing(k) ==
    /\ Step(k, "leaving", "closing")
    /\ Spawn(Left(k))
    /\ UNCHANGED <<Listerners, snapped, pushes>>

UnregisterSilently(k) ==
    /\ Step(k, "leaving", "closing")
    /\ Listerners' = [Listerners EXCEPT ![k.player] = None]
    /\ UNCHANGED <<vars, snapped, pushes>>

\* the deferred function: the player's entry is deleted, whichever connection it
\* is of, and PlayerLeft goes its way
Unregister(k) ==
    /\ Step(k, "leaving", "closing")
    /\ Listerners' = [Listerners EXCEPT ![k.player] = None]
    /\ Spawn(Left(k))
    /\ UNCHANGED <<snapped, pushes>>

\* the deferred close(listen)
Close(k) ==
    /\ Step(k, "closing", "closed")
    /\ UNCHANGED <<vars, Listerners, snapped, pushes>>

-------------------------------------------------------------------------------
(* dispatchEvent and dispatchEventToPlayer. *)

\* the players a notice is for
Audience(n) == IF n.notice = "WRONG" THEN {n.of.player} ELSE Players

\* seeded bug: a goroutine for every player, listening or not
SnapshotAll(n) ==
    /\ n \in sent \ snapped
    /\ snapped' = snapped \cup {n}
    /\ pushes' = pushes \cup {<<n, Listerners[p]>> : p \in Audience(n)}
    /\ UNCHANGED <<vars, conn, Listerners>>

\* Listerners is copied under the read lock, and a goroutine started per entry
Snapshot(n) ==
    /\ n \in sent \ snapped
    /\ snapped' = snapped \cup {n}
    /\ pushes' = pushes \cup {<<n, Listerners[p]>> : p \in {q \in Audience(n) : Listerners[q] # None}}
    /\ UNCHANGED <<vars, conn, Listerners>>

\* the non-blocking send finds the handler in its select
Push(n, k) ==
    /\ <<n, k>> \in pushes
    /\ Step(k, "select", "writing")
    /\ pushes' = pushes \ {<<n, k>>}
    /\ UNCHANGED <<vars, Listerners, snapped>>

\* seeded bug: the panic of a send on a closed channel is not recovered
DropUnrecovered(n, k) ==
    /\ <<n, k>> \in pushes
    /\ conn[k] \notin {"select", "closed"}
    /\ pushes' = pushes \ {<<n, k>>}
    /\ UNCHANGED <<vars, conn, Listerners, snapped>>

\* it does not, or the channel is closed and the panic is recovered
Drop(n, k) ==
    /\ <<n, k>> \in pushes
    /\ conn[k] # "select"
    /\ pushes' = pushes \ {<<n, k>>}
    /\ UNCHANGED <<vars, conn, Listerners, snapped>>

-------------------------------------------------------------------------------

OfConns == {Joined(k) : k \in Conns} \cup {Left(k) : k \in Conns}

\* the room manager and its other clients
RoomStep ==
    /\ \/ \E e \in Requests \ OfConns : Request(e)
       \/ \E e \in Requests : Send(e)
       \/ \E c \in Consumers : ConsumerStep(c)
    /\ UNCHANGED streamVars

HandlerStep(k) == Enter(k) \/ Flush(k) \/ Loop(k) \/ Unregister(k) \/ Close(k)

StreamNext ==
    \/ RoomStep
    \/ \E k \in Conns : Open(k) \/ Disconnect(k) \/ HandlerStep(k)
    \/ \E n \in sent : Snapshot(n)
    \/ \E m \in pushes : Push(m[1], m[2]) \/ Drop(m[1], m[2])

StreamSpec == StreamInit /\ [][StreamNext]_allVars

\* Handlers and dispatch goroutines run when they can; clients come and go as
\* they please.
StreamFairness ==
    /\ \A c \in Consumers : WF_allVars(ConsumerStep(c) /\ UNCHANGED streamVars)
    /\ \A e \in Requests : SF_allVars(Send(e) /\ UNCHANGED streamVars)
    /\ \A k \in Conns : WF_allVars(HandlerStep(k))
    /\ WF_allVars(\E n \in sent : Snapshot(n))
    /\ WF_allVars(\E m \in pushes : Push(m[1], m[2]) \/ Drop(m[1], m[2]))

FairStreamSpec == StreamSpec /\ StreamFairness

-------------------------------------------------------------------------------
(* What holds. *)

IsOpen(k) == conn[k] \in {"registered", "entering", "select", "writing", "flushed", "leaving"}

\* The room never keeps the channel of a connection that is closing or closed,
\* nor that of a connection which a newer one of the player has replaced, in
\* whatever order a player's connections come and go.
NoStaleListener ==
    \A p \in Players : LET k == Listerners[p]
                       IN  k # None => /\ IsOpen(k) /\ k.player = p
                                       /\ \A l \in Conns : l.player = p /\ l.no > k.no => conn[l] = "new"

\* An open connection without an entry has lost it to a newer connection of the
\* same player, which took it over (events.go:39), or to the end of an older one
\* (events.go:46): to nothing else, and never to another player.
DeprivedByOwnPlayer ==
    \A k \in Conns : IsOpen(k) /\ Listerners[k.player] # k =>
        \E l \in Conns : /\ l.player = k.player
                         /\ \/ l.no > k.no /\ conn[l] # "new"
                            \/ l.no < k.no /\ conn[l] \in {"closing", "closed"}

\* A connection that ends is announced to the room, whatever statements fail: their
\* errors are logged, and the departure is broadcast (room_manager.go:435-451).
EndIsAnnounced ==
    \A k \in Conns : conn[k] = "leaving" ~> Announced(Left(k))

\* No dispatch goroutine stays behind: each ends with a delivery or a drop, even
\* when the channel it was given has been closed meanwhile.
DispatchEnds == []<>(pushes = {})

-------------------------------------------------------------------------------
(* What the documentation says and the code does not do. *)

\* room_manager.go:25: "listeners are all the clients connected to the room, represented
\* by their client IDs".  A client that is connected has its entry, which may be that of
\* another connection of the same player.
ConnectedAreListeners ==
    \A k \in Conns : conn[k] \in {"select", "writing", "flushed"} => Listerners[k.player] # None
===============================================================================
