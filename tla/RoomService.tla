------------------------------ MODULE RoomService ------------------------------
(***************************************************************************)
(* What a room of internal/channels promises its clients, without          *)
(* channels, goroutines or SQL by name: a request that was asked for takes *)
(* effect once, at one moment, and is told of once, by the notice that     *)
(* belongs to it; or it is dropped, without an effect and in silence.  A   *)
(* solution takes effect when it has its verdict, and the notice tells     *)
(* that verdict.  Members come and go by requests only, and a room with    *)
(* members stays.  Module RoomRefinement shows that RoomManager            *)
(* implements this.                                                        *)
(***************************************************************************)
EXTENDS Naturals

CONSTANTS Players, Requests, Faults, None

VARIABLES status,   \* how far each request has come
          verdict,  \* of each solution that has one: the notice to be told
          notices,  \* the notices told, each with its request
          members, open

vars == <<status, verdict, notices, members, open>>

Statuses == {"new", "asked", "done", "told", "dropped"}

Init == /\ status = [e \in Requests |-> "new"]
        /\ verdict = [e \in Requests |-> None]
        /\ notices = {}
        /\ members \in SUBSET Players   \* whom the room had before
        /\ open = TRUE

Move(e, from, to) == status[e] = from /\ status' = [status EXCEPT ![e] = to]

NoticeOf(e) == CASE e.kind = "join"   -> "JOINED"
                 [] e.kind = "left"   -> "LEFT"
                 [] e.kind = "delete" -> "ROOM_DELETED"
                 [] e.kind = "submit" -> verdict[e]

Tells(e) == notices' = notices \cup {[notice |-> NoticeOf(e), of |-> e.id]}

Ask(e) == /\ Move(e, "new", "asked")
          /\ UNCHANGED <<verdict, notices, members, open>>

Drop(e) == /\ Move(e, "asked", "dropped")
           /\ e.kind \in {"join", "submit"}
           /\ UNCHANGED <<verdict, notices, members, open>>

Join(e) == /\ e.kind = "join"
           /\ Move(e, "asked", "done")
           /\ open \/ e.player \in members
           /\ members' = members \cup {e.player}
           /\ UNCHANGED <<verdict, notices, open>>

Leave(e) == /\ e.kind = "left"
            /\ Move(e, "asked", "done")
            /\ \/ members' = members \ {e.player}
               \/ Faults /\ UNCHANGED members
            /\ UNCHANGED <<verdict, notices, open>>

Decide(e) == /\ e.kind = "submit"
             /\ Move(e, "asked", "done")
             /\ \E v \in {"CORRECT", "WRONG"} : verdict' = [verdict EXCEPT ![e] = v]
             /\ UNCHANGED <<notices, members, open>>

\* a deletion takes effect and is told of in one step; a room with members stays
Delete(e) == /\ e.kind = "delete"
             /\ Move(e, "asked", "told")
             /\ Tells(e)
             /\ \/ open' = (open /\ members # {})
                \/ Faults /\ UNCHANGED open
             /\ UNCHANGED <<verdict, members>>

Tell(e) == /\ Move(e, "done", "told")
           /\ Tells(e)
           /\ UNCHANGED <<verdict, members, open>>

Next == \E e \in Requests : \/ Ask(e) \/ Drop(e) \/ Join(e) \/ Leave(e)
                            \/ Decide(e) \/ Delete(e) \/ Tell(e)

Spec == Init /\ [][Next]_vars
===============================================================================
