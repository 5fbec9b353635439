---------------------------- MODULE RoomRefinement ----------------------------
(* RoomManager implements RoomService: the mapping of its state, and the claim. *)
EXTENDS RoomManager

\* where the event of a request is, or the SolutionResult made of it
InEvents(e) == \E i \in 1 .. Len(events) : events[i] = e
ResultInEvents(e) == \E i \in 1 .. Len(events) : events[i].id = e.id /\ events[i].kind = "result"
Processed(e, stages) == \E c \in Consumers : ev[c] # None /\ ev[c].id = e.id /\ at[c] \in stages

\* A submission is done when its SolutionResult exists, whether it is posted or not.
DoneStages == {"rank", "post", "deliver", "score"}
Done(e) == ResultInEvents(e) \/ Processed(e, DoneStages)
Asked(e) == e \in sending \/ InEvents(e) \/ Processed(e, Stages \ DoneStages)

StatusOf(e) == CASE e \in unsent -> "new"
                 [] Announced(e) -> "told"
                 [] Done(e)      -> "done"
                 [] Asked(e)     -> "asked"
                 [] OTHER        -> "dropped"
statusBar == [e \in Requests |-> StatusOf(e)]

\* the results there are, wherever they are, and that of a submission
Things == {events[i] : i \in 1 .. Len(events)} \cup {ev[c] : c \in Consumers}
          \cup {verdict[c] : c \in Consumers} \cup {n.of : n \in sent}
AllResults == {r \in Things \ {None} : r.kind = "result"}
ResultOf(e) == {r \in AllResults : r.id = e.id}

VerdictOf(e) == IF ResultOf(e) = {} THEN None
                ELSE IF \E r \in ResultOf(e) : r.status = "Accepted" THEN "CORRECT" ELSE "WRONG"
verdictBar == [e \in Requests |-> VerdictOf(e)]

noticesBar == {[notice |-> n.notice, of |-> n.of.id] : n \in sent}

Room == INSTANCE RoomService WITH
            Faults <- DbFaults, status <- statusBar, verdict <- verdictBar,
            notices <- noticesBar, members <- Members, open <- roomRow

\* The room manager, whatever its Start goroutines interleave, behaves as the room
\* service: each request takes effect once and is told of once, by its own notice;
\* a verdict that was reached is the one that is told; members change by joins and
\* departures only, and a room with members is not deleted.
RoomSpec == Room!Spec
===============================================================================
