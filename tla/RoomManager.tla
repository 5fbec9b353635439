------------------------------ MODULE RoomManager ------------------------------
(***************************************************************************)
(* One room manager of internal/channels/room_manager.go: its Events       *)
(* channel, the goroutines that send to it, the goroutines that run Start, *)
(* and the rows of the database they write.  A room of NewGlobalRooms or   *)
(* CreateRoom has one Start goroutine; CreateRoomHandler starts a second.  *)
(*                                                                         *)
(* A step is one channel operation, one call of ExecuteJob or one SQL      *)
(* statement.  What a handler hands to a dispatch goroutine is recorded in *)
(* "sent"; who receives it is the matter of module EventStream.            *)
(***************************************************************************)
EXTENDS Integers, Sequences, FiniteSets

CONSTANTS Players,
          Registered,   \* the players with a row in table players
          Consumers,    \* goroutines in rm.Start
          EventCap,     \* capacity of rm.Events, 10 in the code
          Requests,     \* what the clients may ask for, each at most once
          Unknown,      \* submissions that name no known language or question
          Tests,        \* number of test cases of the question
          BlankTests,   \* those whose expected output is blank
          JobAnswers,   \* how ExecuteJob can end
          DbFaults,     \* whether SQL statements may fail
          Leftovers,    \* rows that an earlier life of the server may have left
          None

Kinds == {"join", "left", "submit", "delete"}
AllJobAnswers == {"match", "mismatch", "error", "rejected", "lost"}

ASSUME RoomAssumption ==
    /\ IsFiniteSet(Players) /\ Registered \subseteq Players
    /\ EventCap \in Nat \ {0}
    /\ \A e \in Requests : e.kind \in Kinds /\ e.player \in Players
    /\ \A e, f \in Requests : e.id = f.id => e = f
    /\ Unknown \subseteq {e \in Requests : e.kind = "submit"}
    /\ Tests \in Nat /\ BlankTests \subseteq 1 .. Tests
    /\ JobAnswers \subseteq AllJobAnswers
    /\ DbFaults \in BOOLEAN
    /\ None \notin [score : Int, place : Int]

VARIABLES unsent,   \* requests not made yet
          sending,  \* events whose goroutine is at its send on rm.Events
          events,   \* the buffer of rm.Events
          at,       \* where each consumer is
          ev,       \* the event it processes
          test,     \* the test case it is to run next
          verdict,  \* the SolutionResult it is to send
          rows,     \* room_players, for this room
          roomRow,  \* whether the room has its row in table rooms
          sent,     \* broadcasts and messages handed to a dispatch goroutine
          moved,    \* history: each player's latest join or leave that was received,
                    \* in this life or before
          judged    \* history: the submissions and results received, in order

db == <<rows, roomRow>>
history == <<moved, judged>>
vars == <<unsent, sending, events, at, ev, test, verdict, rows, roomRow, sent, moved, judged>>

\* SQL's null score; the scores of the program are not negative
Null == -1
SqlAdd(x, y) == IF x = Null \/ y = Null THEN Null ELSE x + y

\* addPlayerToRoom's row, and the Int4 whose Valid processSolutionResult leaves unset
NewRow == [score |-> 12, place |-> 10]
ScoreToAdd == Null

\* the scores that the program leaves in a row
ASSUME LeftoverAssumption == Leftovers \subseteq [score : {NewRow.score, Null}, place : Int]

\* A SolutionResult; "why" stands for what its Message tells of the run.
Verdict(e, status, why) == [kind |-> "result", player |-> e.player, id |-> e.id,
                            status |-> status, why |-> why]

Statuses == {"Accepted", "WrongAnswer", "RuntimeError"}
Results == {Verdict(e, s, y) : e \in {r \in Requests : r.kind = "submit"},
                               s \in Statuses, y \in AllJobAnswers}
Event == Requests \cup Results
ASSUME EventAssumption == None \notin Event

Stages == {"recv", "player", "check", "insert", "remove", "rank", "delete",
           "lookup", "judge", "post", "deliver", "score", "hung"}
Notices == {"JOINED", "LEFT", "CORRECT", "WRONG", "ROOM_DELETED"}

TypeOK == /\ unsent \subseteq Requests /\ sending \subseteq Requests
          /\ events \in Seq(Event) /\ Len(events) <= EventCap
          /\ at \in [Consumers -> Stages]
          /\ ev \in [Consumers -> Event \cup {None}]
          /\ test \in [Consumers -> 0 .. Tests + 1]
          /\ verdict \in [Consumers -> Results \cup {None}]
          /\ rows \in [Players -> [score : Int, place : Int] \cup {None}]
          /\ roomRow \in BOOLEAN
          /\ sent \subseteq [notice : Notices, of : Event]
          /\ moved \in [Players -> {"join", "left"}]
          /\ judged \in Seq(Event)

\* The memory is that of a new process.  Nothing clears room_players when a process
\* ends: whoever was in the room is in it still, with places as they were left.
Init == /\ unsent = Requests /\ sending = {} /\ events = <<>>
        /\ at = [c \in Consumers |-> "recv"]
        /\ ev = [c \in Consumers |-> None]
        /\ test = [c \in Consumers |-> 0]
        /\ verdict = [c \in Consumers |-> None]
        /\ rows \in [Players -> Leftovers \cup {None}]
        /\ \A p \in Players \ Registered : rows[p] = None
        /\ roomRow = TRUE
        /\ sent = {}
        /\ moved = [p \in Players |-> IF rows[p] = None THEN "left" ELSE "join"]
        /\ judged = <<>>

\* how an SQL statement that could succeed may end
MaySucceed == IF DbFaults THEN BOOLEAN ELSE {TRUE}

Members == {p \in Players : rows[p] # None}

\* RANK() OVER (ORDER BY score DESC), where nulls come first
Before(s, t) == s # t /\ (s = Null \/ (t # Null /\ s > t))
RankOf(p) == 1 + Cardinality({q \in Members : Before(rows[q].score, rows[p].score)})

-------------------------------------------------------------------------------
(* The senders: the handlers of the HTTP API and of the event stream. *)

\* the checks a handler makes before it sends: DeleteRoomHandler asks for the
\* room's row, LeaveRoomHandler for the player's
Admitted(e) == /\ e.kind = "delete" => roomRow
               /\ e.kind = "left" => e.player \in Registered

\* "go func() { rm.Events <- e }()"
Spawn(e) == /\ unsent' = unsent \ {e}
            /\ sending' = sending \cup {e}
            /\ UNCHANGED <<events, at, ev, test, verdict, db, sent, history>>

Request(e) == e \in unsent /\ Admitted(e) /\ Spawn(e)

\* seeded bug: a channel without a capacity
SendUnbounded(e) ==
    /\ e \in sending
    /\ events' = Append(events, e)
    /\ sending' = sending \ {e}
    /\ UNCHANGED <<unsent, at, ev, test, verdict, db, sent, history>>

Send(e) ==
    /\ e \in sending
    /\ Len(events) < EventCap
    /\ events' = Append(events, e)
    /\ sending' = sending \ {e}
    /\ UNCHANGED <<unsent, at, ev, test, verdict, db, sent, history>>

-------------------------------------------------------------------------------
(* Start and the process functions, one consumer at a time. *)

Goto(c, stage) == at' = [at EXCEPT ![c] = stage]

\* the process function returns to the loop of Start
Return(c) == /\ Goto(c, "recv")
             /\ ev' = [ev EXCEPT ![c] = None]
             /\ test' = [test EXCEPT ![c] = 0]
             /\ verdict' = [verdict EXCEPT ![c] = None]

Continue(c, stage) == Goto(c, stage) /\ UNCHANGED <<ev, test, verdict>>

\* "go rm.dispatchEvent(...)" of the event that is processed
Dispatch(c, notice) == sent' = sent \cup {[notice |-> notice, of |-> ev[c]]}

\* seeded bug: a run that failed is not "wrong"
FirstStageUnlessWrong(e) ==
    CASE e.kind = "join"   -> "player"
      [] e.kind = "left"   -> "remove"
      [] e.kind = "submit" -> "lookup"
      [] e.kind = "delete" -> "delete"
      [] e.kind = "result" -> IF e.status = "WrongAnswer" THEN "deliver" ELSE "score"

FirstStage(e) ==
    CASE e.kind = "join"   -> "player"
      [] e.kind = "left"   -> "remove"
      [] e.kind = "submit" -> "lookup"
      [] e.kind = "delete" -> "delete"
      [] e.kind = "result" -> IF e.status = "Accepted" THEN "score" ELSE "deliver"

\* what the history keeps of an event that is received
Record(e) ==
    /\ moved' = IF e.kind \in {"join", "left"} THEN [moved EXCEPT ![e.player] = e.kind] ELSE moved
    /\ judged' = IF e.kind \in {"submit", "result"} THEN Append(judged, e) ELSE judged

\* seeded bug: the newest event first
RecvNewest(c) ==
    /\ at[c] = "recv"
    /\ events # <<>>
    /\ LET e == events[Len(events)]
       IN  /\ ev' = [ev EXCEPT ![c] = e]
           /\ Goto(c, FirstStage(e))
           /\ Record(e)
    /\ events' = SubSeq(events, 1, Len(events) - 1)
    /\ UNCHANGED <<unsent, sending, test, verdict, db, sent>>

Recv(c) ==
    /\ at[c] = "recv"
    /\ events # <<>>
    /\ ev' = [ev EXCEPT ![c] = Head(events)]
    /\ events' = Tail(events)
    /\ Goto(c, FirstStage(Head(events)))
    /\ Record(Head(events))
    /\ UNCHANGED <<unsent, sending, test, verdict, db, sent>>

\* processPlayerJoined: GetPlayer
LoadPlayer(c) ==
    /\ at[c] = "player"
    /\ \E ok \in MaySucceed :
          IF ok /\ ev[c].player \in Registered THEN Continue(c, "check") ELSE Return(c)
    /\ UNCHANGED <<unsent, sending, events, db, sent, history>>

\* playerInRoom: any error counts as "not in the room"
CheckPlayer(c) ==
    /\ at[c] = "check"
    /\ \E ok \in MaySucceed :
          Continue(c, IF ok /\ ev[c].player \in Members THEN "rank" ELSE "insert")
    /\ UNCHANGED <<unsent, sending, events, db, sent, history>>

\* seeded bugs: the error of the insert is only logged; no new ranks for a new row
InsertErrorLogged(c) ==
    /\ at[c] = "insert"
    /\ \E ok \in MaySucceed :
          rows' = IF ok /\ ev[c].player \notin Members /\ roomRow
                  THEN [rows EXCEPT ![ev[c].player] = NewRow] ELSE rows
    /\ Continue(c, "rank")
    /\ UNCHANGED <<unsent, sending, events, roomRow, sent, history>>

InsertUnranked(c) ==
    /\ at[c] = "insert"
    /\ \E ok \in MaySucceed :
          rows' = IF ok /\ ev[c].player \notin Members /\ roomRow
                  THEN [rows EXCEPT ![ev[c].player] = NewRow] ELSE rows
    /\ Return(c)
    /\ UNCHANGED <<unsent, sending, events, roomRow, sent, history>>

\* addPlayerToRoom: refused by the primary key or the foreign key to rooms
InsertPlayer(c) ==
    /\ at[c] = "insert"
    /\ \E ok \in MaySucceed :
          IF ok /\ ev[c].player \notin Members /\ roomRow
          THEN /\ rows' = [rows EXCEPT ![ev[c].player] = NewRow]
               /\ Continue(c, "rank")
          ELSE Return(c) /\ UNCHANGED rows
    /\ UNCHANGED <<unsent, sending, events, roomRow, sent, history>>

\* seeded bug: the row of a player who left is kept
RemoveNothing(c) ==
    /\ at[c] = "remove"
    /\ Continue(c, "rank")
    /\ UNCHANGED <<unsent, sending, events, db, sent, history>>

\* processPlayerLeft: removePlayerFromRoom, whose error is logged
RemovePlayer(c) ==
    /\ at[c] = "remove"
    /\ \E ok \in MaySucceed :
          rows' = IF ok THEN [rows EXCEPT ![ev[c].player] = None] ELSE rows
    /\ Continue(c, "rank")
    /\ UNCHANGED <<unsent, sending, events, roomRow, sent, history>>

\* seeded bug: an event whose ranking failed is processed again
RankOrStartOver(c) ==
    /\ at[c] = "rank"
    /\ \E ok \in MaySucceed :
          IF ok THEN Return(c) ELSE Continue(c, FirstStage(ev[c]))
    /\ UNCHANGED <<unsent, sending, events, db, sent, history>>

\* calculateLeaderboard, whose error is logged, and the broadcast after it
Rank(c) ==
    /\ at[c] = "rank"
    /\ \E ok \in MaySucceed :
          rows' = IF ok THEN [p \in Players |-> IF p \in Members
                                                THEN [rows[p] EXCEPT !.place = RankOf(p)]
                                                ELSE None]
                        ELSE rows
    /\ Dispatch(c, CASE ev[c].kind = "join" -> "JOINED"
                     [] ev[c].kind = "left" -> "LEFT"
                     [] ev[c].kind = "result" -> "CORRECT")
    /\ Return(c)
    /\ UNCHANGED <<unsent, sending, events, roomRow, history>>

\* seeded bug: the delete is not refused
DeleteRoomForced(c) ==
    /\ at[c] = "delete"
    /\ \E ok \in MaySucceed : roomRow' = (roomRow /\ ~ok)
    /\ Dispatch(c, "ROOM_DELETED")
    /\ Return(c)
    /\ UNCHANGED <<unsent, sending, events, rows, history>>

\* processRoomDeleted: the foreign key of room_players refuses to delete a room
\* with members; the error is logged and the broadcast made all the same
DeleteRoom(c) ==
    /\ at[c] = "delete"
    /\ \E ok \in MaySucceed : roomRow' = (roomRow /\ ~(ok /\ Members = {}))
    /\ Dispatch(c, "ROOM_DELETED")
    /\ Return(c)
    /\ UNCHANGED <<unsent, sending, events, rows, history>>

\* processSolutionSubmitted: the language, the question and its test cases
Lookup(c) ==
    /\ at[c] = "lookup"
    /\ \E ok \in MaySucceed :
          IF ok /\ ev[c] \notin Unknown
          THEN /\ Goto(c, "judge")
               /\ test' = [test EXCEPT ![c] = 1]
               /\ UNCHANGED <<ev, verdict>>
          ELSE Return(c)
    /\ UNCHANGED <<unsent, sending, events, db, sent, history>>

Conclude(c, status, why) ==
    /\ verdict' = [verdict EXCEPT ![c] = Verdict(ev[c], status, why)]
    /\ Goto(c, "post")
    /\ UNCHANGED <<ev, test>>

\* seeded bug: a run that fails ends the processing without a result
JudgeErrorReturned(c) ==
    /\ at[c] = "judge"
    /\ test[c] <= Tests
    /\ \E answer \in JobAnswers :
          \/ /\ answer = "match"
             /\ test' = [test EXCEPT ![c] = @ + 1]
             /\ UNCHANGED <<at, ev, verdict>>
          \/ answer = "mismatch" /\ Conclude(c, "WrongAnswer", answer)
          \/ answer = "error" /\ Return(c)
    /\ UNCHANGED <<unsent, sending, events, db, sent, history>>

\* ExecuteJob for the next test case and what the loop makes of its Result.  A
\* rejected job has the zero Result: no error, and "" to compare.
Judge(c) ==
    /\ at[c] = "judge"
    /\ test[c] <= Tests
    /\ \E answer \in JobAnswers :
          \/ /\ answer = "match" \/ (answer = "rejected" /\ test[c] \in BlankTests)
             /\ test' = [test EXCEPT ![c] = @ + 1]
             /\ UNCHANGED <<at, ev, verdict>>
          \/ /\ answer = "mismatch" \/ (answer = "rejected" /\ test[c] \notin BlankTests)
             /\ Conclude(c, "WrongAnswer", answer)
          \/ /\ answer = "error"
             /\ Conclude(c, "RuntimeError", answer)
          \/ /\ answer = "lost"
             /\ Continue(c, "hung")
    /\ UNCHANGED <<unsent, sending, events, db, sent, history>>

\* no test case is left
Accept(c) ==
    /\ at[c] = "judge"
    /\ test[c] > Tests
    /\ Conclude(c, "Accepted", "match")
    /\ UNCHANGED <<unsent, sending, events, db, sent, history>>

\* seeded bug: no return after the send
PostAgain(c) ==
    /\ at[c] = "post"
    /\ Len(events) < EventCap
    /\ events' = Append(events, verdict[c])
    /\ UNCHANGED <<unsent, sending, at, ev, test, verdict, db, sent, history>>

\* the consumer sends the result to the channel it consumes
Post(c) ==
    /\ at[c] = "post"
    /\ Len(events) < EventCap
    /\ events' = Append(events, verdict[c])
    /\ Return(c)
    /\ UNCHANGED <<unsent, sending, db, sent, history>>

\* processSolutionResult, not accepted: a message to the player alone
Deliver(c) ==
    /\ at[c] = "deliver"
    /\ Dispatch(c, "WRONG")
    /\ Return(c)
    /\ UNCHANGED <<unsent, sending, events, db, history>>

\* processSolutionResult, accepted: AddRoomPlayerScore, whose error is dropped
AddScore(c) ==
    /\ at[c] = "score"
    /\ \E ok \in MaySucceed :
          LET p == ev[c].player
          IN  rows' = IF ok /\ p \in Members
                      THEN [rows EXCEPT ![p].score = SqlAdd(@, ScoreToAdd)]
                      ELSE rows
    /\ Continue(c, "rank")
    /\ UNCHANGED <<unsent, sending, events, roomRow, sent, history>>

ConsumerStep(c) == \/ Recv(c) \/ LoadPlayer(c) \/ CheckPlayer(c) \/ InsertPlayer(c)
                   \/ RemovePlayer(c) \/ Rank(c) \/ DeleteRoom(c) \/ Lookup(c)
                   \/ Judge(c) \/ Accept(c) \/ Post(c) \/ Deliver(c) \/ AddScore(c)

Next == \/ \E e \in Requests : Request(e) \/ Send(e)
        \/ \E c \in Consumers : ConsumerStep(c)

Spec == Init /\ [][Next]_vars

\* Goroutines that can run do run; a blocked sender gets its turn when the channel
\* has room (Go wakes senders in order); SQL and ExecuteJob return, except when
\* the answer is lost.  No client is obliged to make a request.
Fairness == /\ \A c \in Consumers : WF_vars(ConsumerStep(c))
            /\ \A e \in Requests : SF_vars(Send(e))

FairSpec == Spec /\ Fairness

-------------------------------------------------------------------------------
(* What holds. *)

\* a notice that follows a ranking has been handed out
LeaderboardTold == \E n \in sent : n.notice \in {"JOINED", "LEFT", "CORRECT"}

\* The leaderboard is never left stale: once a page has been told to fetch it, a
\* member's place that is not the rank of the score is about to be recomputed by
\* some Start goroutine (the calls of calculateLeaderboard, room_manager.go:315, 409
\* and 441), whatever the other does, and whatever places an earlier life left.
LeaderboardFresh ==
    LeaderboardTold /\ (\A c \in Consumers : at[c] # "rank") =>
        \A p \in Members : rows[p].place = RankOf(p)

\* the copies of an event, of the SolutionResult made of it and of the notices
\* they lead to
Copies(e) == Cardinality({i \in 1 .. Len(events) : events[i].id = e.id})
           + Cardinality({c \in Consumers : ev[c] # None /\ ev[c].id = e.id})
           + Cardinality({n \in sent : n.of.id = e.id})
           + Cardinality({e} \cap unsent) + Cardinality({e} \cap sending)

\* An event is in one place at a time and leads to one notice at most: no player
\* gets two verdicts for a submission, with one Start goroutine or two.
OneVerdict == \A e \in Requests : Copies(e) <= 1

\* Between two events, the members of the room are the registered players whose
\* latest join or leave was a join, in this life or an earlier one, as long as the
\* room exists; however often and in whatever order players come and go
\* (room_manager.go:388-455).
MembersFollowEvents ==
    (\A c \in Consumers : at[c] = "recv") =>
        /\ \A p \in Members : moved[p] = "join" /\ p \in Registered
        /\ roomRow => \A p \in Registered : moved[p] = "join" => p \in Members

\* A player whose arrival is about to be announced has a row in the room
\* (processPlayerJoined, "Add player to room", room_manager.go:389-390).
AnnouncedAreMembers ==
    \A c \in Consumers : at[c] = "rank" /\ ev[c].kind = "join" => ev[c].player \in Members

\* A room with members keeps its row, although a deletion does not look for members
\* and a join does not look for the room (room_manager.go:397-400 and 472): a page that
\* is told ROOM_DELETED may be in a room that is as it was.
OccupiedRoomStays == Members # {} => roomRow

\* Verdicts come in the order in which the submissions were received.
VerdictsInOrder ==
    \A i, j, k, l \in 1 .. Len(judged) :
        /\ judged[i].kind = "submit" /\ judged[k].kind = "result"
        /\ judged[j].kind = "submit" /\ judged[l].kind = "result"
        /\ judged[i].id = judged[k].id /\ judged[j].id = judged[l].id
        /\ i < j
        => k < l

Announced(e) == \E n \in sent : n.of.id = e.id

\* A join that the primary key is about to refuse: since it was checked, the other
\* Start goroutine has made the player's row for another join.
Overtaken(e) == \E c \in Consumers : at[c] = "insert" /\ ev[c] = e /\ e.player \in Members

\* what an event comes to in the end, when nothing fails: its notice, or nothing
\* for an unknown player, language or question, or a join that is refused because
\* the room is gone or the player there by another join
Served(e) == \/ Announced(e)
             \/ e \in Unknown
             \/ e.kind = "join" /\ (e.player \notin Registered \/ ~roomRow \/ Overtaken(e))

\* Every event that a handler sends is processed and answered, or is one of those
\* that the code ends without an answer: with two Start goroutines, one of two joins
\* of a player may be ended by the primary key (room_manager.go:397-405), and its
\* page gets no notice of its own ("receive events from multiple sources and process
\* it, then send to all listeners", room_manager.go:24).
EveryEventServed == \A e \in Requests : e \in sending ~> Served(e)

\* Whatever statements fail, Start comes back for the next event: the errors of
\* statements are logged or returned, and nothing is tried again (room_manager.go:95-122).
StartReturns == \A c \in Consumers : []<>(at[c] = "recv")

===============================================================================
