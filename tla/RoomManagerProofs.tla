--------------------------- MODULE RoomManagerProofs ---------------------------
(***************************************************************************)
(* Theorems about RoomManager, for any players, requests, test cases and   *)
(* channel capacity; those that say so are about a room with one Start     *)
(* goroutine, the others hold with any number of them.                     *)
(***************************************************************************)
EXTENDS RoomManager, FiniteSetTheorems, SequenceTheorems, TLAPS

(* What a stage of a process function says of the event, and of the          *)
(* SolutionResult.                                                           *)
Local(stage, e, v) ==
    /\ stage = "recv" <=> e = None
    /\ stage \in {"player", "check", "insert"} => e \in Requests /\ e.kind = "join"
    /\ stage = "remove" => e \in Requests /\ e.kind = "left"
    /\ stage = "delete" => e \in Requests /\ e.kind = "delete"
    /\ stage \in {"lookup", "judge", "post", "hung"} => e \in Requests /\ e.kind = "submit"
    /\ stage \in {"deliver", "score"} => e \in Results
    /\ stage = "rank" => e \in Event /\ e.kind \in {"join", "left", "result"}
    /\ stage = "post" => v \in Results /\ v.id = e.id

Locals == \A c \in Consumers : Local(at[c], ev[c], verdict[c])

TInv == TypeOK /\ Locals

\* Requests are of the four kinds a client can ask for; results are of a kind of their
\* own, and keep the player and the id of their submission.
LEMMA EventFacts ==
    /\ \A e \in Requests : e \in Event /\ e # None /\ e.kind \in Kinds /\ e.player \in Players
    /\ \A r \in Results : /\ r \in Event /\ r # None
                          /\ r.kind = "result" /\ r.player \in Players /\ r.status \in Statuses
    /\ \A e \in Requests, s \in Statuses, y \in AllJobAnswers :
           e.kind = "submit" => Verdict(e, s, y) \in Results /\ Verdict(e, s, y).id = e.id
<1>1. \A e \in Requests : e \in Event /\ e # None /\ e.kind \in Kinds /\ e.player \in Players
  BY RoomAssumption, EventAssumption DEF RoomAssumption, EventAssumption, Event
<1>2. \A r \in Results : /\ r \in Event /\ r # None
                         /\ r.kind = "result" /\ r.player \in Players /\ r.status \in Statuses
  BY <1>1, EventAssumption DEF Results, Verdict, EventAssumption, Event
<1>3. \A e \in Requests, s \in Statuses, y \in AllJobAnswers :
           e.kind = "submit" => Verdict(e, s, y) \in Results /\ Verdict(e, s, y).id = e.id
  BY DEF Results, Verdict
<1>4. QED
  BY <1>1, <1>2, <1>3

LEMMA EventKinds ==
    ASSUME NEW e \in Event
    PROVE  /\ e # None /\ e.kind \in Kinds \cup {"result"} /\ e.player \in Players
           /\ e.kind = "result" => e \in Results
           /\ e.kind # "result" => e \in Requests
  BY EventFacts DEF Event, Kinds

\* Popping and filling a channel.
LEMMA PopEvent ==
    ASSUME NEW S, NEW q \in Seq(S), q # <<>>
    PROVE  /\ Head(q) \in S /\ Tail(q) \in Seq(S) /\ Len(Tail(q)) = Len(q) - 1
           /\ Len(q) \in Nat \ {0}
  BY HeadTailProperties, LenProperties, EmptySeq

LEMMA AppendEvent ==
    ASSUME NEW S, NEW q \in Seq(S), NEW e \in S
    PROVE  Append(q, e) \in Seq(S) /\ Len(Append(q, e)) = Len(q) + 1 /\ Len(q) \in Nat
  BY AppendProperties, LenProperties

-------------------------------------------------------------------------------
(* None of it rests on the checks that the handlers of the HTTP API make before  *)
(* they send: what is shown of LooseSpec holds of Spec, and of the room manager  *)
(* within other systems, whose senders check otherwise.                          *)

Ask(e) == e \in unsent /\ Spawn(e)

LooseNext == \/ \E e \in Requests : Ask(e) \/ Send(e)
             \/ \E c \in Consumers : ConsumerStep(c)

LooseSpec == Init /\ [][LooseNext]_vars

LEMMA Loosen == Spec => LooseSpec
<1>1. [Next]_vars => [LooseNext]_vars
  BY DEF Next, LooseNext, Request, Ask
<1>2. QED
  BY <1>1, PTL DEF Spec, LooseSpec

-------------------------------------------------------------------------------
(* Type correctness. *)

ConsumerTyped ==
    /\ at \in [Consumers -> Stages]
    /\ ev \in [Consumers -> Event \cup {None}]
    /\ test \in [Consumers -> 0 .. Tests + 1]
    /\ verdict \in [Consumers -> Results \cup {None}]

ChannelTyped ==
    /\ unsent \subseteq Requests /\ sending \subseteq Requests
    /\ events \in Seq(Event) /\ Len(events) <= EventCap

Row == [score : Int, place : Int]
RowsTyped == rows \in [Players -> Row \cup {None}]
Flag == roomRow \in BOOLEAN
RecordTyped ==
    /\ sent \subseteq [notice : Notices, of : Event]
    /\ moved \in [Players -> {"join", "left"}]
    /\ judged \in Seq(Event)

LEMMA TypeParts == TypeOK <=> ConsumerTyped /\ ChannelTyped /\ RowsTyped /\ Flag /\ RecordTyped
  BY DEF TypeOK, ConsumerTyped, ChannelTyped, RowsTyped, Row, Flag, RecordTyped

LEMMA TypePartsNext ==
    ConsumerTyped' /\ ChannelTyped' /\ RowsTyped' /\ Flag' /\ RecordTyped' => TypeOK'
  BY DEF TypeOK, ConsumerTyped, ChannelTyped, RowsTyped, Row, Flag, RecordTyped

LEMMA LeftoverFacts == Leftovers \subseteq Row /\ \A r \in Leftovers : r.score \in {NewRow.score, Null}
  BY LeftoverAssumption DEF Row, NewRow, Null

LEMMA TInvInit == Init => TInv
<1> SUFFICES ASSUME Init PROVE TInv
  OBVIOUS
<1>1. ConsumerTyped /\ Locals
  BY RoomAssumption DEF Init, ConsumerTyped, Locals, Local, Stages, RoomAssumption
<1>2. ChannelTyped
  BY RoomAssumption DEF Init, ChannelTyped, RoomAssumption
<1>3. RowsTyped /\ RecordTyped
  BY LeftoverFacts DEF Init, RowsTyped, RecordTyped
<1>4. Flag
  BY DEF Init, Flag
<1>5. QED
  BY <1>1, <1>2, <1>3, <1>4, TypeParts DEF TInv

\* The steps of a consumer that touch its own locals only in the usual ways.
LEMMA ReturnTyped ==
    ASSUME TInv, NEW c \in Consumers, Return(c)
    PROVE  ConsumerTyped' /\ Locals'
<1>1. ConsumerTyped /\ Locals
  BY TypeParts DEF TInv
<1>2. Local("recv", None, None)
  BY DEF Local
<1>3. QED
  BY <1>1, <1>2, RoomAssumption DEF ConsumerTyped, Locals, Return, Goto, Stages, RoomAssumption

LEMMA ContinueTyped ==
    ASSUME TInv, NEW c \in Consumers, NEW stage \in Stages, Continue(c, stage),
           Local(stage, ev[c], verdict[c])
    PROVE  ConsumerTyped' /\ Locals'
<1>1. ConsumerTyped /\ Locals
  BY TypeParts DEF TInv
<1>2. QED
  BY <1>1 DEF ConsumerTyped, Locals, Continue, Goto

\* The rows and the places computed for them.
LEMMA RankTyped ==
    ASSUME RowsTyped, NEW p
    PROVE  RankOf(p) \in Nat /\ Members \subseteq Players
<1>1. Members \subseteq Players /\ IsFiniteSet(Players)
  BY RoomAssumption DEF Members, RoomAssumption
<1> DEFINE better == {q \in Members : Before(rows[q].score, rows[p].score)}
<1>2. IsFiniteSet(better)
  BY <1>1, FS_Subset
<1>3. Cardinality(better) \in Nat
  BY <1>2, FS_CardinalityType
<1>4. QED
  BY <1>1, <1>3 DEF RankOf

Ranked == [p \in Players |-> IF p \in Members THEN [rows[p] EXCEPT !.place = RankOf(p)] ELSE None]

LEMMA RankedTyped ==
    ASSUME RowsTyped
    PROVE  /\ Ranked \in [Players -> Row \cup {None}]
           /\ \A p \in Players : Ranked[p] # None <=> p \in Members
           /\ \A p \in Members : Ranked[p].score = rows[p].score /\ Ranked[p].place = RankOf(p)
<1>1. \A p \in Members : p \in Players /\ rows[p] \in Row /\ RankOf(p) \in Int
  BY RankTyped DEF RowsTyped, Members
<1>2. \A p \in Members : [rows[p] EXCEPT !.place = RankOf(p)] \in Row
  BY <1>1 DEF Row
<1>3. \A p \in Members : [rows[p] EXCEPT !.place = RankOf(p)] # None
  BY <1>2, RoomAssumption DEF Row, RoomAssumption
<1>4. \A p \in Members : /\ [rows[p] EXCEPT !.place = RankOf(p)].score = rows[p].score
                         /\ [rows[p] EXCEPT !.place = RankOf(p)].place = RankOf(p)
  BY <1>1 DEF Row
<1>5. QED
  BY <1>1, <1>2, <1>3, <1>4 DEF Ranked

LEMMA ClientStepTyped ==
    ASSUME TInv, NEW e \in Requests, Ask(e) \/ Send(e)
    PROVE  TInv'
<1>0. ConsumerTyped /\ Locals /\ ChannelTyped /\ RowsTyped /\ RecordTyped
  BY TypeParts DEF TInv
<1>1. UNCHANGED <<at, ev, test, verdict>> /\ UNCHANGED <<rows, sent, moved, judged>>
  BY DEF Ask, Spawn, Send, db, history
<1>2. ConsumerTyped' /\ Locals' /\ RowsTyped' /\ RecordTyped'
  BY <1>0, <1>1 DEF ConsumerTyped, Locals, RowsTyped, RecordTyped
<1>3. Flag'
  BY DEF TInv, TypeOK, Flag, Ask, Spawn, Send, db
<1>4. CASE Ask(e)
  <2>1. ChannelTyped'
    BY <1>0, <1>4 DEF ChannelTyped, Ask, Spawn
  <2>2. QED
    BY <1>2, <1>3, <2>1, TypePartsNext DEF TInv
<1>5. CASE Send(e)
  <2>1. Append(events, e) \in Seq(Event) /\ Len(Append(events, e)) = Len(events) + 1
        /\ Len(events) \in Nat
    BY <1>0, EventFacts, AppendEvent DEF ChannelTyped
  <2>2. ChannelTyped'
    BY <1>0, <1>5, <2>1, RoomAssumption DEF ChannelTyped, Send, RoomAssumption
  <2>3. QED
    BY <1>2, <1>3, <2>2, TypePartsNext DEF TInv
<1>6. QED
  BY <1>4, <1>5

\* The consumer's steps that leave the channel and the record alone.
LEMMA RowStepTyped ==
    ASSUME TInv, UNCHANGED <<unsent, sending, events, sent, moved, judged>>,
           ConsumerTyped', Locals', RowsTyped', Flag'
    PROVE  TInv'
<1>1. ChannelTyped /\ RecordTyped
  BY TypeParts DEF TInv
<1>2. ChannelTyped' /\ RecordTyped'
  BY <1>1 DEF ChannelTyped, RecordTyped
<1>3. QED
  BY <1>2, TypePartsNext DEF TInv

LEMMA RecvTyped ==
    ASSUME TInv, NEW c \in Consumers, Recv(c)
    PROVE  TInv'
<1>0. ConsumerTyped /\ Locals /\ ChannelTyped /\ RowsTyped /\ RecordTyped /\ Flag
  BY TypeParts DEF TInv
<1> DEFINE e == Head(events)
<1>1. e \in Event /\ Tail(events) \in Seq(Event) /\ Len(Tail(events)) = Len(events) - 1
      /\ Len(events) \in Nat \ {0}
  BY <1>0, PopEvent DEF ChannelTyped, Recv
<1>2. /\ ev' = [ev EXCEPT ![c] = e] /\ events' = Tail(events)
      /\ at' = [at EXCEPT ![c] = FirstStage(e)] /\ Record(e)
      /\ UNCHANGED <<unsent, sending, test, verdict, rows, sent>>
  BY DEF Recv, Goto, db
<1> HIDE DEF e
<1>3. FirstStage(e) \in Stages /\ Local(FirstStage(e), e, verdict[c])
  BY <1>1, EventKinds DEF FirstStage, Stages, Local, Kinds
<1>4. ConsumerTyped' /\ Locals'
  BY <1>0, <1>1, <1>2, <1>3 DEF ConsumerTyped, Locals
<1>5. ChannelTyped'
  BY <1>0, <1>1, <1>2, RoomAssumption DEF ChannelTyped, RoomAssumption
<1>6. RowsTyped'
  BY <1>0, <1>2 DEF RowsTyped
<1>7. RecordTyped'
  <2>1. moved' \in [Players -> {"join", "left"}]
    BY <1>0, <1>1, <1>2, EventKinds DEF RecordTyped, Record
  <2>2. judged' \in Seq(Event)
    BY <1>0, <1>1, <1>2, AppendEvent DEF RecordTyped, Record
  <2>3. QED
    BY <1>0, <1>2, <2>1, <2>2 DEF RecordTyped
<1>8. Flag'
  BY <1>0 DEF Flag, Recv, db
<1>9. QED
  BY <1>4, <1>5, <1>6, <1>7, <1>8, TypePartsNext DEF TInv

LEMMA JoinLeaveTyped ==
    ASSUME TInv, NEW c \in Consumers,
           LoadPlayer(c) \/ CheckPlayer(c) \/ InsertPlayer(c) \/ RemovePlayer(c)
    PROVE  TInv'
<1>0. ConsumerTyped /\ Locals /\ RowsTyped /\ Flag
  BY TypeParts DEF TInv
<1>1. UNCHANGED <<unsent, sending, events, sent, moved, judged>>
  BY DEF LoadPlayer, CheckPlayer, InsertPlayer, RemovePlayer, history
<1>2. Flag'
  BY <1>0 DEF Flag, LoadPlayer, CheckPlayer, InsertPlayer, RemovePlayer, db
<1>j. ASSUME at[c] \in {"player", "check", "insert"}
      PROVE  /\ ev[c] \in Requests /\ ev[c] \in Event /\ ev[c].kind = "join"
             /\ ev[c].player \in Players
             /\ \A stage \in {"check", "insert", "rank"} :
                    stage \in Stages /\ Local(stage, ev[c], verdict[c])
  <2>1. ev[c] \in Requests /\ ev[c].kind = "join"
    BY <1>0, <1>j DEF Locals, Local
  <2>2. QED
    BY <2>1, EventFacts DEF Local, Stages
<1>3. CASE LoadPlayer(c)
  <2>1. at[c] = "player" /\ UNCHANGED rows /\ (Continue(c, "check") \/ Return(c))
    BY <1>3 DEF LoadPlayer, db
  <2>2. ConsumerTyped' /\ Locals'
    BY <1>j, <2>1, ContinueTyped, ReturnTyped
  <2>3. QED
    BY <1>0, <1>1, <1>2, <2>1, <2>2, RowStepTyped DEF RowsTyped
<1>4. CASE CheckPlayer(c)
  <2>1. at[c] = "check" /\ UNCHANGED rows /\ (Continue(c, "rank") \/ Continue(c, "insert"))
    BY <1>4 DEF CheckPlayer, db
  <2>2. ConsumerTyped' /\ Locals'
    BY <1>j, <2>1, ContinueTyped
  <2>3. QED
    BY <1>0, <1>1, <1>2, <2>1, <2>2, RowStepTyped DEF RowsTyped
<1>5. CASE InsertPlayer(c)
  <2>1. at[c] = "insert" /\ (Continue(c, "rank") \/ Return(c))
        /\ (UNCHANGED rows \/ rows' = [rows EXCEPT ![ev[c].player] = NewRow])
    BY <1>5 DEF InsertPlayer
  <2>2. ConsumerTyped' /\ Locals'
    BY <1>j, <2>1, ContinueTyped, ReturnTyped
  <2>3. RowsTyped'
    BY <1>0, <1>j, <2>1 DEF RowsTyped, NewRow, Row
  <2>4. QED
    BY <1>1, <1>2, <2>2, <2>3, RowStepTyped
<1>6. CASE RemovePlayer(c)
  <2>1. at[c] = "remove" /\ Continue(c, "rank")
        /\ (UNCHANGED rows \/ rows' = [rows EXCEPT ![ev[c].player] = None])
    BY <1>6 DEF RemovePlayer
  <2>2. ev[c] \in Event /\ ev[c] # None /\ ev[c].kind = "left"
    BY <1>0, <2>1, EventFacts DEF Locals, Local
  <2>3. "rank" \in Stages /\ Local("rank", ev[c], verdict[c])
    BY <2>2 DEF Local, Stages
  <2>4. ConsumerTyped' /\ Locals'
    BY <2>1, <2>3, ContinueTyped
  <2>5. RowsTyped'
    BY <1>0, <2>1 DEF RowsTyped
  <2>6. QED
    BY <1>1, <1>2, <2>4, <2>5, RowStepTyped
<1>7. QED
  BY <1>3, <1>4, <1>5, <1>6

\* A broadcast or message about the event that is processed.
LEMMA DispatchTyped ==
    ASSUME TInv, NEW c \in Consumers, ev[c] \in Event, NEW n \in Notices, Dispatch(c, n),
           UNCHANGED <<unsent, sending, events, moved, judged>>, Return(c), RowsTyped', Flag'
    PROVE  TInv'
<1>1. ChannelTyped /\ RecordTyped
  BY TypeParts DEF TInv
<1>2. ChannelTyped' /\ RecordTyped'
  BY <1>1 DEF ChannelTyped, RecordTyped, Dispatch
<1>3. QED
  BY <1>2, ReturnTyped, TypePartsNext DEF TInv

LEMMA RankDeleteDeliverTyped ==
    ASSUME TInv, NEW c \in Consumers, Rank(c) \/ DeleteRoom(c) \/ Deliver(c)
    PROVE  TInv'
<1>0. ConsumerTyped /\ Locals /\ RowsTyped /\ Flag
  BY TypeParts DEF TInv
<1>1. UNCHANGED <<unsent, sending, events, moved, judged>> /\ Return(c)
  BY DEF Rank, DeleteRoom, Deliver, history
<1>2. Flag'
  BY <1>0 DEF Flag, Rank, DeleteRoom, Deliver, db
<1>3. ev[c] \in Event
  BY <1>0, EventFacts DEF Locals, Local, Rank, DeleteRoom, Deliver
<1>4. RowsTyped'
  <2>1. rows' = rows \/ rows' = Ranked
    BY DEF Rank, DeleteRoom, Deliver, db, Ranked
  <2>2. QED
    BY <1>0, <2>1, RankedTyped DEF RowsTyped
<1>5. PICK n \in Notices : Dispatch(c, n)
  <2>1. CASE Rank(c)
    <3>1. ev[c].kind \in {"join", "left", "result"}
      BY <1>0, <2>1 DEF Locals, Local, Rank
    <3>2. QED
      BY <2>1, <3>1 DEF Rank, Notices
  <2>2. CASE DeleteRoom(c) \/ Deliver(c)
    BY <2>2 DEF DeleteRoom, Deliver, Notices
  <2>3. QED
    BY <2>1, <2>2
<1>6. QED
  BY <1>1, <1>2, <1>3, <1>4, <1>5, DispatchTyped

LEMMA JudgeTyped ==
    ASSUME TInv, NEW c \in Consumers, Lookup(c) \/ Judge(c) \/ Accept(c) \/ AddScore(c)
    PROVE  TInv'
<1>0. ConsumerTyped /\ Locals /\ RowsTyped /\ Flag
  BY TypeParts DEF TInv
<1>1. UNCHANGED <<unsent, sending, events, sent, moved, judged>>
  BY DEF Lookup, Judge, Accept, AddScore, history
<1>2. Flag'
  BY <1>0 DEF Flag, Lookup, Judge, Accept, AddScore, db
<1>s. ASSUME at[c] \in {"lookup", "judge"}
      PROVE  /\ ev[c] \in Requests /\ ev[c] # None /\ ev[c].kind = "submit"
             /\ Local("judge", ev[c], verdict[c]) /\ Local("hung", ev[c], verdict[c])
  <2>1. ev[c] \in Requests /\ ev[c].kind = "submit"
    BY <1>0, <1>s DEF Locals, Local
  <2>2. QED
    BY <2>1, EventFacts DEF Local
<1>t. Tests \in Nat /\ test[c] \in 0 .. Tests + 1
  BY <1>0, RoomAssumption DEF ConsumerTyped, RoomAssumption
<1>c. ASSUME NEW s \in Statuses, NEW y \in AllJobAnswers, at[c] = "judge", Conclude(c, s, y)
      PROVE  ConsumerTyped' /\ Locals'
  <2>1. Verdict(ev[c], s, y) \in Results /\ Verdict(ev[c], s, y).id = ev[c].id
    BY <1>s, <1>c, EventFacts
  <2>2. Local("post", ev[c], Verdict(ev[c], s, y)) /\ "post" \in Stages
    BY <1>s, <1>c, <2>1 DEF Local, Stages
  <2>3. QED
    BY <1>0, <1>c, <2>1, <2>2 DEF ConsumerTyped, Locals, Conclude, Goto
<1>3. CASE Lookup(c)
  <2>1. at[c] = "lookup" /\ UNCHANGED rows
    BY <1>3 DEF Lookup, db
  <2>2. Return(c) \/ (/\ at' = [at EXCEPT ![c] = "judge"] /\ test' = [test EXCEPT ![c] = 1]
                      /\ UNCHANGED <<ev, verdict>>)
    BY <1>3 DEF Lookup, Goto
  <2>3. ConsumerTyped' /\ Locals'
    <3>1. CASE Return(c)
      BY <3>1, ReturnTyped
    <3>2. CASE /\ at' = [at EXCEPT ![c] = "judge"] /\ test' = [test EXCEPT ![c] = 1]
               /\ UNCHANGED <<ev, verdict>>
      BY <1>0, <1>s, <1>t, <2>1, <3>2 DEF ConsumerTyped, Locals, Stages
    <3>3. QED
      BY <2>2, <3>1, <3>2
  <2>4. QED
    BY <1>0, <1>1, <1>2, <2>1, <2>3, RowStepTyped DEF RowsTyped
<1>4. CASE Judge(c)
  <2>1. at[c] = "judge" /\ test[c] <= Tests /\ UNCHANGED rows
    BY <1>4 DEF Judge, db
  <2>2. \/ test' = [test EXCEPT ![c] = @ + 1] /\ UNCHANGED <<at, ev, verdict>>
        \/ \E s \in Statuses, y \in AllJobAnswers : Conclude(c, s, y)
        \/ Continue(c, "hung")
    BY <1>4, RoomAssumption DEF Judge, Statuses, RoomAssumption
  <2>3. CASE test' = [test EXCEPT ![c] = @ + 1] /\ UNCHANGED <<at, ev, verdict>>
    <3>1. ConsumerTyped'
      BY <1>0, <1>t, <2>1, <2>3 DEF ConsumerTyped
    <3>2. Locals'
      BY <1>0, <2>3 DEF Locals
    <3>3. QED
      BY <1>0, <1>1, <1>2, <2>1, <3>1, <3>2, RowStepTyped DEF RowsTyped
  <2>4. CASE \E s \in Statuses, y \in AllJobAnswers : Conclude(c, s, y)
    BY <1>0, <1>1, <1>2, <1>c, <2>1, <2>4, RowStepTyped DEF RowsTyped
  <2>5. CASE Continue(c, "hung")
    <3>1. ConsumerTyped' /\ Locals'
      BY <1>s, <2>1, <2>5, ContinueTyped DEF Stages
    <3>2. QED
      BY <1>0, <1>1, <1>2, <2>1, <3>1, RowStepTyped DEF RowsTyped
  <2>6. QED
    BY <2>2, <2>3, <2>4, <2>5
<1>5. CASE Accept(c)
  <2>1. at[c] = "judge" /\ UNCHANGED rows /\ Conclude(c, "Accepted", "match")
    BY <1>5 DEF Accept, db
  <2>2. "Accepted" \in Statuses /\ "match" \in AllJobAnswers
    BY DEF Statuses, AllJobAnswers
  <2>3. QED
    BY <1>0, <1>1, <1>2, <1>c, <2>1, <2>2, RowStepTyped DEF RowsTyped
<1>6. CASE AddScore(c)
  <2>1. at[c] = "score" /\ Continue(c, "rank")
    BY <1>6 DEF AddScore
  <2>2. ev[c] \in Results
    BY <1>0, <2>1 DEF Locals, Local
  <2>3. ev[c] \in Event /\ ev[c] # None /\ ev[c].kind = "result"
    BY <2>2, EventFacts
  <2>4. Local("rank", ev[c], verdict[c]) /\ "rank" \in Stages
    BY <2>3 DEF Local, Stages
  <2>5. ConsumerTyped' /\ Locals'
    BY <2>1, <2>4, ContinueTyped
  <2>6. RowsTyped'
    <3>1. UNCHANGED rows \/ (/\ ev[c].player \in Members
                             /\ rows' = [rows EXCEPT ![ev[c].player].score = SqlAdd(@, ScoreToAdd)])
      BY <1>6 DEF AddScore
    <3>2. \A x : SqlAdd(x, ScoreToAdd) = -1
      BY DEF SqlAdd, ScoreToAdd, Null
    <3>3. QED
      BY <1>0, <3>1, <3>2 DEF RowsTyped, Members, Row
  <2>7. QED
    BY <1>1, <1>2, <2>5, <2>6, RowStepTyped
<1>7. QED
  BY <1>3, <1>4, <1>5, <1>6

LEMMA PostTyped ==
    ASSUME TInv, NEW c \in Consumers, Post(c)
    PROVE  TInv'
<1>0. ConsumerTyped /\ Locals /\ ChannelTyped /\ RowsTyped /\ RecordTyped /\ Flag
  BY TypeParts DEF TInv
<1>1. verdict[c] \in Event
  BY <1>0, EventFacts DEF Locals, Local, Post
<1>2. Append(events, verdict[c]) \in Seq(Event) /\ Len(events) \in Nat
      /\ Len(Append(events, verdict[c])) = Len(events) + 1
  BY <1>0, <1>1, AppendEvent DEF ChannelTyped
<1>3. ChannelTyped'
  BY <1>0, <1>2, RoomAssumption DEF ChannelTyped, Post, RoomAssumption
<1>4. RowsTyped' /\ RecordTyped'
  BY <1>0 DEF RowsTyped, RecordTyped, Post, db, history
<1>5. Flag'
  BY <1>0 DEF Flag, Post, db
<1>6. ConsumerTyped' /\ Locals'
  BY ReturnTyped DEF Post
<1>7. QED
  BY <1>3, <1>4, <1>5, <1>6, TypePartsNext DEF TInv

LEMMA TInvStep == TInv /\ [LooseNext]_vars => TInv'
<1> SUFFICES ASSUME TInv, [LooseNext]_vars PROVE TInv'
  OBVIOUS
<1>1. CASE UNCHANGED vars
  <2>1. ConsumerTyped /\ Locals /\ ChannelTyped /\ RowsTyped /\ RecordTyped /\ Flag
    BY TypeParts DEF TInv
  <2>2. UNCHANGED <<at, ev, test, verdict, unsent, sending, events, rows, sent, moved, judged>>
    BY <1>1 DEF vars
  <2>3. ConsumerTyped' /\ Locals' /\ ChannelTyped' /\ RowsTyped' /\ RecordTyped'
    BY <2>1, <2>2 DEF ConsumerTyped, Locals, ChannelTyped, RowsTyped, RecordTyped
  <2>4. Flag'
    BY <1>1, <2>1 DEF vars, Flag
  <2>5. QED
    BY <2>3, <2>4, TypePartsNext DEF TInv
<1>2. ASSUME NEW c \in Consumers, ConsumerStep(c) PROVE TInv'
  BY <1>2, RecvTyped, JoinLeaveTyped, RankDeleteDeliverTyped, JudgeTyped, PostTyped
     DEF ConsumerStep
<1>3. QED
  BY <1>1, <1>2, ClientStepTyped DEF LooseNext

LEMMA TInvAlways == LooseSpec => []TInv
  BY TInvInit, TInvStep, PTL DEF LooseSpec

\* The channel, the Start goroutines and the rows have the declared types, and the
\* channel never holds more than its capacity.
THEOREM TypeCorrect == Spec => []TypeOK
<1>1. TInv => TypeOK
  BY DEF TInv
<1>2. QED
  BY <1>1, TInvAlways, Loosen, PTL

-------------------------------------------------------------------------------
(* Members and their rows: what the steps do to them. *)

\* Only three actions change who is a member, one each way and one not at all.
LEMMA MembersStep ==
    ASSUME TInv, [LooseNext]_vars
    PROVE  \/ UNCHANGED Members
           \/ \E c \in Consumers : /\ at[c] = "insert" /\ roomRow /\ InsertPlayer(c)
                                   /\ Members' = Members \cup {ev[c].player} /\ at'[c] = "rank"
           \/ \E c \in Consumers : /\ at[c] = "remove" /\ RemovePlayer(c)
                                   /\ Members' = Members \ {ev[c].player}
<1>0. RowsTyped
  BY TypeParts DEF TInv
<1>t. ConsumerTyped /\ Locals
  BY TypeParts DEF TInv
<1>n. NewRow # None
  BY RoomAssumption DEF RoomAssumption, NewRow
<1>1. CASE UNCHANGED rows
  BY <1>1 DEF Members
<1>2. ASSUME NEW c \in Consumers, InsertPlayer(c), ~UNCHANGED rows
      PROVE  /\ at[c] = "insert" /\ roomRow /\ at'[c] = "rank"
             /\ Members' = Members \cup {ev[c].player}
  <2>1. /\ at[c] = "insert" /\ roomRow /\ rows' = [rows EXCEPT ![ev[c].player] = NewRow]
        /\ at' = [at EXCEPT ![c] = "rank"]
    BY <1>2 DEF InsertPlayer, Continue, Goto
  <2>2. ev[c].player \in Players
    BY <1>t, <2>1, EventFacts DEF Locals, Local
  <2>3. QED
    BY <1>0, <1>t, <1>n, <2>1, <2>2 DEF RowsTyped, Members, ConsumerTyped
<1>3. ASSUME NEW c \in Consumers, RemovePlayer(c), ~UNCHANGED rows
      PROVE  at[c] = "remove" /\ Members' = Members \ {ev[c].player}
  <2>1. at[c] = "remove" /\ rows' = [rows EXCEPT ![ev[c].player] = None]
    BY <1>3 DEF RemovePlayer
  <2>2. QED
    BY <1>0, <2>1 DEF RowsTyped, Members
<1>4. ASSUME NEW c \in Consumers, Rank(c), ~UNCHANGED rows PROVE UNCHANGED Members
  <2>1. rows' = Ranked
    BY <1>4 DEF Rank, Ranked
  <2>2. QED
    BY <1>0, <2>1, RankedTyped DEF Members
<1>5. ASSUME NEW c \in Consumers, AddScore(c), ~UNCHANGED rows PROVE UNCHANGED Members
  <2>1. /\ ev[c].player \in Members
        /\ rows' = [rows EXCEPT ![ev[c].player].score = SqlAdd(@, ScoreToAdd)]
    BY <1>5 DEF AddScore
  <2>2. \A x : SqlAdd(x, ScoreToAdd) = -1
    BY DEF SqlAdd, ScoreToAdd, Null
  <2>3. rows' \in [Players -> Row \cup {None}] /\ rows'[ev[c].player] # None
        /\ \A p \in Players : p # ev[c].player => rows'[p] = rows[p]
    BY <1>0, <2>1, <2>2, RoomAssumption DEF RowsTyped, Members, Row, RoomAssumption
  <2>4. QED
    BY <2>1, <2>3 DEF Members
<1>6. UNCHANGED rows \/ \E c \in Consumers : InsertPlayer(c) \/ RemovePlayer(c) \/ Rank(c) \/ AddScore(c)
  BY DEF LooseNext, ConsumerStep, Ask, Spawn, Send, Recv, LoadPlayer, CheckPlayer, DeleteRoom, Lookup,
         Judge, Accept, Post, Deliver, db, vars
<1>7. QED
  BY <1>1, <1>2, <1>3, <1>4, <1>5, <1>6

\* The row of the room goes with DeleteRoom only, and only from a room without members.
LEMMA RoomRowStep ==
    ASSUME TInv, [LooseNext]_vars
    PROVE  \/ UNCHANGED roomRow
           \/ Members = {} /\ ~roomRow' /\ UNCHANGED rows
<1>1. ASSUME NEW c \in Consumers, DeleteRoom(c)
      PROVE  UNCHANGED roomRow \/ (Members = {} /\ ~roomRow' /\ UNCHANGED rows)
  <2>1. PICK ok \in MaySucceed : roomRow' = (roomRow /\ ~(ok /\ Members = {}))
    BY <1>1 DEF DeleteRoom
  <2>2. UNCHANGED rows
    BY <1>1 DEF DeleteRoom
  <2>3. roomRow \in BOOLEAN
    BY DEF TInv, TypeOK
  <2>4. CASE ok /\ Members = {}
    BY <2>1, <2>2, <2>4
  <2>5. CASE ~(ok /\ Members = {})
    BY <2>1, <2>3, <2>5
  <2>6. QED
    BY <2>4, <2>5
<1>2. UNCHANGED roomRow \/ \E c \in Consumers : DeleteRoom(c)
  BY DEF LooseNext, ConsumerStep, Ask, Spawn, Send, Recv, LoadPlayer, CheckPlayer, InsertPlayer,
         RemovePlayer, Rank, Lookup, Judge, Accept, Post, Deliver, AddScore, db, vars
<1>3. QED
  BY <1>1, <1>2

LEMMA OccupiedStaysLoosely == LooseSpec => []OccupiedRoomStays
<1>1. Init => OccupiedRoomStays
  BY DEF Init, OccupiedRoomStays, Members
<1>2. TInv /\ OccupiedRoomStays /\ [LooseNext]_vars => OccupiedRoomStays'
  <2> SUFFICES ASSUME TInv, OccupiedRoomStays, [LooseNext]_vars, Members' # {} PROVE roomRow'
    BY DEF OccupiedRoomStays
  <2>1. CASE Members = {} /\ ~roomRow' /\ UNCHANGED rows
    BY <2>1 DEF Members
  <2>2. CASE UNCHANGED roomRow
    <3>1. Members # {} => roomRow
      BY DEF OccupiedRoomStays
    <3>2. roomRow
      BY <3>1, MembersStep
    <3>3. QED
      BY <2>2, <3>2
  <2>3. QED
    BY <2>1, <2>2, RoomRowStep
<1>3. QED
  BY <1>1, <1>2, TInvAlways, PTL DEF LooseSpec

\* A room with members keeps its row, whatever Start goroutines, deletions, joins and
\* failures of statements there are.
THEOREM OccupiedStays == Spec => []OccupiedRoomStays
  BY OccupiedStaysLoosely, Loosen, PTL

-------------------------------------------------------------------------------
(* The leaderboard, with any number of Start goroutines, when no statement     *)
(* fails: whoever changes a score or the set of members is at "rank" until the *)
(* places are computed anew.                                                   *)

RankComing == \E c \in Consumers : at[c] = "rank"

LEMMA OthersStay ==
    ASSUME TInv, NEW c \in Consumers, ConsumerStep(c)
    PROVE  \A d \in Consumers : d # c => at'[d] = at[d] /\ ev'[d] = ev[d]
  BY TypeParts DEF TInv, ConsumerTyped, ConsumerStep, Recv, LoadPlayer, CheckPlayer, InsertPlayer,
       RemovePlayer, Rank, DeleteRoom, Lookup, Judge, Accept, Post, Deliver, AddScore, Return,
       Continue, Conclude, Goto

LEMMA FreshStep ==
    ASSUME TInv, LeaderboardFresh, [LooseNext]_vars, DbFaults = FALSE
    PROVE  LeaderboardFresh'
<1>0. RowsTyped /\ ConsumerTyped
  BY TypeParts DEF TInv
<1>m. MaySucceed = {TRUE}
  BY DEF MaySucceed
<1> DEFINE Places == \A p \in Members : rows[p].place = RankOf(p)
<1> SUFFICES ASSUME LeaderboardTold' PROVE RankComing' \/ Places'
  BY DEF LeaderboardFresh, RankComing
<1>p. ASSUME LeaderboardTold PROVE RankComing \/ Places
  BY <1>p DEF LeaderboardFresh, RankComing
<1>t. LeaderboardTold \/ \E c \in Consumers : Rank(c)
  <2>1. UNCHANGED sent \/ \E c \in Consumers : Rank(c) \/ DeleteRoom(c) \/ Deliver(c)
    BY DEF LooseNext, ConsumerStep, Ask, Spawn, Send, Recv, LoadPlayer, CheckPlayer, InsertPlayer,
           RemovePlayer, Lookup, Judge, Accept, Post, AddScore, vars
  <2>2. ASSUME NEW c \in Consumers, DeleteRoom(c) \/ Deliver(c) PROVE LeaderboardTold
    <3>1. \A n \in sent' \ sent : n.notice \in {"ROOM_DELETED", "WRONG"}
      BY <2>2 DEF DeleteRoom, Deliver, Dispatch
    <3>2. QED
      BY <3>1 DEF LeaderboardTold
  <2>3. QED
    BY <2>1, <2>2 DEF LeaderboardTold
<1>1. ASSUME LeaderboardTold, UNCHANGED rows, RankComing => RankComing' PROVE RankComing' \/ Places'
  <2>1. Places' <=> Places
    BY <1>1 DEF Members, RankOf
  <2>2. QED
    BY <1>1, <1>p, <2>1
<1>2. ASSUME LeaderboardTold, NEW e \in Requests, Ask(e) \/ Send(e) PROVE RankComing' \/ Places'
  <2>1. UNCHANGED rows /\ UNCHANGED at
    BY <1>2 DEF Ask, Spawn, Send, db
  <2>2. QED
    BY <1>1, <1>2, <2>1 DEF RankComing
<1>3. ASSUME NEW c \in Consumers, ConsumerStep(c), at[c] # "rank", at'[c] = "rank"
      PROVE  RankComing'
  BY <1>3 DEF RankComing
<1>4. ASSUME LeaderboardTold, NEW c \in Consumers, ConsumerStep(c), at[c] # "rank", UNCHANGED rows
      PROVE  RankComing' \/ Places'
  <2>1. RankComing => RankComing'
    BY <1>4, OthersStay DEF RankComing
  <2>2. QED
    BY <1>1, <1>4, <2>1
<1>5. ASSUME NEW c \in Consumers, Rank(c) PROVE Places'
  <2>1. rows' = Ranked
    BY <1>5, <1>m DEF Rank, Ranked
  <2>2. UNCHANGED Members
    BY <1>0, <2>1, RankedTyped DEF Members
  <2>3. \A p \in Members : rows'[p].score = rows[p].score /\ rows'[p].place = RankOf(p)
    BY <1>0, <2>1, RankedTyped
  <2>4. \A p \in Members : {q \in Members : Before(rows'[q].score, rows'[p].score)}
                         = {q \in Members : Before(rows[q].score, rows[p].score)}
    BY <2>3
  <2>5. \A p \in Members : RankOf(p)' = RankOf(p)
    BY <2>2, <2>4 DEF RankOf
  <2>6. QED
    BY <2>2, <2>3, <2>5
<1>6. ASSUME NEW c \in Consumers, ConsumerStep(c), ~Rank(c)
      PROVE  at[c] # "rank" /\ (UNCHANGED rows \/ at'[c] = "rank")
  <2>1. at[c] # "rank"
    BY <1>6 DEF ConsumerStep, Recv, LoadPlayer, CheckPlayer, InsertPlayer, RemovePlayer,
       DeleteRoom, Lookup, Judge, Accept, Post, Deliver, AddScore
  <2>2. UNCHANGED rows \/ InsertPlayer(c) \/ RemovePlayer(c) \/ AddScore(c)
    BY <1>6 DEF ConsumerStep, Recv, LoadPlayer, CheckPlayer, DeleteRoom, Lookup, Judge, Accept,
       Post, Deliver, db
  <2>3. InsertPlayer(c) \/ RemovePlayer(c) \/ AddScore(c) => UNCHANGED rows \/ at'[c] = "rank"
    BY <1>0 DEF InsertPlayer, RemovePlayer, AddScore, Continue, Goto, ConsumerTyped
  <2>4. QED
    BY <2>1, <2>2, <2>3
<1>7. ASSUME LeaderboardTold, NEW c \in Consumers, ConsumerStep(c) PROVE RankComing' \/ Places'
  BY <1>3, <1>4, <1>5, <1>6, <1>7
<1>8. ASSUME LeaderboardTold, UNCHANGED vars PROVE RankComing' \/ Places'
  <2>1. UNCHANGED rows /\ UNCHANGED at
    BY <1>8 DEF vars
  <2>2. QED
    BY <1>1, <1>8, <2>1 DEF RankComing
<1>9. QED
  BY <1>t, <1>2, <1>5, <1>7, <1>8 DEF LooseNext

LEMMA FreshLoosely == ASSUME DbFaults = FALSE PROVE LooseSpec => []LeaderboardFresh
<1>1. Init => LeaderboardFresh
  BY DEF Init, LeaderboardFresh, LeaderboardTold
<1>2. TInv /\ LeaderboardFresh /\ [LooseNext]_vars => LeaderboardFresh'
  BY FreshStep
<1>3. QED
  BY <1>1, <1>2, TInvAlways, PTL DEF LooseSpec

\* Whatever two Start goroutines or more do to each other's statements, and whatever places
\* an earlier life left, from the first ranking on the places are the ranks of the scores,
\* or some goroutine is about to compute them.
THEOREM Fresh == ASSUME DbFaults = FALSE PROVE Spec => []LeaderboardFresh
  BY FreshLoosely, Loosen, PTL

-------------------------------------------------------------------------------
(* One Start goroutine: what it is about to do explains the difference between *)
(* the events received and the rows.                                           *)

AtJoin(c, p) == at[c] \in {"player", "check", "insert"} /\ ev[c].player = p
AtLeave(c, p) == at[c] = "remove" /\ ev[c].player = p

MembersInv(c) ==
    /\ \A p \in Players : AtJoin(c, p) => moved[p] = "join"
    /\ \A p \in Players : AtJoin(c, p) /\ at[c] # "player" => p \in Registered
    /\ \A p \in Players : AtLeave(c, p) => moved[p] = "left"
    /\ \A p \in Members : p \in Registered /\ (moved[p] = "join" \/ AtLeave(c, p))
    /\ roomRow => \A p \in Registered : moved[p] = "join" => p \in Members \/ AtJoin(c, p)

JoinedIn(c) == at[c] = "rank" /\ ev[c].kind = "join" => ev[c].player \in Members

LEMMA JoinedInStep ==
    ASSUME NEW c, Consumers = {c}, TInv, JoinedIn(c), [LooseNext]_vars
    PROVE  JoinedIn(c)'
<1> SUFFICES ASSUME at'[c] = "rank", ev'[c].kind = "join" PROVE ev'[c].player \in Members'
  BY DEF JoinedIn
<1>0. RowsTyped /\ ConsumerTyped /\ Locals
  BY TypeParts DEF TInv
<1>1. CASE UNCHANGED <<at, ev, rows>>
  BY <1>1 DEF JoinedIn, Members
<1>2. CASE CheckPlayer(c)
  <2>1. UNCHANGED rows /\ ev' = ev /\ ev[c].player \in Members
    BY <1>0, <1>2 DEF CheckPlayer, Continue, Goto, db, ConsumerTyped
  <2>2. QED
    BY <2>1 DEF Members
<1>3. CASE InsertPlayer(c)
  <2>1. /\ rows' = [rows EXCEPT ![ev[c].player] = NewRow] /\ ev' = ev /\ at[c] = "insert"
    BY <1>0, <1>3 DEF InsertPlayer, Return, Continue, Goto, ConsumerTyped
  <2>2. ev[c].player \in Players /\ NewRow # None
    BY <1>0, <2>1, EventFacts, RoomAssumption DEF Locals, Local, RoomAssumption, NewRow
  <2>3. QED
    BY <1>0, <2>1, <2>2 DEF Members, RowsTyped
<1>4. CASE RemovePlayer(c) \/ AddScore(c)
  <2>1. ev'[c] = ev[c] /\ at[c] \in {"remove", "score"}
    BY <1>4 DEF RemovePlayer, AddScore, Continue
  <2>2. ev[c].kind # "join"
    BY <1>0, <2>1, EventFacts DEF Locals, Local
  <2>3. QED
    BY <2>1, <2>2
<1>5. ASSUME Return(c) PROVE FALSE
  BY <1>0, <1>5 DEF Return, Goto, ConsumerTyped
<1>6. CASE Recv(c)
  <2>1. at'[c] = FirstStage(Head(events)) /\ Head(events) \in Event
    BY <1>0, <1>6, PopEvent DEF Recv, Goto, ConsumerTyped, TInv, TypeOK
  <2>2. QED
    BY <2>1, EventKinds DEF FirstStage, Kinds
<1>7. CASE LoadPlayer(c) \/ Lookup(c) \/ Judge(c) \/ Accept(c)
  <2>1. at'[c] # "rank" \/ UNCHANGED <<at, ev, rows>>
    BY <1>0, <1>5, <1>7 DEF LoadPlayer, Lookup, Judge, Accept, Continue, Conclude, Goto,
                            ConsumerTyped, db
  <2>2. QED
    BY <1>1, <2>1
<1>8. CASE Rank(c) \/ DeleteRoom(c) \/ Post(c) \/ Deliver(c)
  BY <1>5, <1>8 DEF Rank, DeleteRoom, Post, Deliver
<1>9. CASE UNCHANGED vars \/ \E e \in Requests : Ask(e) \/ Send(e)
  <2>1. UNCHANGED <<at, ev, rows>>
    BY <1>9 DEF vars, Ask, Spawn, Send, db
  <2>2. QED
    BY <1>1, <2>1
<1>10. QED
  BY <1>2, <1>3, <1>4, <1>6, <1>7, <1>8, <1>9 DEF LooseNext, ConsumerStep

LEMMA AnnouncedInLoosely ==
    ASSUME NEW c, Consumers = {c}
    PROVE  LooseSpec => []AnnouncedAreMembers
<1>1. Init => JoinedIn(c)
  BY DEF Init, JoinedIn
<1>2. TInv /\ JoinedIn(c) /\ [LooseNext]_vars => JoinedIn(c)'
  BY JoinedInStep
<1>3. JoinedIn(c) => AnnouncedAreMembers
  BY DEF JoinedIn, AnnouncedAreMembers
<1>4. QED
  BY <1>1, <1>2, <1>3, TInvAlways, PTL DEF LooseSpec

\* With one Start goroutine a player whose arrival is about to be announced has a row,
\* even when statements fail.
THEOREM AnnouncedIn ==
    ASSUME NEW c, Consumers = {c}
    PROVE  Spec => []AnnouncedAreMembers
  BY AnnouncedInLoosely, Loosen, PTL

LEMMA MembersInvRecv ==
    ASSUME NEW c \in Consumers, TInv, MembersInv(c), Recv(c)
    PROVE  MembersInv(c)'
<1>0. ConsumerTyped /\ Locals /\ RecordTyped
  BY TypeParts DEF TInv
<1> DEFINE e == Head(events)
<1>1. e \in Event
  BY PopEvent DEF TInv, TypeOK, Recv
<1>2. /\ at[c] = "recv" /\ ev'[c] = e /\ at'[c] = FirstStage(e) /\ Record(e)
      /\ UNCHANGED rows
  BY <1>0 DEF Recv, Goto, ConsumerTyped, db
<1>3. UNCHANGED roomRow
  BY DEF Recv, db
<1> HIDE DEF e
<1>4. e.kind \in {"join", "left", "submit", "delete", "result"} /\ e.player \in Players
  BY <1>1, EventKinds DEF Kinds
<1>5. Members' = Members
  BY <1>2 DEF Members
<1>6. \A p \in Players : ~AtJoin(c, p) /\ ~AtLeave(c, p)
  BY <1>2 DEF AtJoin, AtLeave
<1>7. \A p \in Players : /\ AtJoin(c, p)' <=> e.kind = "join" /\ e.player = p
                         /\ AtLeave(c, p)' <=> e.kind = "left" /\ e.player = p
                         /\ AtJoin(c, p)' => at'[c] = "player"
  BY <1>2, <1>4 DEF FirstStage, AtJoin, AtLeave
<1>8. \A p \in Players : moved'[p] = IF e.kind \in {"join", "left"} /\ e.player = p
                                     THEN e.kind ELSE moved[p]
  BY <1>0, <1>2, <1>4 DEF Record, RecordTyped
<1>9. Members \subseteq Players /\ Registered \subseteq Players
  BY RoomAssumption DEF RoomAssumption, Members
<1>10. /\ \A p \in Players : AtJoin(c, p)' => moved'[p] = "join"
       /\ \A p \in Players : AtJoin(c, p)' /\ at'[c] # "player" => p \in Registered
       /\ \A p \in Players : AtLeave(c, p)' => moved'[p] = "left"
       /\ \A p \in Members : p \in Registered /\ (moved'[p] = "join" \/ AtLeave(c, p)')
  BY <1>4, <1>6, <1>7, <1>8, <1>9 DEF MembersInv
<1>11. ASSUME roomRow, NEW p \in Registered, moved'[p] = "join"
       PROVE  p \in Members \/ AtJoin(c, p)'
  <2>1. p \in Players
    BY <1>9
  <2>2. moved[p] = "join" => p \in Members
    BY <1>6, <1>11, <2>1 DEF MembersInv
  <2>3. QED
    BY <1>4, <1>7, <1>8, <1>11, <2>1, <2>2
<1>12. QED
  BY <1>3, <1>5, <1>10, <1>11 DEF MembersInv

\* A step that changes neither the record nor the members, and leaves no join or leave
\* unfinished that matters.
LEMMA MembersInvKept ==
    ASSUME NEW c \in Consumers, MembersInv(c), UNCHANGED moved, UNCHANGED Members, UNCHANGED roomRow,
           \A p \in Players :
               /\ AtJoin(c, p)' => AtJoin(c, p) /\ (at'[c] = "player" \/ p \in Registered)
               /\ AtLeave(c, p)' <=> AtLeave(c, p)
               /\ AtJoin(c, p) /\ p \in Registered /\ roomRow => p \in Members \/ AtJoin(c, p)'
    PROVE  MembersInv(c)'
<1>1. Members \subseteq Players /\ Registered \subseteq Players
  BY RoomAssumption DEF RoomAssumption, Members
<1>2. /\ \A p \in Players : AtJoin(c, p)' => moved'[p] = "join"
      /\ \A p \in Players : AtJoin(c, p)' /\ at'[c] # "player" => p \in Registered
      /\ \A p \in Players : AtLeave(c, p)' => moved'[p] = "left"
      /\ \A p \in Members' : p \in Registered /\ (moved'[p] = "join" \/ AtLeave(c, p)')
  BY <1>1 DEF MembersInv
<1>3. roomRow' => \A p \in Registered : moved'[p] = "join" => p \in Members' \/ AtJoin(c, p)'
  BY <1>1 DEF MembersInv
<1>4. QED
  BY <1>2, <1>3 DEF MembersInv

LEMMA MembersInvStep ==
    ASSUME NEW c, Consumers = {c}, DbFaults = FALSE, TInv, MembersInv(c), [LooseNext]_vars
    PROVE  MembersInv(c)'
<1>0. RowsTyped /\ ConsumerTyped /\ Locals
  BY TypeParts DEF TInv
<1>c. c \in Consumers
  OBVIOUS
<1>m. MaySucceed = {TRUE}
  BY DEF MaySucceed
<1>r. Members \subseteq Players /\ Registered \subseteq Players
  BY RoomAssumption DEF RoomAssumption, Members
<1>1. CASE UNCHANGED <<at, ev, rows, moved>> /\ UNCHANGED roomRow
  <2>1. UNCHANGED Members /\ \A p \in Players : /\ AtJoin(c, p)' <=> AtJoin(c, p)
                                                /\ AtLeave(c, p)' <=> AtLeave(c, p)
    BY <1>1 DEF Members, AtJoin, AtLeave
  <2>2. \A p \in Players : AtJoin(c, p)' => at'[c] = "player" \/ p \in Registered
    BY <1>1, <2>1 DEF MembersInv
  <2>3. QED
    BY <1>c, <1>1, <2>1, <2>2, MembersInvKept
<1>2. CASE UNCHANGED vars \/ \E e \in Requests : Ask(e) \/ Send(e)
  <2>1. UNCHANGED <<at, ev, rows, moved>> /\ UNCHANGED roomRow
    BY <1>2 DEF vars, Ask, Spawn, Send, db, history
  <2>2. QED
    BY <1>1, <2>1
<1>3. CASE Recv(c)
  BY <1>3, MembersInvRecv
<1>4. CASE LoadPlayer(c)
  <2>1. at[c] = "player" /\ UNCHANGED rows /\ UNCHANGED roomRow /\ UNCHANGED moved
    BY <1>4 DEF LoadPlayer, db, history
  <2>2. \/ ev[c].player \in Registered /\ at'[c] = "check" /\ ev'[c] = ev[c]
        \/ ev[c].player \notin Registered /\ at'[c] = "recv"
    BY <1>0, <1>4, <1>m DEF LoadPlayer, Continue, Return, Goto, ConsumerTyped
  <2>3. UNCHANGED Members
    BY <2>1 DEF Members
  <2>4. \A p \in Players : /\ AtJoin(c, p)' => AtJoin(c, p) /\ p \in Registered
                           /\ AtLeave(c, p)' <=> AtLeave(c, p)
                           /\ AtJoin(c, p) /\ p \in Registered => AtJoin(c, p)'
    BY <2>1, <2>2 DEF AtJoin, AtLeave
  <2>5. QED
    BY <1>c, <2>1, <2>3, <2>4, MembersInvKept
<1>5. CASE CheckPlayer(c)
  <2>1. at[c] = "check" /\ UNCHANGED rows /\ UNCHANGED roomRow /\ UNCHANGED moved
    BY <1>5 DEF CheckPlayer, db, history
  <2>2. /\ ev'[c] = ev[c] /\ at'[c] \in {"rank", "insert"}
        /\ at'[c] = "rank" => ev[c].player \in Members
    BY <1>0, <1>5, <1>m DEF CheckPlayer, Continue, Goto, ConsumerTyped
  <2>3. UNCHANGED Members
    BY <2>1 DEF Members
  <2>4. \A p \in Players : /\ AtJoin(c, p)' => AtJoin(c, p) /\ p \in Registered
                           /\ AtLeave(c, p)' <=> AtLeave(c, p)
                           /\ AtJoin(c, p) => p \in Members \/ AtJoin(c, p)'
    BY <2>1, <2>2 DEF AtJoin, AtLeave, MembersInv
  <2>5. QED
    BY <1>c, <2>1, <2>3, <2>4, MembersInvKept
<1>6. CASE InsertPlayer(c)
  <2> DEFINE q == ev[c].player
  <2>1. at[c] = "insert" /\ q \in Players /\ UNCHANGED moved
    BY <1>0, <1>6, EventFacts DEF InsertPlayer, Locals, Local, history
  <2>2. UNCHANGED roomRow
    BY <1>6 DEF InsertPlayer
  <2>3. at'[c] \in {"rank", "recv"}
    BY <1>0, <1>6 DEF InsertPlayer, Return, Continue, Goto, ConsumerTyped
  <2>4. \A p \in Players : /\ ~AtJoin(c, p)' /\ ~AtLeave(c, p)' /\ ~AtLeave(c, p)
                           /\ AtJoin(c, p) <=> q = p
    BY <2>1, <2>3 DEF AtJoin, AtLeave
  <2>5. CASE q \notin Members /\ roomRow
    <3>1. rows' = [rows EXCEPT ![q] = NewRow] /\ NewRow # None
      BY <1>6, <1>m, <2>5, RoomAssumption DEF InsertPlayer, NewRow, RoomAssumption
    <3>2. Members' = Members \cup {q}
      BY <1>0, <2>1, <3>1 DEF Members, RowsTyped
    <3>3. moved[q] = "join" /\ q \in Registered
      BY <2>1, <2>4 DEF MembersInv
    <3>4. \A p \in Members' : p \in Registered /\ moved'[p] = "join"
      BY <1>r, <2>1, <2>4, <3>2, <3>3 DEF MembersInv
    <3>5. \A p \in Registered : moved'[p] = "join" => p \in Members'
      BY <1>r, <2>1, <2>4, <2>5, <3>2 DEF MembersInv
    <3>6. QED
      BY <2>4, <3>4, <3>5 DEF MembersInv
  <2>6. CASE ~(q \notin Members /\ roomRow)
    <3>1. UNCHANGED rows
      BY <1>6, <1>m, <2>6 DEF InsertPlayer
    <3>2. UNCHANGED Members
      BY <3>1 DEF Members
    <3>3. \A p \in Players : AtJoin(c, p) /\ roomRow => p \in Members
      BY <2>4, <2>6
    <3>4. QED
      BY <1>c, <2>1, <2>2, <2>4, <3>2, <3>3, MembersInvKept
  <2>7. QED
    BY <2>5, <2>6
<1>7. CASE RemovePlayer(c)
  <2> DEFINE q == ev[c].player
  <2>1. at[c] = "remove" /\ q \in Players /\ UNCHANGED moved /\ at'[c] = "rank"
    BY <1>0, <1>7, EventFacts DEF RemovePlayer, Locals, Local, history, Continue, Goto, ConsumerTyped
  <2>2. UNCHANGED roomRow
    BY <1>7 DEF RemovePlayer
  <2>3. rows' = [rows EXCEPT ![q] = None]
    BY <1>7, <1>m DEF RemovePlayer
  <2>4. Members' = Members \ {q}
    BY <1>0, <2>1, <2>3 DEF Members, RowsTyped
  <2>5. \A p \in Players : /\ ~AtJoin(c, p)' /\ ~AtLeave(c, p)' /\ ~AtJoin(c, p)
                           /\ AtLeave(c, p) <=> q = p
    BY <2>1 DEF AtJoin, AtLeave
  <2>6. moved[q] = "left"
    BY <2>1, <2>5 DEF MembersInv
  <2>7. \A p \in Members' : p \in Registered /\ moved'[p] = "join"
    BY <1>r, <2>1, <2>4, <2>5 DEF MembersInv
  <2>8. roomRow => \A p \in Registered : moved'[p] = "join" => p \in Members'
    BY <1>r, <2>1, <2>4, <2>5, <2>6 DEF MembersInv
  <2>9. QED
    BY <2>2, <2>5, <2>7, <2>8 DEF MembersInv
<1>8. CASE Rank(c) \/ Deliver(c) \/ Post(c) \/ Lookup(c) \/ Judge(c) \/ Accept(c) \/ AddScore(c)
  <2>1. UNCHANGED roomRow /\ UNCHANGED moved
    BY <1>8 DEF Rank, Deliver, Post, Lookup, Judge, Accept, AddScore, db, history
  <2>2. UNCHANGED Members
    BY <1>8, MembersStep DEF Rank, Deliver, Post, Lookup, Judge, Accept, AddScore, InsertPlayer,
                             RemovePlayer
  <2>3. /\ at[c] \in {"rank", "deliver", "post", "lookup", "judge", "score"}
        /\ at'[c] \in {"recv", "judge", "post", "hung", "rank"}
    BY <1>0, <1>8 DEF Rank, Deliver, Post, Lookup, Judge, Accept, AddScore, Return, Continue,
                      Conclude, Goto, ConsumerTyped
  <2>4. \A p \in Players : ~AtJoin(c, p)' /\ ~AtLeave(c, p)' /\ ~AtJoin(c, p) /\ ~AtLeave(c, p)
    BY <2>3 DEF AtJoin, AtLeave
  <2>5. QED
    BY <1>c, <2>1, <2>2, <2>4, MembersInvKept
<1>9. CASE DeleteRoom(c)
  <2>1. UNCHANGED rows /\ UNCHANGED moved /\ at[c] = "delete" /\ at'[c] = "recv"
    BY <1>0, <1>9 DEF DeleteRoom, history, Return, Goto, ConsumerTyped
  <2>2. UNCHANGED Members
    BY <2>1 DEF Members
  <2>3. \A p \in Players : ~AtJoin(c, p)' /\ ~AtLeave(c, p)' /\ ~AtJoin(c, p) /\ ~AtLeave(c, p)
    BY <2>1 DEF AtJoin, AtLeave
  <2>4. roomRow' => roomRow
    BY <1>9 DEF DeleteRoom
  <2>5. \A p \in Members' : p \in Registered /\ moved'[p] = "join"
    BY <1>r, <2>1, <2>2, <2>3 DEF MembersInv
  <2>6. roomRow' => \A p \in Registered : moved'[p] = "join" => p \in Members'
    BY <1>r, <2>1, <2>2, <2>3, <2>4 DEF MembersInv
  <2>7. QED
    BY <2>3, <2>5, <2>6 DEF MembersInv
<1>10. QED
  BY <1>2, <1>3, <1>4, <1>5, <1>6, <1>7, <1>8, <1>9 DEF LooseNext, ConsumerStep

LEMMA MembersFollowLoosely ==
    ASSUME NEW c, Consumers = {c}, DbFaults = FALSE
    PROVE  LooseSpec => []MembersFollowEvents
<1>1. Init => MembersInv(c)
  <2> SUFFICES ASSUME Init PROVE MembersInv(c)
    OBVIOUS
  <2>1. at[c] = "recv" /\ \A p \in Players : moved[p] = IF p \in Members THEN "join" ELSE "left"
    BY DEF Init, Members
  <2>2. Registered \subseteq Players
    BY RoomAssumption DEF RoomAssumption
  <2>3. Members \subseteq Registered
    BY DEF Init, Members
  <2>4. QED
    BY <2>1, <2>2, <2>3 DEF MembersInv, AtJoin, AtLeave
<1>2. TInv /\ MembersInv(c) /\ [LooseNext]_vars => MembersInv(c)'
  BY MembersInvStep
<1>3. MembersInv(c) => MembersFollowEvents
  <2>1. Members \subseteq Players /\ Registered \subseteq Players
    BY RoomAssumption DEF RoomAssumption, Members
  <2>2. QED
    BY <2>1 DEF MembersInv, MembersFollowEvents, AtJoin, AtLeave
<1>4. QED
  BY <1>1, <1>2, <1>3, TInvAlways, PTL DEF LooseSpec

\* With one Start goroutine, and as long as no statement fails, the members are the
\* registered players whose latest join or leave was a join.
THEOREM MembersFollow ==
    ASSUME NEW c, Consumers = {c}, DbFaults = FALSE
    PROVE  Spec => []MembersFollowEvents
  BY MembersFollowLoosely, Loosen, PTL

-------------------------------------------------------------------------------
(* One verdict, with any number of Start goroutines: the id of a request is in *)
(* one place at a time, and a step moves it on or drops it.                    *)

UnsentIds == {e.id : e \in unsent}
SendingIds == {e.id : e \in sending}
QueueIds == {events[i].id : i \in 1 .. Len(events)}
Processing == {c \in Consumers : ev[c] # None}
ProcessIds == {ev[c].id : c \in Processing}
SentIds == {n.of.id : n \in sent}

\* no id is in one place twice
Single ==
    /\ \A i, j \in 1 .. Len(events) : events[i].id = events[j].id => i = j
    /\ \A c, d \in Processing : ev[c].id = ev[d].id => c = d
    /\ \A n, m \in sent : n.of.id = m.of.id => n = m

\* or in two places
Apart(U, G, Q, P, S) ==
    /\ U \cap G = {} /\ U \cap Q = {} /\ U \cap P = {} /\ U \cap S = {}
    /\ G \cap Q = {} /\ G \cap P = {} /\ G \cap S = {}
    /\ Q \cap P = {} /\ Q \cap S = {} /\ P \cap S = {}

IdsApart == Apart(UnsentIds, SendingIds, QueueIds, ProcessIds, SentIds)

PlaceInv == TInv /\ Single /\ IdsApart

LEMMA SameIds == \A e, f \in Requests : e.id = f.id => e = f
  BY RoomAssumption DEF RoomAssumption

\* A push to the channel, and a pop.
LEMMA PushIds ==
    ASSUME NEW e \in Event, events \in Seq(Event), Single, e.id \notin QueueIds,
           events' = Append(events, e)
    PROVE  /\ QueueIds' = QueueIds \cup {e.id}
           /\ \A i, j \in 1 .. Len(events') : events'[i].id = events'[j].id => i = j
<1>1. /\ Len(events) \in Nat /\ Len(events') = Len(events) + 1
      /\ events'[Len(events) + 1] = e
      /\ \A i \in 1 .. Len(events) : events'[i] = events[i]
  BY AppendProperties, LenProperties
<1>2. \A i \in 1 .. Len(events) : events[i].id # e.id
  BY DEF QueueIds
<1>3. \A i \in 1 .. Len(events') : i \in 1 .. Len(events) \/ i = Len(events) + 1
  BY <1>1
<1>4. \A i, j \in 1 .. Len(events') : events'[i].id = events'[j].id => i = j
  BY <1>1, <1>2, <1>3 DEF Single
<1>5. \A x : x \in QueueIds' <=> x \in QueueIds \/ x = e.id
  <2>1. \A i \in 1 .. Len(events) : i \in 1 .. Len(events')
    BY <1>1
  <2>2. Len(events) + 1 \in 1 .. Len(events')
    BY <1>1
  <2>3. QED
    BY <1>1, <1>3, <2>1, <2>2 DEF QueueIds
<1>6. QED
  BY <1>4, <1>5

LEMMA PopIds ==
    ASSUME events \in Seq(Event), events # <<>>, Single, events' = Tail(events)
    PROVE  /\ QueueIds = QueueIds' \cup {Head(events).id} /\ Head(events).id \notin QueueIds'
           /\ \A i, j \in 1 .. Len(events') : events'[i].id = events'[j].id => i = j
<1>1. /\ Len(events) \in Nat \ {0} /\ Len(events') = Len(events) - 1 /\ Head(events) = events[1]
      /\ \A i \in 1 .. Len(events) - 1 : events'[i] = events[i + 1]
  BY HeadTailProperties, LenProperties, EmptySeq
<1>2. \A i \in 1 .. Len(events') : /\ i + 1 \in 1 .. Len(events) /\ events'[i] = events[i + 1]
                                   /\ i + 1 # 1
  BY <1>1
<1>3. \A i, j \in 1 .. Len(events') : events'[i].id = events'[j].id => i = j
  BY <1>2 DEF Single
<1>4. 1 \in 1 .. Len(events)
  BY <1>1
<1>5. Head(events).id \notin QueueIds'
  BY <1>1, <1>2, <1>4 DEF Single, QueueIds
<1>6. \A i \in 1 .. Len(events) : i = 1 \/ (i - 1 \in 1 .. Len(events') /\ events'[i - 1] = events[i])
  BY <1>1
<1>7. \A x : x \in QueueIds <=> x \in QueueIds' \/ x = Head(events).id
  BY <1>1, <1>2, <1>4, <1>6 DEF QueueIds
<1>8. QED
  BY <1>3, <1>5, <1>7

\* A consumer takes up an event, or is done with one.
LEMMA TakeIds ==
    ASSUME TInv, Single, NEW c \in Consumers, ev[c] = None, NEW e \in Event, e.id \notin ProcessIds,
           ev' = [ev EXCEPT ![c] = e]
    PROVE  /\ ProcessIds' = ProcessIds \cup {e.id}
           /\ \A d, f \in Processing' : ev'[d].id = ev'[f].id => d = f
<1>1. /\ ev'[c] = e /\ e # None /\ \A d \in Consumers : d # c => ev'[d] = ev[d]
  BY EventKinds DEF TInv, TypeOK
<1>2. Processing' = Processing \cup {c} /\ c \notin Processing
  BY <1>1 DEF Processing
<1>3. \A d \in Processing : d # c /\ ev'[d] = ev[d] /\ ev[d].id # e.id
  BY <1>1, <1>2 DEF Processing, ProcessIds
<1>4. \A d, f \in Processing' : ev'[d].id = ev'[f].id => d = f
  BY <1>1, <1>2, <1>3 DEF Single
<1>5. \A x : x \in ProcessIds' <=> x \in ProcessIds \/ x = e.id
  BY <1>1, <1>2, <1>3 DEF ProcessIds
<1>6. QED
  BY <1>4, <1>5

LEMMA DoneIds ==
    ASSUME TInv, Single, NEW c \in Consumers, ev[c] # None, Return(c)
    PROVE  /\ ProcessIds = ProcessIds' \cup {ev[c].id} /\ ev[c].id \notin ProcessIds'
           /\ \A d, f \in Processing' : ev'[d].id = ev'[f].id => d = f
<1>1. /\ ev'[c] = None /\ \A d \in Consumers : d # c => ev'[d] = ev[d]
  BY DEF TInv, TypeOK, Return
<1>2. Processing' = Processing \ {c} /\ c \in Processing
  BY <1>1 DEF Processing
<1>3. \A d \in Processing' : d \in Processing /\ d # c /\ ev'[d] = ev[d] /\ ev[d].id # ev[c].id
  BY <1>1, <1>2 DEF Processing, Single
<1>4. \A d, f \in Processing' : ev'[d].id = ev'[f].id => d = f
  BY <1>3 DEF Single
<1>5. \A d \in Processing : d = c \/ d \in Processing'
  BY <1>2
<1>6. \A x : x \in ProcessIds <=> x \in ProcessIds' \/ x = ev[c].id
  BY <1>2, <1>3, <1>5 DEF ProcessIds
<1>7. ev[c].id \notin ProcessIds'
  BY <1>3 DEF ProcessIds
<1>8. QED
  BY <1>4, <1>6, <1>7

LEMMA PlaceInvStep == PlaceInv /\ [LooseNext]_vars => PlaceInv'
<1> SUFFICES ASSUME PlaceInv, [LooseNext]_vars PROVE (Single /\ IdsApart)'
  BY TInvStep DEF PlaceInv
<1>i. TInv /\ Single /\ IdsApart
  BY DEF PlaceInv
<1>t. /\ events \in Seq(Event) /\ unsent \subseteq Requests /\ sending \subseteq Requests
      /\ ev \in [Consumers -> Event \cup {None}] /\ Locals
  BY <1>i DEF TInv, TypeOK
<1>k. ASSUME UNCHANGED <<unsent, sending, events, ev, sent>> PROVE (Single /\ IdsApart)'
  <2>1. /\ UnsentIds' = UnsentIds /\ SendingIds' = SendingIds /\ QueueIds' = QueueIds
        /\ ProcessIds' = ProcessIds /\ SentIds' = SentIds /\ Processing' = Processing
    BY <1>k DEF UnsentIds, SendingIds, QueueIds, ProcessIds, Processing, SentIds
  <2>2. QED
    BY <1>i, <1>k, <2>1 DEF Single, IdsApart
<1>1. ASSUME NEW e \in Requests, Ask(e) PROVE (Single /\ IdsApart)'
  <2>1. /\ UNCHANGED <<events, ev, sent>> /\ e \in unsent
        /\ unsent' = unsent \ {e} /\ sending' = sending \cup {e}
    BY <1>1 DEF Ask, Spawn
  <2>2. /\ QueueIds' = QueueIds /\ ProcessIds' = ProcessIds /\ SentIds' = SentIds
        /\ Processing' = Processing
    BY <2>1 DEF QueueIds, ProcessIds, Processing, SentIds
  <2>3. UnsentIds' = UnsentIds \ {e.id} /\ SendingIds' = SendingIds \cup {e.id} /\ e.id \in UnsentIds
    BY <1>t, <2>1, SameIds DEF UnsentIds, SendingIds
  <2>4. IdsApart'
    BY <1>i, <2>2, <2>3 DEF IdsApart, Apart
  <2>5. Single'
    BY <1>i, <2>1, <2>2 DEF Single
  <2>6. QED
    BY <2>4, <2>5
<1>2. ASSUME NEW e \in Requests, Send(e) PROVE (Single /\ IdsApart)'
  <2>1. /\ UNCHANGED <<unsent, ev, sent>> /\ e \in sending
        /\ events' = Append(events, e) /\ sending' = sending \ {e}
    BY <1>2 DEF Send
  <2>2. UnsentIds' = UnsentIds /\ ProcessIds' = ProcessIds /\ SentIds' = SentIds /\ Processing' = Processing
    BY <2>1 DEF UnsentIds, ProcessIds, Processing, SentIds
  <2>3. SendingIds' = SendingIds \ {e.id} /\ e.id \in SendingIds
    BY <1>t, <2>1, SameIds DEF SendingIds
  <2>4. e.id \notin QueueIds /\ e \in Event
    BY <1>i, <2>3, EventFacts DEF IdsApart, Apart
  <2>5. /\ QueueIds' = QueueIds \cup {e.id}
        /\ \A i, j \in 1 .. Len(events') : events'[i].id = events'[j].id => i = j
    BY <1>i, <1>t, <2>1, <2>4, PushIds
  <2>6. IdsApart'
    BY <1>i, <2>2, <2>3, <2>5 DEF IdsApart, Apart
  <2>7. Single'
    BY <1>i, <2>1, <2>2, <2>5 DEF Single
  <2>8. QED
    BY <2>6, <2>7
<1>3. ASSUME NEW c \in Consumers, Recv(c) PROVE (Single /\ IdsApart)'
  <2> DEFINE e == Head(events)
  <2>1. /\ UNCHANGED <<unsent, sending, sent>> /\ events # <<>> /\ events' = Tail(events)
        /\ ev' = [ev EXCEPT ![c] = e] /\ e \in Event /\ ev[c] = None
    BY <1>3, <1>t, PopEvent DEF Recv, Locals, Local
  <2>2. UnsentIds' = UnsentIds /\ SendingIds' = SendingIds /\ SentIds' = SentIds
    BY <2>1 DEF UnsentIds, SendingIds, SentIds
  <2>3. /\ QueueIds = QueueIds' \cup {e.id} /\ e.id \notin QueueIds'
        /\ \A i, j \in 1 .. Len(events') : events'[i].id = events'[j].id => i = j
    BY <1>i, <1>t, <2>1, PopIds
  <2> HIDE DEF e
  <2>4. e.id \notin ProcessIds
    BY <1>i, <2>3 DEF IdsApart, Apart
  <2>5. /\ ProcessIds' = ProcessIds \cup {e.id}
        /\ \A d, f \in Processing' : ev'[d].id = ev'[f].id => d = f
    BY <1>i, <2>1, <2>4, TakeIds
  <2>6. IdsApart'
    BY <1>i, <2>2, <2>3, <2>5 DEF IdsApart, Apart
  <2>7. Single'
    BY <1>i, <2>1, <2>3, <2>5 DEF Single
  <2>8. QED
    BY <2>6, <2>7
<1>4. ASSUME NEW c \in Consumers, ev[c] # None, Return(c), UNCHANGED <<unsent, sending>>,
             \/ UNCHANGED <<events, sent>>
             \/ \E n : Dispatch(c, n) /\ UNCHANGED events
             \/ /\ verdict[c] \in Results /\ verdict[c].id = ev[c].id
                /\ events' = Append(events, verdict[c]) /\ UNCHANGED sent
      PROVE  (Single /\ IdsApart)'
  <2> DEFINE x == ev[c].id
  <2>1. UnsentIds' = UnsentIds /\ SendingIds' = SendingIds
    BY <1>4 DEF UnsentIds, SendingIds
  <2>2. /\ ProcessIds = ProcessIds' \cup {x} /\ x \notin ProcessIds'
        /\ \A d, f \in Processing' : ev'[d].id = ev'[f].id => d = f
    BY <1>i, <1>4, DoneIds
  <2>3. CASE UNCHANGED <<events, sent>>
    <3>1. QueueIds' = QueueIds /\ SentIds' = SentIds
      BY <2>3 DEF QueueIds, SentIds
    <3>2. IdsApart'
      BY <1>i, <2>1, <2>2, <3>1 DEF IdsApart, Apart
    <3>3. Single'
      BY <1>i, <2>2, <2>3 DEF Single
    <3>4. QED
      BY <3>2, <3>3
  <2>4. ASSUME NEW n, Dispatch(c, n), UNCHANGED events PROVE (Single /\ IdsApart)'
    <3>1. sent' = sent \cup {[notice |-> n, of |-> ev[c]]}
      BY <2>4 DEF Dispatch
    <3>2. QueueIds' = QueueIds /\ SentIds' = SentIds \cup {x}
      <4>1. PICK r : r.of = ev[c] /\ sent' = sent \cup {r}
        BY <3>1
      <4>2. SentIds' = SentIds \cup {x}
        BY <4>1 DEF SentIds
      <4>3. QED
        BY <2>4, <4>2 DEF QueueIds
    <3>3. IdsApart'
      BY <1>i, <2>1, <2>2, <3>2 DEF IdsApart, Apart
    <3>4. \A m \in sent : m.of.id # x
      BY <1>i, <2>2 DEF IdsApart, Apart, SentIds
    <3>5. Single'
      BY <1>i, <2>2, <2>4, <3>1, <3>4 DEF Single
    <3>6. QED
      BY <3>3, <3>5
  <2>5. CASE /\ verdict[c] \in Results /\ verdict[c].id = ev[c].id
             /\ events' = Append(events, verdict[c]) /\ UNCHANGED sent
    <3>1. x \notin QueueIds
      BY <1>i, <2>2 DEF IdsApart, Apart
    <3>2. verdict[c] \in Event
      BY <2>5, EventFacts
    <3>3. /\ QueueIds' = QueueIds \cup {x}
          /\ \A i, j \in 1 .. Len(events') : events'[i].id = events'[j].id => i = j
      BY <1>i, <1>t, <2>5, <3>1, <3>2, PushIds
    <3>4. SentIds' = SentIds
      BY <2>5 DEF SentIds
    <3>5. IdsApart'
      BY <1>i, <2>1, <2>2, <3>3, <3>4 DEF IdsApart, Apart
    <3>6. Single'
      BY <1>i, <2>2, <2>5, <3>3 DEF Single
    <3>7. QED
      BY <3>5, <3>6
  <2>6. QED
    BY <1>4, <2>3, <2>4, <2>5
<1>e. ASSUME NEW c \in Consumers, at[c] # "recv" PROVE ev[c] # None
  BY <1>t, <1>e DEF Locals, Local
<1>5. ASSUME NEW c \in Consumers,
             LoadPlayer(c) \/ CheckPlayer(c) \/ InsertPlayer(c) \/ RemovePlayer(c) \/ Lookup(c)
             \/ Judge(c) \/ Accept(c) \/ AddScore(c)
      PROVE  (Single /\ IdsApart)'
  <2>1. /\ UNCHANGED <<unsent, sending, events, sent>> /\ at[c] # "recv"
        /\ UNCHANGED ev \/ Return(c)
    BY <1>5 DEF LoadPlayer, CheckPlayer, InsertPlayer, RemovePlayer, Lookup, Judge, Accept,
                AddScore, Continue, Conclude
  <2>2. QED
    BY <1>k, <1>4, <1>e, <2>1
<1>6. ASSUME NEW c \in Consumers, Rank(c) \/ DeleteRoom(c) \/ Deliver(c) PROVE (Single /\ IdsApart)'
  <2>1. /\ UNCHANGED <<unsent, sending, events>> /\ at[c] # "recv" /\ Return(c)
        /\ \E n : Dispatch(c, n)
    BY <1>6 DEF Rank, DeleteRoom, Deliver
  <2>2. QED
    BY <1>4, <1>e, <2>1
<1>7. ASSUME NEW c \in Consumers, Post(c) PROVE (Single /\ IdsApart)'
  <2>1. /\ UNCHANGED <<unsent, sending, sent>> /\ at[c] # "recv" /\ Return(c)
        /\ events' = Append(events, verdict[c])
        /\ verdict[c] \in Results /\ verdict[c].id = ev[c].id
    BY <1>7, <1>t DEF Post, Locals, Local
  <2>2. QED
    BY <1>4, <1>e, <2>1
<1>8. CASE UNCHANGED vars
  BY <1>8, <1>k DEF vars
<1>9. QED
  BY <1>1, <1>2, <1>3, <1>5, <1>6, <1>7, <1>8 DEF LooseNext, ConsumerStep

LEMMA AtMostOne ==
    ASSUME NEW S, \A x, y \in S : x = y
    PROVE  (S = {} /\ Cardinality(S) = 0) \/ (S # {} /\ Cardinality(S) = 1)
<1>1. CASE S = {}
  BY <1>1, FS_EmptySet
<1>2. CASE S # {}
  <2>1. PICK x \in S : S = {x}
    BY <1>2
  <2>2. Cardinality({x}) = 1
    BY FS_Singleton
  <2>3. QED
    BY <2>1, <2>2
<1>3. QED
  BY <1>1, <1>2

LEMMA PlacesGiveCopies == PlaceInv => OneVerdict
<1> SUFFICES ASSUME PlaceInv, NEW e \in Requests PROVE Copies(e) <= 1
  BY DEF OneVerdict
<1> DEFINE Q == {i \in 1 .. Len(events) : events[i].id = e.id}
           P == {c \in Consumers : ev[c] # None /\ ev[c].id = e.id}
           S == {n \in sent : n.of.id = e.id}
           U == {e} \cap unsent
           G == {e} \cap sending
<1>1. /\ \A x, y \in Q : x = y
      /\ \A x, y \in P : x = y
      /\ \A x, y \in S : x = y
      /\ \A x, y \in U : x = y
      /\ \A x, y \in G : x = y
  BY DEF PlaceInv, Single, Processing
<1>2. /\ Q # {} => e.id \in QueueIds
      /\ P # {} => e.id \in ProcessIds
      /\ S # {} => e.id \in SentIds
      /\ U # {} => e.id \in UnsentIds
      /\ G # {} => e.id \in SendingIds
  BY DEF QueueIds, ProcessIds, Processing, SentIds, UnsentIds, SendingIds
<1>3. /\ ~(Q # {} /\ P # {}) /\ ~(Q # {} /\ S # {}) /\ ~(Q # {} /\ U # {}) /\ ~(Q # {} /\ G # {})
      /\ ~(P # {} /\ S # {}) /\ ~(P # {} /\ U # {}) /\ ~(P # {} /\ G # {})
      /\ ~(S # {} /\ U # {}) /\ ~(S # {} /\ G # {}) /\ ~(U # {} /\ G # {})
  BY <1>2 DEF PlaceInv, IdsApart, Apart
<1>4. Copies(e) = Cardinality(Q) + Cardinality(P) + Cardinality(S) + Cardinality(U) + Cardinality(G)
  BY DEF Copies
<1> HIDE DEF Q, P, S, U, G
<1>5. /\ (Q = {} /\ Cardinality(Q) = 0) \/ (Q # {} /\ Cardinality(Q) = 1)
      /\ (P = {} /\ Cardinality(P) = 0) \/ (P # {} /\ Cardinality(P) = 1)
      /\ (S = {} /\ Cardinality(S) = 0) \/ (S # {} /\ Cardinality(S) = 1)
      /\ (U = {} /\ Cardinality(U) = 0) \/ (U # {} /\ Cardinality(U) = 1)
      /\ (G = {} /\ Cardinality(G) = 0) \/ (G # {} /\ Cardinality(G) = 1)
  BY <1>1, AtMostOne
<1>6. QED
  BY <1>3, <1>4, <1>5

LEMMA PlaceInvInit == Init => PlaceInv
<1> SUFFICES ASSUME Init PROVE PlaceInv
  OBVIOUS
<1>1. /\ SendingIds = {} /\ QueueIds = {} /\ ProcessIds = {} /\ SentIds = {}
      /\ Processing = {} /\ Len(events) = 0
  BY DEF Init, SendingIds, QueueIds, ProcessIds, Processing, SentIds
<1>2. Single
  BY <1>1 DEF Init, Single
<1>3. IdsApart
  BY <1>1 DEF IdsApart, Apart
<1>4. QED
  BY <1>2, <1>3, TInvInit DEF PlaceInv

LEMMA PlaceInvAlways == LooseSpec => []PlaceInv
  BY PlaceInvInit, PlaceInvStep, PTL DEF LooseSpec

LEMMA SingleVerdictLoosely == LooseSpec => []OneVerdict
  BY PlaceInvAlways, PlacesGiveCopies, PTL

\* However many Start goroutines a room has, a request leads to one notice at most, and
\* never to a notice while the request or its result is still somewhere else.
THEOREM SingleVerdict == Spec => []OneVerdict
  BY SingleVerdictLoosely, Loosen, PTL

-------------------------------------------------------------------------------
(* The order of verdicts, with one Start goroutine.  What is received is a     *)
(* line: the results received, those in the channel, and last the submission   *)
(* that is being judged stand in the order of their submissions.               *)

InProcess(c, x) == at[c] \in {"lookup", "judge", "post"} /\ ev[c].id = x

Received == 1 .. Len(judged)
Queue == 1 .. Len(events)

SubmitAt(i) == judged[i].kind = "submit"
ResultFor(i, e) == e.kind = "result" /\ e.id = judged[i].id

\* an id is received once as a submission and once as a result, and then is neither asked
\* for again nor in the channel, but as the result of what was received
ReceivedOnce ==
    /\ \A i \in Received : judged[i].kind \in {"submit", "result"}
    /\ \A i, k \in Received : judged[i].kind = judged[k].kind /\ judged[i].id = judged[k].id => i = k
    /\ \A i \in Received : judged[i].id \notin UnsentIds \cup SendingIds
    /\ \A i \in Received, m \in Queue :
           judged[i].id = events[m].id => SubmitAt(i) /\ events[m].kind = "result"

\* a submission that is being judged has no result yet, and is the latest
JudgedLast(c) ==
    /\ \A i \in Received : judged[i].kind = "result" => ~InProcess(c, judged[i].id)
    /\ \A i, j \in Received : SubmitAt(i) /\ SubmitAt(j) /\ InProcess(c, judged[i].id) => j <= i

InLine ==
    /\ VerdictsInOrder
    /\ \A i, j, l \in Received, m \in Queue :
           SubmitAt(i) /\ SubmitAt(j) /\ i < j /\ ResultFor(j, judged[l]) => ~ResultFor(i, events[m])
    /\ \A i, j \in Received, m, n \in Queue :
           SubmitAt(i) /\ SubmitAt(j) /\ i < j /\ ResultFor(i, events[m]) /\ ResultFor(j, events[n]) => m < n

OrderInv(c) == PlaceInv /\ ReceivedOnce /\ JudgedLast(c) /\ InLine

\* Steps that leave the channel and what was received alone.
LEMMA OrderKept ==
    ASSUME NEW c, ReceivedOnce, JudgedLast(c), InLine, UNCHANGED <<judged, events>>,
           UnsentIds' \cup SendingIds' \subseteq UnsentIds \cup SendingIds,
           \A x : InProcess(c, x)' => InProcess(c, x)
    PROVE  (ReceivedOnce /\ JudgedLast(c) /\ InLine)'
<1>1. Received' = Received /\ Queue' = Queue
  BY DEF Received, Queue
<1>2. ReceivedOnce'
  BY <1>1 DEF ReceivedOnce, SubmitAt
<1>3. JudgedLast(c)'
  BY <1>1 DEF JudgedLast, SubmitAt
<1>4. InLine'
  BY <1>1 DEF InLine, VerdictsInOrder, SubmitAt, ResultFor
<1>5. QED
  BY <1>2, <1>3, <1>4

\* What becomes of the entries of a sequence.
LEMMA Appended ==
    ASSUME NEW S, NEW q \in Seq(S), NEW e \in S
    PROVE  /\ Len(q) \in Nat /\ Len(Append(q, e)) = Len(q) + 1
           /\ Append(q, e)[Len(q) + 1] = e
           /\ \A i \in 1 .. Len(q) : Append(q, e)[i] = q[i]
           /\ \A i \in 1 .. Len(Append(q, e)) : i \in 1 .. Len(q) \/ (i = Len(q) + 1 /\ i \notin 1 .. Len(q))
  BY AppendProperties, LenProperties

\* The line after a step that only adds to the channel.
LEMMA InLineNext ==
    ASSUME judged' = judged, Received' = Received, VerdictsInOrder',
           \A i, j, l \in Received, m \in Queue' :
               SubmitAt(i) /\ SubmitAt(j) /\ i < j /\ ResultFor(j, judged[l]) => ~ResultFor(i, events'[m]),
           \A i, j \in Received, m, n \in Queue' :
               SubmitAt(i) /\ SubmitAt(j) /\ i < j /\ ResultFor(i, events'[m]) /\ ResultFor(j, events'[n])
                   => m < n
    PROVE  InLine'
<1>1. ASSUME NEW i \in Received', NEW j \in Received', NEW l \in Received', NEW m \in Queue',
             SubmitAt(i)', SubmitAt(j)', i < j, ResultFor(j, judged[l])', ResultFor(i, events[m])'
      PROVE  FALSE
  <2>1. SubmitAt(i) /\ SubmitAt(j) /\ ResultFor(j, judged[l]) /\ ResultFor(i, events'[m])
    BY <1>1 DEF SubmitAt, ResultFor
  <2>2. i \in Received /\ j \in Received /\ l \in Received
    OBVIOUS
  <2>3. QED
    BY <1>1, <2>1, <2>2
<1>2. ASSUME NEW i \in Received', NEW j \in Received', NEW m \in Queue', NEW n \in Queue',
             SubmitAt(i)', SubmitAt(j)', i < j, ResultFor(i, events[m])', ResultFor(j, events[n])'
      PROVE  m < n
  <2>1. SubmitAt(i) /\ SubmitAt(j) /\ ResultFor(i, events'[m]) /\ ResultFor(j, events'[n])
    BY <1>2 DEF SubmitAt, ResultFor
  <2>2. i \in Received /\ j \in Received
    OBVIOUS
  <2>3. QED
    BY <1>2, <2>1, <2>2
<1>3. QED
  BY <1>1, <1>2 DEF InLine

LEMMA OrderSend ==
    ASSUME NEW c \in Consumers, OrderInv(c), NEW e \in Requests, Send(e)
    PROVE  (ReceivedOnce /\ JudgedLast(c) /\ InLine)'
<1>0. /\ events \in Seq(Event) /\ sending \subseteq Requests /\ e \in Event
      /\ e.kind # "result"
  BY EventFacts DEF OrderInv, PlaceInv, TInv, TypeOK, Kinds
<1>1. /\ UNCHANGED <<unsent, ev, at, judged>> /\ e \in sending
      /\ events' = Append(events, e) /\ sending' = sending \ {e}
  BY DEF Send, history
<1>2. /\ Received' = Received /\ UnsentIds' = UnsentIds /\ SendingIds' \subseteq SendingIds
      /\ e.id \in SendingIds
  BY <1>1 DEF Received, UnsentIds, SendingIds
<1>3. \A m \in Queue' : (m \in Queue /\ events'[m] = events[m]) \/ events'[m] = e
  BY <1>0, <1>1, Appended DEF Queue
<1>4. \A i \in Received : judged[i].id # e.id
  BY <1>2 DEF OrderInv, ReceivedOnce
<1>5. ReceivedOnce'
  <2>1. \A i \in Received, m \in Queue' :
           judged[i].id = events'[m].id => SubmitAt(i) /\ events'[m].kind = "result"
    BY <1>3, <1>4 DEF OrderInv, ReceivedOnce
  <2>2. /\ \A i \in Received' : judged'[i].kind \in {"submit", "result"}
        /\ \A i, k \in Received' :
               judged'[i].kind = judged'[k].kind /\ judged'[i].id = judged'[k].id => i = k
    BY <1>1, <1>2 DEF OrderInv, ReceivedOnce
  <2>3. \A i \in Received' : judged'[i].id \notin UnsentIds' \cup SendingIds'
    BY <1>1, <1>2 DEF OrderInv, ReceivedOnce
  <2>4. \A i \in Received', m \in Queue' :
           judged'[i].id = events'[m].id => judged'[i].kind = "submit" /\ events'[m].kind = "result"
    BY <1>1, <1>2, <2>1 DEF SubmitAt
  <2>5. QED
    BY <2>2, <2>3, <2>4 DEF ReceivedOnce, SubmitAt
<1>6. JudgedLast(c)'
  BY <1>1, <1>2 DEF OrderInv, JudgedLast, InProcess, SubmitAt
<1>7. \A i \in Received, m \in Queue' : ResultFor(i, events'[m]) => m \in Queue /\ ResultFor(i, events[m])
  BY <1>0, <1>3 DEF ResultFor
<1>8. InLine'
  <2>1. VerdictsInOrder'
    BY <1>1 DEF OrderInv, InLine, VerdictsInOrder
  <2>2. \A i, j, l \in Received, m \in Queue' :
           SubmitAt(i) /\ SubmitAt(j) /\ i < j /\ ResultFor(j, judged[l]) => ~ResultFor(i, events'[m])
    BY <1>7 DEF OrderInv, InLine
  <2>3. \A i, j \in Received, m, n \in Queue' :
           SubmitAt(i) /\ SubmitAt(j) /\ i < j /\ ResultFor(i, events'[m]) /\ ResultFor(j, events'[n])
               => m < n
    BY <1>7 DEF OrderInv, InLine
  <2>4. QED
    BY <1>1, <1>2, <2>1, <2>2, <2>3, InLineNext
<1>9. QED
  BY <1>5, <1>6, <1>8

\* The result takes its place behind all others: its submission is the latest.
LEMMA OrderPost ==
    ASSUME NEW c \in Consumers, OrderInv(c), Post(c)
    PROVE  (ReceivedOnce /\ JudgedLast(c) /\ InLine)'
<1> DEFINE v == verdict[c]
<1>0. /\ events \in Seq(Event) /\ v \in Event /\ v.kind = "result" /\ v.id = ev[c].id
      /\ at[c] = "post"
  BY EventFacts DEF OrderInv, PlaceInv, TInv, TypeOK, Locals, Local, Post
<1>1. /\ UNCHANGED <<unsent, sending, judged>> /\ events' = Append(events, v) /\ at'[c] = "recv"
  BY DEF Post, history, Return, Goto, OrderInv, PlaceInv, TInv, TypeOK
<1> HIDE DEF v
<1>2. Received' = Received /\ UnsentIds' = UnsentIds /\ SendingIds' = SendingIds
  BY <1>1 DEF Received, UnsentIds, SendingIds
<1>3. \A m \in Queue' : \/ m \in Queue /\ events'[m] = events[m]
                        \/ m = Len(events) + 1 /\ m \notin Queue /\ events'[m] = v
  BY <1>0, <1>1, Appended DEF Queue
<1>4. \A i \in Received : judged[i].id = v.id => SubmitAt(i) /\ InProcess(c, judged[i].id)
  BY <1>0 DEF OrderInv, ReceivedOnce, JudgedLast, SubmitAt, InProcess
<1>5. ReceivedOnce'
  <2>1. \A i \in Received, m \in Queue' :
           judged[i].id = events'[m].id => SubmitAt(i) /\ events'[m].kind = "result"
    BY <1>0, <1>3, <1>4 DEF OrderInv, ReceivedOnce
  <2>2. /\ \A i \in Received' : judged'[i].kind \in {"submit", "result"}
        /\ \A i, k \in Received' :
               judged'[i].kind = judged'[k].kind /\ judged'[i].id = judged'[k].id => i = k
    BY <1>1, <1>2 DEF OrderInv, ReceivedOnce
  <2>3. \A i \in Received' : judged'[i].id \notin UnsentIds' \cup SendingIds'
    BY <1>1, <1>2 DEF OrderInv, ReceivedOnce
  <2>4. \A i \in Received', m \in Queue' :
           judged'[i].id = events'[m].id => judged'[i].kind = "submit" /\ events'[m].kind = "result"
    BY <1>1, <1>2, <2>1 DEF SubmitAt
  <2>5. QED
    BY <2>2, <2>3, <2>4 DEF ReceivedOnce, SubmitAt
<1>6. JudgedLast(c)'
  BY <1>1 DEF JudgedLast, InProcess
<1>7. \A i, j \in Received, m \in Queue' :
          SubmitAt(i) /\ SubmitAt(j) /\ i < j /\ ResultFor(i, events'[m]) => m \in Queue /\ ResultFor(i, events[m])
  <2>1. \A i, j \in Received : SubmitAt(j) /\ judged[i].id = v.id => j <= i
    BY <1>4 DEF OrderInv, JudgedLast
  <2>2. \A i, j \in Received : i < j => ~(j <= i)
    BY DEF Received
  <2>3. QED
    BY <1>3, <2>1, <2>2 DEF ResultFor
<1>8. InLine'
  <2>1. VerdictsInOrder'
    BY <1>1 DEF OrderInv, InLine, VerdictsInOrder
  <2>2. \A i, j, l \in Received, m \in Queue' :
           SubmitAt(i) /\ SubmitAt(j) /\ i < j /\ ResultFor(j, judged[l]) => ~ResultFor(i, events'[m])
    BY <1>7 DEF OrderInv, InLine
  <2>3. \A i, j \in Received, m, n \in Queue' :
           SubmitAt(i) /\ SubmitAt(j) /\ i < j /\ ResultFor(i, events'[m]) /\ ResultFor(j, events'[n])
               => m < n
    <3> SUFFICES ASSUME NEW i \in Received, NEW j \in Received, NEW m \in Queue', NEW n \in Queue',
                        SubmitAt(i), SubmitAt(j), i < j, ResultFor(i, events'[m]), ResultFor(j, events'[n])
                 PROVE  m < n
      OBVIOUS
    <3>1. m \in Queue /\ ResultFor(i, events[m])
      BY <1>7
    <3>2. CASE n \in Queue /\ events'[n] = events[n]
      BY <3>1, <3>2 DEF OrderInv, InLine
    <3>3. CASE n = Len(events) + 1
      BY <1>0, <3>1, <3>3, LenProperties DEF Queue
    <3>4. QED
      BY <1>3, <3>2, <3>3
  <2>4. QED
    BY <1>1, <1>2, <2>1, <2>2, <2>3, InLineNext
<1>9. QED
  BY <1>5, <1>6, <1>8

\* An event that is received goes from the head of the channel to the end of what was
\* received.
LEMMA OrderRecv ==
    ASSUME NEW c \in Consumers, OrderInv(c), Recv(c)
    PROVE  (ReceivedOnce /\ JudgedLast(c) /\ InLine)'
<1> DEFINE e == Head(events)
<1>i. PlaceInv /\ ReceivedOnce /\ JudgedLast(c) /\ InLine /\ Single /\ IdsApart
  BY DEF OrderInv, PlaceInv
<1>0. /\ events \in Seq(Event) /\ events # <<>> /\ judged \in Seq(Event) /\ e \in Event
      /\ at \in [Consumers -> Stages] /\ ev \in [Consumers -> Event \cup {None}]
  BY <1>i, PopEvent DEF PlaceInv, TInv, TypeOK, Recv
<1>1. /\ UNCHANGED <<unsent, sending>> /\ events' = Tail(events)
      /\ at'[c] = FirstStage(e) /\ ev'[c] = e
      /\ judged' = IF e.kind \in {"submit", "result"} THEN Append(judged, e) ELSE judged
  BY <1>0 DEF Recv, Record, Goto
<1>2. UnsentIds' = UnsentIds /\ SendingIds' = SendingIds
  BY <1>1 DEF UnsentIds, SendingIds
<1>3. 1 \in Queue /\ events[1] = e /\ Len(events) \in Nat \ {0} /\ Len(events') = Len(events) - 1
      /\ \A m \in 1 .. Len(events) - 1 : events'[m] = events[m + 1]
  BY <1>0, <1>1, HeadTailProperties, LenProperties, EmptySeq DEF Queue
<1>4. \A m \in Queue' : m + 1 \in Queue /\ events'[m] = events[m + 1] /\ ~(m + 1 < 1) /\ m \in Nat
  BY <1>3 DEF Queue
<1>5. \A m \in Queue' : events'[m].id # e.id
  BY <1>0, <1>1, <1>i, PopIds DEF QueueIds, Queue
<1>6. e.id \notin UnsentIds \cup SendingIds
  BY <1>3, <1>i DEF IdsApart, Apart, QueueIds, Queue
<1>7. e.kind \in {"join", "left", "submit", "delete", "result"}
  BY <1>0, EventKinds DEF Kinds
<1>8. \A i \in Received : judged[i].id = e.id => SubmitAt(i) /\ e.kind = "result"
  BY <1>3, <1>i DEF ReceivedOnce
<1> HIDE DEF e
<1>9. CASE e.kind \notin {"submit", "result"}
  <2>1. judged' = judged /\ Received' = Received
    BY <1>1, <1>9 DEF Received
  <2>2. \A x : ~InProcess(c, x)'
    BY <1>1, <1>7, <1>9 DEF InProcess, FirstStage
  <2>3. ReceivedOnce'
    BY <1>i, <1>2, <1>4, <2>1 DEF ReceivedOnce, SubmitAt
  <2>4. JudgedLast(c)'
    BY <2>2 DEF JudgedLast
  <2>5. InLine'
    <3>1. VerdictsInOrder'
      BY <1>i, <2>1 DEF InLine, VerdictsInOrder
    <3>2. \A i, j \in Received, m, n \in Queue' :
             SubmitAt(i) /\ SubmitAt(j) /\ i < j /\ ResultFor(i, events'[m]) /\ ResultFor(j, events'[n])
                 => m + 1 < n + 1
      BY <1>i, <1>4 DEF InLine
    <3>3. \A i, j, l \in Received, m \in Queue' :
             SubmitAt(i) /\ SubmitAt(j) /\ i < j /\ ResultFor(j, judged[l]) => ~ResultFor(i, events'[m])
      BY <1>i, <1>4 DEF InLine
    <3>4. \A m, n \in Queue' : m + 1 < n + 1 => m < n
      BY <1>4
    <3>5. QED
      BY <2>1, <3>1, <3>2, <3>3, <3>4 DEF InLine, SubmitAt, ResultFor
  <2>6. QED
    BY <2>3, <2>4, <2>5
<1>10. ASSUME e.kind \in {"submit", "result"}
       PROVE  LET N == Len(judged) + 1
              IN  /\ N \in Received' /\ judged'[N] = e /\ N \notin Received
                  /\ \A i \in Received : i \in Received' /\ judged'[i] = judged[i] /\ i < N /\ ~(N < i)
                  /\ \A i \in Received' : i \in Received \/ i = N
                  /\ \A i \in Received' : ~(N < i) /\ i <= N /\ ~(i < i)
  BY <1>0, <1>1, <1>10, Appended DEF Received
<1> DEFINE N == Len(judged) + 1
<1>11. CASE e.kind = "submit"
  <2>1. /\ N \in Received' /\ judged'[N] = e /\ N \notin Received
        /\ \A i \in Received : i \in Received' /\ judged'[i] = judged[i] /\ i < N
        /\ \A i \in Received' : i \in Received \/ i = N
        /\ \A i \in Received' : ~(N < i) /\ i <= N
    BY <1>10, <1>11
  <2> HIDE DEF N
  <2>2. \A i \in Received : judged[i].id # e.id
    BY <1>8, <1>11
  <2>3. \A x : InProcess(c, x)' <=> x = e.id
    BY <1>1, <1>11 DEF InProcess, FirstStage
  <2>4. ReceivedOnce'
    <3>1. \A i \in Received' : judged'[i].kind \in {"submit", "result"}
      BY <1>i, <1>11, <2>1 DEF ReceivedOnce
    <3>2. \A i, k \in Received' : judged'[i].kind = judged'[k].kind /\ judged'[i].id = judged'[k].id => i = k
      BY <1>i, <2>1, <2>2 DEF ReceivedOnce
    <3>3. \A i \in Received' : judged'[i].id \notin UnsentIds \cup SendingIds
      BY <1>i, <1>6, <2>1 DEF ReceivedOnce
    <3>4. \A i \in Received', m \in Queue' :
             judged'[i].id = events'[m].id => judged'[i].kind = "submit" /\ events'[m].kind = "result"
      BY <1>i, <1>4, <1>5, <2>1 DEF ReceivedOnce, SubmitAt
    <3>5. QED
      BY <1>2, <3>1, <3>2, <3>3, <3>4 DEF ReceivedOnce, SubmitAt
  <2>5. JudgedLast(c)'
    <3>1. \A i \in Received' : judged'[i].id = e.id => i = N
      BY <2>1, <2>2
    <3>2. QED
      BY <1>11, <2>1, <2>3, <3>1 DEF JudgedLast, SubmitAt
  <2>6. \A l \in Received' : judged'[l].kind = "result" => l \in Received /\ judged'[l].id # e.id
    BY <1>11, <2>1, <2>2
  <2>7. VerdictsInOrder'
    <3>1. \A i, k \in Received' : judged'[k].kind = "result" /\ judged'[i].id = judged'[k].id =>
              i \in Received /\ k \in Received
      BY <2>1, <2>6
    <3>2. \A i, j, k, l \in Received :
             judged[i].kind = "submit" /\ judged[k].kind = "result"
             /\ judged[j].kind = "submit" /\ judged[l].kind = "result"
             /\ judged[i].id = judged[k].id /\ judged[j].id = judged[l].id /\ i < j => k < l
      BY <1>i DEF InLine, VerdictsInOrder, Received
    <3>3. \A i, j, k, l \in Received' :
             judged'[i].kind = "submit" /\ judged'[k].kind = "result"
             /\ judged'[j].kind = "submit" /\ judged'[l].kind = "result"
             /\ judged'[i].id = judged'[k].id /\ judged'[j].id = judged'[l].id /\ i < j => k < l
      BY <2>1, <3>1, <3>2
    <3>4. QED
      BY <3>3 DEF VerdictsInOrder, Received
  <2>8. \A i \in Received', m \in Queue' : ResultFor(i, events[m])' => i \in Received
    <3>1. \A i \in Received', m \in Queue' : judged'[i].id = events'[m].id => i \in Received
      BY <1>5, <2>1
    <3>2. QED
      BY <3>1 DEF ResultFor
  <2>9. \A i, j, l \in Received', m \in Queue' :
           SubmitAt(i)' /\ SubmitAt(j)' /\ i < j /\ ResultFor(j, judged[l])' => ~ResultFor(i, events[m])'
    <3>1. \A j, l \in Received' : ResultFor(j, judged[l])' => j \in Received /\ l \in Received
      BY <2>1, <2>6 DEF ResultFor
    <3>2. QED
      BY <1>i, <1>4, <2>1, <2>8, <3>1 DEF InLine, SubmitAt, ResultFor
  <2>10. \A i, j \in Received', m, n \in Queue' :
             SubmitAt(i)' /\ SubmitAt(j)' /\ i < j /\ ResultFor(i, events[m])' /\ ResultFor(j, events[n])'
                 => m < n
    <3>1. \A i, j \in Received', m, n \in Queue' :
             SubmitAt(i)' /\ SubmitAt(j)' /\ i < j /\ ResultFor(i, events[m])' /\ ResultFor(j, events[n])'
                 => m + 1 < n + 1
      BY <1>i, <1>4, <2>1, <2>8 DEF InLine, SubmitAt, ResultFor
    <3>2. \A m, n \in Queue' : m + 1 < n + 1 => m < n
      BY <1>4
    <3>3. QED
      BY <3>1, <3>2
  <2>11. QED
    BY <2>4, <2>5, <2>7, <2>9, <2>10 DEF InLine
<1>12. CASE e.kind = "result"
  <2>1. /\ N \in Received' /\ judged'[N] = e /\ N \notin Received
        /\ \A i \in Received : i \in Received' /\ judged'[i] = judged[i] /\ i < N
        /\ \A i \in Received' : i \in Received \/ i = N
        /\ \A i \in Received' : ~(N < i) /\ i <= N
    BY <1>10, <1>12
  <2> HIDE DEF N
  <2>2. \A x : ~InProcess(c, x)'
    BY <1>1, <1>12 DEF InProcess, FirstStage
  <2>3. ReceivedOnce'
    <3>1. \A i \in Received' : judged'[i].kind \in {"submit", "result"}
      BY <1>i, <1>12, <2>1 DEF ReceivedOnce
    <3>2. \A i, k \in Received' : judged'[i].kind = judged'[k].kind /\ judged'[i].id = judged'[k].id => i = k
      BY <1>i, <1>8, <1>12, <2>1 DEF ReceivedOnce, SubmitAt
    <3>3. \A i \in Received' : judged'[i].id \notin UnsentIds \cup SendingIds
      BY <1>i, <1>6, <2>1 DEF ReceivedOnce
    <3>4. \A i \in Received', m \in Queue' :
             judged'[i].id = events'[m].id => judged'[i].kind = "submit" /\ events'[m].kind = "result"
      BY <1>i, <1>4, <1>5, <2>1 DEF ReceivedOnce, SubmitAt
    <3>5. QED
      BY <1>2, <3>1, <3>2, <3>3, <3>4 DEF ReceivedOnce, SubmitAt
  <2>4. JudgedLast(c)'
    BY <2>2 DEF JudgedLast
  <2>5. \A i \in Received' : SubmitAt(i)' => i \in Received /\ SubmitAt(i) /\ judged'[i] = judged[i]
    BY <1>12, <2>1 DEF SubmitAt
  <2>6. VerdictsInOrder'
    <3> SUFFICES ASSUME NEW i \in Received', NEW j \in Received', NEW k \in Received', NEW l \in Received',
                        SubmitAt(i)', SubmitAt(j)', ResultFor(i, judged[k])', ResultFor(j, judged[l])', i < j
                 PROVE  k < l
      BY DEF VerdictsInOrder, Received, SubmitAt, ResultFor
    <3>1. i \in Received /\ j \in Received /\ SubmitAt(i) /\ SubmitAt(j)
          /\ judged'[i] = judged[i] /\ judged'[j] = judged[j]
      BY <2>5
    <3>2. CASE k \in Received /\ l \in Received
      BY <1>i, <2>1, <3>1, <3>2 DEF InLine, VerdictsInOrder, Received, SubmitAt, ResultFor
    <3>3. CASE k = N
      <4>1. ResultFor(i, events[1])
        BY <1>3, <2>1, <3>1, <3>3 DEF ResultFor
      <4>2. l # N
        <5>1. judged[i].id # judged[j].id
          <6>1. ~(i = j)
            BY DEF Received
          <6>2. QED
            BY <1>i, <3>1, <6>1 DEF ReceivedOnce, SubmitAt
        <5>2. QED
          BY <2>1, <3>1, <3>3, <5>1 DEF ResultFor
      <4>3. l \in Received /\ ResultFor(j, judged[l])
        BY <2>1, <3>1, <4>2 DEF ResultFor
      <4>4. QED
        BY <1>i, <1>3, <3>1, <4>1, <4>3 DEF InLine
    <3>4. CASE k \in Received /\ l = N
      BY <2>1, <3>4
    <3>5. QED
      BY <2>1, <3>2, <3>3, <3>4
  <2>7. \A i, j, l \in Received', m \in Queue' :
           SubmitAt(i)' /\ SubmitAt(j)' /\ i < j /\ ResultFor(j, judged[l])' => ~ResultFor(i, events[m])'
    <3> SUFFICES ASSUME NEW i \in Received', NEW j \in Received', NEW l \in Received', NEW m \in Queue',
                        SubmitAt(i)', SubmitAt(j)', i < j, ResultFor(j, judged[l])', ResultFor(i, events[m])'
                 PROVE  FALSE
      OBVIOUS
    <3>1. i \in Received /\ j \in Received /\ SubmitAt(i) /\ SubmitAt(j)
          /\ judged'[i] = judged[i] /\ judged'[j] = judged[j]
      BY <2>5
    <3>2. m + 1 \in Queue /\ ResultFor(i, events[m + 1])
      BY <1>4, <3>1 DEF ResultFor
    <3>3. CASE l \in Received
      BY <1>i, <2>1, <3>1, <3>2, <3>3 DEF InLine, ResultFor
    <3>4. CASE l = N
      <4>1. ResultFor(j, events[1])
        BY <1>3, <2>1, <3>1, <3>4 DEF ResultFor
      <4>2. QED
        BY <1>i, <1>3, <1>4, <3>1, <3>2, <4>1 DEF InLine
    <3>5. QED
      BY <2>1, <3>3, <3>4
  <2>8. \A i, j \in Received', m, n \in Queue' :
             SubmitAt(i)' /\ SubmitAt(j)' /\ i < j /\ ResultFor(i, events[m])' /\ ResultFor(j, events[n])'
                 => m < n
    <3>1. \A i, j \in Received', m, n \in Queue' :
             SubmitAt(i)' /\ SubmitAt(j)' /\ i < j /\ ResultFor(i, events[m])' /\ ResultFor(j, events[n])'
                 => m + 1 < n + 1
      BY <1>i, <1>4, <2>5 DEF InLine, ResultFor
    <3>2. \A m, n \in Queue' : m + 1 < n + 1 => m < n
      BY <1>4
    <3>3. QED
      BY <3>1, <3>2
  <2>9. QED
    BY <2>3, <2>4, <2>6, <2>7, <2>8 DEF InLine
<1>13. QED
  BY <1>9, <1>11, <1>12

LEMMA OrderStep ==
    ASSUME NEW c, Consumers = {c}, OrderInv(c), [LooseNext]_vars
    PROVE  OrderInv(c)'
<1>i. PlaceInv /\ ReceivedOnce /\ JudgedLast(c) /\ InLine /\ c \in Consumers
  BY DEF OrderInv
<1>t. at \in [Consumers -> Stages] /\ ev \in [Consumers -> Event \cup {None}]
  BY <1>i DEF PlaceInv, TInv, TypeOK
<1> SUFFICES (ReceivedOnce /\ JudgedLast(c) /\ InLine)'
  BY <1>i, PlaceInvStep DEF OrderInv
<1>1. CASE UNCHANGED vars \/ \E e \in Requests : Ask(e)
  <2>1. /\ UNCHANGED <<judged, events, at, ev>>
        /\ UnsentIds' \cup SendingIds' \subseteq UnsentIds \cup SendingIds
    BY <1>1 DEF vars, Ask, Spawn, history, UnsentIds, SendingIds
  <2>2. \A x : InProcess(c, x)' => InProcess(c, x)
    BY <2>1 DEF InProcess
  <2>3. QED
    BY <1>i, <2>1, <2>2, OrderKept
<1>2. ASSUME NEW e \in Requests, Send(e) PROVE (ReceivedOnce /\ JudgedLast(c) /\ InLine)'
  BY <1>2, <1>i, OrderSend
<1>3. CASE Recv(c)
  BY <1>3, <1>i, OrderRecv
<1>4. CASE Post(c)
  BY <1>4, <1>i, OrderPost
<1>5. CASE LoadPlayer(c) \/ CheckPlayer(c) \/ InsertPlayer(c) \/ RemovePlayer(c) \/ Rank(c)
           \/ DeleteRoom(c) \/ Lookup(c) \/ Judge(c) \/ Accept(c) \/ Deliver(c) \/ AddScore(c)
  <2>1. UNCHANGED <<judged, events, unsent, sending>>
    BY <1>5 DEF LoadPlayer, CheckPlayer, InsertPlayer, RemovePlayer, Rank, DeleteRoom, Lookup, Judge,
                Accept, Deliver, AddScore, history
  <2>2. UnsentIds' = UnsentIds /\ SendingIds' = SendingIds
    BY <2>1 DEF UnsentIds, SendingIds
  <2>3. CASE Lookup(c) \/ Judge(c) \/ Accept(c)
    <3>1. at[c] \in {"lookup", "judge"} /\ (UNCHANGED ev \/ at'[c] = "recv")
      BY <1>t, <2>3 DEF Lookup, Judge, Accept, Return, Continue, Conclude, Goto
    <3>2. \A x : InProcess(c, x)' => InProcess(c, x)
      BY <3>1 DEF InProcess
    <3>3. QED
      BY <1>i, <2>1, <2>2, <3>2, OrderKept
  <2>4. CASE LoadPlayer(c) \/ CheckPlayer(c) \/ InsertPlayer(c) \/ RemovePlayer(c) \/ Rank(c)
             \/ DeleteRoom(c) \/ Deliver(c) \/ AddScore(c)
    <3>1. at'[c] \in {"recv", "check", "rank", "insert"}
      BY <1>t, <2>4 DEF LoadPlayer, CheckPlayer, InsertPlayer, RemovePlayer, Rank, DeleteRoom,
                        Deliver, AddScore, Return, Continue, Goto
    <3>2. \A x : InProcess(c, x)' => InProcess(c, x)
      BY <3>1 DEF InProcess
    <3>3. QED
      BY <1>i, <2>1, <2>2, <3>2, OrderKept
  <2>5. QED
    BY <1>5, <2>3, <2>4
<1>6. QED
  BY <1>1, <1>2, <1>3, <1>4, <1>5 DEF LooseNext, ConsumerStep

LEMMA OrderedVerdictsLoosely ==
    ASSUME NEW c, Consumers = {c}
    PROVE  LooseSpec => []VerdictsInOrder
<1>1. Init => OrderInv(c)
  <2> SUFFICES ASSUME Init PROVE OrderInv(c)
    OBVIOUS
  <2>1. Received = {} /\ Queue = {} /\ SendingIds = {} /\ QueueIds = {} /\ ProcessIds = {}
        /\ SentIds = {} /\ Processing = {} /\ Len(events) = 0 /\ Len(judged) = 0
    BY DEF Init, Received, Queue, SendingIds, QueueIds, ProcessIds, Processing, SentIds
  <2>2. Single /\ IdsApart
    BY <2>1 DEF Init, Single, IdsApart, Apart
  <2>3. ReceivedOnce /\ JudgedLast(c) /\ InLine
    BY <2>1 DEF ReceivedOnce, JudgedLast, InLine, VerdictsInOrder, Received
  <2>4. QED
    BY <2>2, <2>3, TInvInit DEF OrderInv, PlaceInv
<1>2. OrderInv(c) /\ [LooseNext]_vars => OrderInv(c)'
  BY OrderStep
<1>3. OrderInv(c) => VerdictsInOrder
  BY DEF OrderInv, InLine
<1>4. QED
  BY <1>1, <1>2, <1>3, PTL DEF LooseSpec

\* With one Start goroutine, verdicts come in the order in which the submissions were
\* received, whatever is in the channel between them.
THEOREM OrderedVerdicts ==
    ASSUME NEW c, Consumers = {c}
    PROVE  Spec => []VerdictsInOrder
  BY OrderedVerdictsLoosely, Loosen, PTL

-------------------------------------------------------------------------------
(* What the scores can be.  A member starts with the score of addPlayerToRoom;  *)
(* processSolutionResult adds an Int4 it never made valid, which is SQL's null. *)

\* what each change of the rows does to the score of one player
LEMMA ScoreStep ==
    ASSUME TInv, [LooseNext]_vars
    PROVE  \/ UNCHANGED rows
           \/ \E c \in Consumers : /\ InsertPlayer(c) /\ ev[c].player \notin Members
                                   /\ rows' = [rows EXCEPT ![ev[c].player] = NewRow]
           \/ \E c \in Consumers : /\ RemovePlayer(c)
                                   /\ rows' = [rows EXCEPT ![ev[c].player] = None]
           \/ /\ Members' = Members
              /\ \A p \in Members : rows'[p].score \in {rows[p].score, Null}
              /\ \A p \in Members : rows'[p].score # rows[p].score =>
                     \E c \in Consumers : AddScore(c) /\ ev[c].player = p
<1>0. RowsTyped
  BY TypeParts DEF TInv
<1>1. ASSUME NEW c \in Consumers, Rank(c), ~UNCHANGED rows
      PROVE  Members' = Members /\ \A p \in Members : rows'[p].score = rows[p].score
  <2>1. rows' = Ranked
    BY <1>1 DEF Rank, Ranked
  <2>2. QED
    BY <1>0, <2>1, RankedTyped DEF Members
<1>2. ASSUME NEW c \in Consumers, AddScore(c), ~UNCHANGED rows
      PROVE  /\ Members' = Members
             /\ \A p \in Members : IF p = ev[c].player THEN rows'[p].score = Null
                                                      ELSE rows'[p].score = rows[p].score
  <2>1. /\ ev[c].player \in Members
        /\ rows' = [rows EXCEPT ![ev[c].player].score = SqlAdd(@, ScoreToAdd)]
    BY <1>2 DEF AddScore
  <2>2. \A x : SqlAdd(x, ScoreToAdd) = Null /\ Null \in Int
    BY DEF SqlAdd, ScoreToAdd, Null
  <2>3. \A p \in Players : rows[p] # None => rows[p] \in Row
    BY <1>0 DEF RowsTyped
  <2>4. /\ \A p \in Players : p # ev[c].player => rows'[p] = rows[p]
        /\ rows'[ev[c].player] \in Row /\ rows'[ev[c].player].score = Null
    BY <1>0, <2>1, <2>2, <2>3 DEF RowsTyped, Members, Row
  <2>5. None \notin Row
    BY RoomAssumption DEF RoomAssumption, Row
  <2>6. QED
    BY <2>1, <2>4, <2>5 DEF Members
<1>3. UNCHANGED rows \/ \E c \in Consumers : InsertPlayer(c) \/ RemovePlayer(c) \/ Rank(c) \/ AddScore(c)
  BY DEF LooseNext, ConsumerStep, Ask, Spawn, Send, Recv, LoadPlayer, CheckPlayer, DeleteRoom, Lookup,
         Judge, Accept, Post, Deliver, db, vars
<1>4. ASSUME NEW c \in Consumers, InsertPlayer(c), ~UNCHANGED rows
      PROVE  ev[c].player \notin Members /\ rows' = [rows EXCEPT ![ev[c].player] = NewRow]
  BY <1>4 DEF InsertPlayer
<1>5. ASSUME NEW c \in Consumers, RemovePlayer(c), ~UNCHANGED rows
      PROVE  rows' = [rows EXCEPT ![ev[c].player] = None]
  BY <1>5 DEF RemovePlayer
<1>6. QED
  BY <1>1, <1>2, <1>3, <1>4, <1>5

\* what a member's score can be: as it was given, or null
ScoresGiven == \A p \in Members : rows[p].score \in {NewRow.score, Null}

LEMMA ScoresGivenAlways == LooseSpec => []ScoresGiven
<1>1. Init => ScoresGiven
  BY LeftoverFacts DEF Init, ScoresGiven, Members
<1>2. ASSUME TInv, ScoresGiven, [LooseNext]_vars PROVE ScoresGiven'
  <2>0. RowsTyped
    BY <1>2, TypeParts DEF TInv
  <2>1. CASE UNCHANGED rows
    BY <1>2, <2>1 DEF ScoresGiven, Members
  <2>2. ASSUME NEW p, NEW row, row \in {NewRow, None}, rows' = [rows EXCEPT ![p] = row]
        PROVE  ScoresGiven'
    <3>1. \A q \in Members' : q \in Players /\ (rows'[q] = rows[q] \/ rows'[q] = NewRow)
      BY <2>0, <2>2 DEF RowsTyped, Members
    <3>2. \A q \in Players : rows'[q] # None /\ rows'[q] = rows[q] => q \in Members
      BY DEF Members
    <3>3. QED
      BY <1>2, <3>1, <3>2 DEF ScoresGiven, Members
  <2>3. CASE Members' = Members /\ \A p \in Members : rows'[p].score \in {rows[p].score, Null}
    BY <1>2, <2>3 DEF ScoresGiven
  <2>4. QED
    BY <1>2, <2>1, <2>2, <2>3, ScoreStep
<1>3. QED
  BY <1>1, <1>2, TInvAlways, PTL DEF LooseSpec

\* the members who have lost their score to a solution that was accepted
Scoreless == {p \in Members : rows[p].score = Null}

\* the places, once they were computed and when nobody is about to compute them anew
TwoPlaces ==
    LeaderboardTold /\ (\A c \in Consumers : at[c] # "rank") =>
        \A p \in Members : rows[p].place = IF p \in Scoreless THEN 1 ELSE 1 + Cardinality(Scoreless)

\* Nobody's score ever rises: whatever is submitted, in this life or before, a member has the
\* score of addPlayerToRoom or, once a solution was accepted, none (room_manager.go:308-312).
THEOREM NoPoints == Spec => []ScoresGiven
  BY ScoresGivenAlways, Loosen, PTL

\* The leaderboard tells those whose solutions were accepted from the others, and nothing
\* more: all of the former are first, all of the latter follow them, in one place.
THEOREM TwoRanks == ASSUME DbFaults = FALSE PROVE Spec => []TwoPlaces
<1>1. ASSUME ScoresGiven, LeaderboardFresh PROVE TwoPlaces
  <2> SUFFICES ASSUME NEW p \in Members, rows[p].place = RankOf(p)
               PROVE  rows[p].place = IF p \in Scoreless THEN 1 ELSE 1 + Cardinality(Scoreless)
    BY <1>1 DEF TwoPlaces, LeaderboardFresh
  <2> DEFINE better == {q \in Members : Before(rows[q].score, rows[p].score)}
  <2>1. \A q \in Members : rows[q].score \in {12, -1}
    BY <1>1 DEF ScoresGiven, NewRow, Null
  <2>2. CASE p \in Scoreless
    <3>1. better = {}
      BY <2>1, <2>2 DEF Before, Scoreless, Null
    <3>2. QED
      BY <2>2, <3>1, FS_EmptySet DEF RankOf
  <2>3. CASE p \notin Scoreless
    <3>1. better = Scoreless
      BY <2>1, <2>3 DEF Before, Scoreless, Null
    <3>2. QED
      BY <2>3, <3>1 DEF RankOf
  <2>4. QED
    BY <2>2, <2>3
<1>2. QED
  BY <1>1, ScoresGivenAlways, FreshLoosely, Loosen, PTL

\* A score that was lost is lost: as long as the player is a member, no later solution
\* brings it back, and nobody else's solution takes it.
THEOREM ScoreLost ==
    Spec => [][/\ \A p \in Scoreless : p \in Members' => p \in Scoreless'
               /\ \A p \in Members : p \in Scoreless' /\ p \notin Scoreless =>
                      \E c \in Consumers : AddScore(c) /\ ev[c].player = p]_vars
<1> DEFINE Lost == /\ \A p \in Scoreless : p \in Members' => p \in Scoreless'
                   /\ \A p \in Members : p \in Scoreless' /\ p \notin Scoreless =>
                          \E c \in Consumers : AddScore(c) /\ ev[c].player = p
<1>1. ASSUME TInv, [LooseNext]_vars PROVE Lost
  <2>0. RowsTyped
    BY <1>1, TypeParts DEF TInv
  <2>1. CASE UNCHANGED rows
    BY <2>1 DEF Scoreless, Members
  <2>2. ASSUME NEW c \in Consumers, ev[c].player \notin Members,
               rows' = [rows EXCEPT ![ev[c].player] = NewRow]
        PROVE  Lost
    BY <2>0, <2>2 DEF Scoreless, Members, RowsTyped
  <2>3. ASSUME NEW c \in Consumers, rows' = [rows EXCEPT ![ev[c].player] = None] PROVE Lost
    BY <2>0, <2>3 DEF Scoreless, Members, RowsTyped
  <2>4. CASE /\ Members' = Members
             /\ \A p \in Members : rows'[p].score \in {rows[p].score, Null}
             /\ \A p \in Members : rows'[p].score # rows[p].score =>
                    \E c \in Consumers : AddScore(c) /\ ev[c].player = p
    BY <2>4 DEF Scoreless
  <2>5. QED
    BY <1>1, <2>1, <2>2, <2>3, <2>4, ScoreStep
<1>2. QED
  BY <1>1, TInvAlways, Loosen, PTL DEF LooseSpec

-------------------------------------------------------------------------------
(* The channel that a Start goroutine both reads and writes.                    *)

\* the requests that are on their way: at a sender, in the channel or in process
Outstanding == {e \in Requests : e.id \in SendingIds \cup QueueIds \cup ProcessIds}
Queued == {e \in Requests : e.id \in QueueIds}

\* An event is of a request, or of the result made of one.
LEMMA OfRequest ==
    ASSUME NEW x \in Event PROVE \E e \in Requests : e.id = x.id
  BY DEF Event, Results, Verdict

\* The events in the channel are of different requests.
LEMMA QueuedCount ==
    ASSUME PlaceInv, IsFiniteSet(Requests)
    PROVE  Len(events) <= Cardinality(Queued) /\ IsFiniteSet(Queued)
<1>1. events \in Seq(Event) /\ Len(events) \in Nat
  BY LenProperties DEF PlaceInv, TInv, TypeOK
<1>2. IsFiniteSet(Queued)
  BY FS_Subset DEF Queued
<1> DEFINE f == [i \in 1 .. Len(events) |-> CHOOSE e \in Requests : e.id = events[i].id]
<1>3. \A i \in 1 .. Len(events) : events[i] \in Event
  BY <1>1
<1>4. \A i \in 1 .. Len(events) : f[i] \in Requests /\ f[i].id = events[i].id
  BY <1>3, OfRequest
<1>5. \A i \in 1 .. Len(events) : f[i] \in Queued
  BY <1>4 DEF Queued, QueueIds
<1>6. \A i, j \in 1 .. Len(events) : f[i] = f[j] => i = j
  BY <1>4 DEF PlaceInv, Single
<1> HIDE DEF f
<1>7. f \in Injection(1 .. Len(events), Queued)
  BY <1>5, <1>6 DEF f, Injection, IsInjective
<1>8. Cardinality(1 .. Len(events)) <= Cardinality(Queued)
  BY <1>2, <1>7, FS_Injection
<1>9. ASSUME NEW n \in Nat PROVE Cardinality(1 .. n) = n
  <2>1. Cardinality(1 .. n) = IF 1 > n THEN 0 ELSE n - 1 + 1
    BY FS_Interval
  <2>2. QED
    BY <2>1
<1>10. QED
  BY <1>1, <1>2, <1>8, <1>9

\* The channel can fill up only while more requests than it holds are outstanding:
\* those in it, and the submission whose result does not fit.
BlockedByMany ==
    \A c \in Consumers : at[c] = "post" /\ Len(events) = EventCap => Cardinality(Outstanding) > EventCap

LEMMA BlockedByManyHolds == ASSUME PlaceInv, IsFiniteSet(Requests) PROVE BlockedByMany
<1> SUFFICES ASSUME NEW c \in Consumers, at[c] = "post", Len(events) = EventCap
             PROVE  Cardinality(Outstanding) > EventCap
  BY DEF BlockedByMany
<1>1. ev[c] \in Requests /\ ev[c] # None
  BY EventFacts DEF PlaceInv, TInv, Locals, Local
<1>2. ev[c].id \in ProcessIds
  BY <1>1 DEF ProcessIds, Processing
<1>3. ev[c] \notin Queued
  BY <1>2 DEF PlaceInv, IdsApart, Apart, Queued
<1>4. Queued \cup {ev[c]} \subseteq Outstanding /\ IsFiniteSet(Outstanding)
  BY <1>1, <1>2, FS_Subset DEF Queued, Outstanding
<1>5. /\ Len(events) <= Cardinality(Queued) /\ IsFiniteSet(Queued)
      /\ Cardinality(Queued) \in Nat /\ Cardinality(Outstanding) \in Nat /\ EventCap \in Nat
  BY <1>4, QueuedCount, FS_CardinalityType, RoomAssumption DEF RoomAssumption
<1>6. Cardinality(Queued \cup {ev[c]}) = Cardinality(Queued) + 1
  BY <1>3, <1>5, FS_AddElement
<1>7. Cardinality(Queued \cup {ev[c]}) <= Cardinality(Outstanding)
  BY <1>4, FS_Subset
<1>8. QED
  BY <1>5, <1>6, <1>7

\* A Start goroutine blocks on the send of a result to its own channel
\* (room_manager.go:245, 261, 273) only while more requests are outstanding than the
\* channel holds, with any number of Start goroutines.
THEOREM BlockedByOthers == ASSUME IsFiniteSet(Requests) PROVE Spec => []BlockedByMany
<1>1. PlaceInv => BlockedByMany
  BY BlockedByManyHolds
<1>2. QED
  BY <1>1, PlaceInvAlways, Loosen, PTL

\* a full channel, and no Start goroutine that could take from it
Wedged ==
    /\ Len(events) = EventCap
    /\ \A c \in Consumers : at[c] \in {"post", "hung"}

\* A wedged room is dead for good: nothing is received, sent or told any more, and no row
\* changes, whatever clients go on asking for; only senders pile up.
THEOREM WedgedForGood ==
    Spec => [][Wedged => Wedged' /\ UNCHANGED <<events, at, ev, verdict, rows, roomRow, sent>>]_vars
<1>1. ASSUME [LooseNext]_vars, Wedged
      PROVE  Wedged' /\ UNCHANGED <<events, at, ev, verdict, rows, roomRow, sent>>
  <2>1. /\ Len(events) = EventCap /\ EventCap \in Nat
        /\ \A c \in Consumers : at[c] \in {"post", "hung"}
    BY <1>1, RoomAssumption DEF Wedged, RoomAssumption
  <2>2. ASSUME NEW c \in Consumers PROVE ~ConsumerStep(c)
    <3>1. at[c] = "post" \/ at[c] = "hung"
      BY <2>1
    <3>2. ~Post(c)
      BY <2>1 DEF Post
    <3>3. ~Recv(c) /\ ~LoadPlayer(c) /\ ~CheckPlayer(c) /\ ~InsertPlayer(c) /\ ~RemovePlayer(c)
      BY <3>1 DEF Recv, LoadPlayer, CheckPlayer, InsertPlayer, RemovePlayer
    <3>4. ~Rank(c) /\ ~DeleteRoom(c) /\ ~Lookup(c) /\ ~Deliver(c) /\ ~AddScore(c)
      BY <3>1 DEF Rank, DeleteRoom, Lookup, Deliver, AddScore
    <3>5. ~Judge(c) /\ ~Accept(c)
      BY <3>1 DEF Judge, Accept
    <3>6. QED
      BY <3>2, <3>3, <3>4, <3>5 DEF ConsumerStep
  <2>3. ~ \E e \in Requests : Send(e)
    BY <2>1 DEF Send
  <2>4. (\E e \in Requests : Ask(e)) \/ UNCHANGED vars
    BY <1>1, <2>2, <2>3 DEF LooseNext
  <2>5. UNCHANGED <<events, at, ev, verdict, rows, roomRow, sent>>
    BY <2>4 DEF Ask, Spawn, vars, db
  <2>6. QED
    BY <2>1, <2>5 DEF Wedged
<1>2. Spec => [][LooseNext]_vars
  BY Loosen, PTL DEF LooseSpec
<1>3. QED
  BY <1>1, <1>2, PTL

================================================================================
