------------------------- MODULE RoomRefinementProofs -------------------------
(***************************************************************************)
(* RoomManager implements RoomService, for any players, requests, test     *)
(* cases, channel capacity and number of Start goroutines, whether         *)
(* statements fail or not.                                                 *)
(***************************************************************************)
EXTENDS RoomRefinement, RoomManagerProofs

(* What the places of an event, PlaceInv, do not tell: a goroutine has a      *)
(* SolutionResult at "post" only, and a result goes the way of its status.    *)
Way(stage, e, v) ==
    /\ stage # "post" => v = None
    /\ stage = "deliver" => e.kind = "result" /\ e.status # "Accepted"
    /\ stage = "score" => e.kind = "result" /\ e.status = "Accepted"
    /\ stage = "rank" /\ e.kind = "result" => e.status = "Accepted"

Ways == \A c \in Consumers : Way(at[c], ev[c], verdict[c])

RInv == PlaceInv /\ Ways

LEMMA WaysStep == TInv /\ Ways /\ [LooseNext]_vars => Ways'
<1> SUFFICES ASSUME TInv, Ways, [LooseNext]_vars PROVE Ways'
  OBVIOUS
<1>t. ConsumerTyped /\ Locals /\ events \in Seq(Event)
  BY TypeParts DEF TInv, ChannelTyped
<1>1. ASSUME NEW c \in Consumers, NEW stage, NEW e, NEW v, Way(stage, e, v),
             at' = [at EXCEPT ![c] = stage], ev' = [ev EXCEPT ![c] = e],
             verdict' = [verdict EXCEPT ![c] = v]
      PROVE  Ways'
  <2>1. /\ at'[c] = stage /\ ev'[c] = e /\ verdict'[c] = v
        /\ \A d \in Consumers \ {c} : at'[d] = at[d] /\ ev'[d] = ev[d] /\ verdict'[d] = verdict[d]
    BY <1>t, <1>1 DEF ConsumerTyped
  <2>2. QED
    BY <1>1, <2>1 DEF Ways
<1>2. ASSUME NEW c \in Consumers, Return(c) PROVE Ways'
  <2>1. Way("recv", None, None)
    BY DEF Way
  <2>2. QED
    BY <1>1, <1>2, <2>1 DEF Return, Goto
<1>3. ASSUME NEW c \in Consumers, NEW stage, Goto(c, stage), UNCHANGED <<ev, verdict>>,
             Way(stage, ev[c], verdict[c])
      PROVE  Ways'
  <2>1. at'[c] = stage /\ \A d \in Consumers \ {c} : at'[d] = at[d]
    BY <1>3, <1>t DEF ConsumerTyped, Goto
  <2>2. QED
    BY <1>3, <2>1 DEF Ways
<1>4. ASSUME NEW c \in Consumers, NEW s, NEW y, Conclude(c, s, y) PROVE Ways'
  <2>1. ev' = [ev EXCEPT ![c] = ev[c]]
    BY <1>4, <1>t DEF ConsumerTyped, Conclude
  <2>2. Way("post", ev[c], Verdict(ev[c], s, y))
    BY DEF Way
  <2>3. QED
    BY <1>1, <1>4, <2>1, <2>2 DEF Conclude, Goto
<1>5. ASSUME UNCHANGED <<at, ev, verdict>> PROVE Ways'
  BY <1>5 DEF Ways
<1>6. ASSUME NEW c \in Consumers, Recv(c) PROVE Ways'
  <2> DEFINE e == Head(events)
  <2>1. /\ at' = [at EXCEPT ![c] = FirstStage(e)] /\ ev' = [ev EXCEPT ![c] = e]
        /\ verdict' = verdict /\ at[c] = "recv" /\ e \in Event
    BY <1>6, <1>t, PopEvent DEF Recv, Goto
  <2> HIDE DEF e
  <2>2. verdict[c] = None /\ verdict' = [verdict EXCEPT ![c] = None]
    BY <1>t, <2>1 DEF Ways, Way, ConsumerTyped
  <2>3. Way(FirstStage(e), e, None)
    BY <2>1, EventKinds DEF Way, FirstStage, Kinds
  <2>4. QED
    BY <1>1, <2>1, <2>2, <2>3
<1>7. ASSUME NEW c \in Consumers,
             LoadPlayer(c) \/ CheckPlayer(c) \/ InsertPlayer(c) \/ RemovePlayer(c) \/ AddScore(c)
      PROVE  Ways'
  <2>1. Return(c) \/ \E stage \in {"check", "insert", "rank"} : Continue(c, stage)
    BY <1>7 DEF LoadPlayer, CheckPlayer, InsertPlayer, RemovePlayer, AddScore
  <2>2. /\ at[c] \in {"player", "check", "insert", "remove", "score"}
        /\ at[c] # "score" => ev[c].kind # "result"
    BY <1>7, <1>t DEF LoadPlayer, CheckPlayer, InsertPlayer, RemovePlayer, AddScore, Locals, Local
  <2>3. \A stage \in {"check", "insert", "rank"} : Way(stage, ev[c], verdict[c])
    BY <2>2 DEF Ways, Way
  <2>4. QED
    BY <1>2, <1>3, <2>1, <2>3 DEF Continue
<1>8. ASSUME NEW c \in Consumers, Lookup(c) \/ Judge(c) \/ Accept(c) PROVE Ways'
  <2>1. \/ Return(c)
        \/ UNCHANGED <<at, ev, verdict>>
        \/ \E s, y : Conclude(c, s, y)
        \/ \E stage \in {"judge", "hung"} : Goto(c, stage) /\ UNCHANGED <<ev, verdict>>
    BY <1>8 DEF Lookup, Judge, Accept, Continue
  <2>2. at[c] \in {"lookup", "judge"}
    BY <1>8 DEF Lookup, Judge, Accept
  <2>3. \A stage \in {"judge", "hung"} : Way(stage, ev[c], verdict[c])
    BY <2>2 DEF Ways, Way
  <2>4. QED
    BY <1>2, <1>3, <1>4, <1>5, <2>1, <2>3
<1>9. ASSUME NEW c \in Consumers, Rank(c) \/ DeleteRoom(c) \/ Post(c) \/ Deliver(c) PROVE Ways'
  BY <1>2, <1>9 DEF Rank, DeleteRoom, Post, Deliver
<1>10. ASSUME NEW e \in Requests, Ask(e) \/ Send(e) PROVE Ways'
  BY <1>5, <1>10 DEF Ask, Spawn, Send
<1>11. CASE UNCHANGED vars
  BY <1>5, <1>11 DEF vars
<1>12. QED
  BY <1>6, <1>7, <1>8, <1>9, <1>10, <1>11 DEF LooseNext, ConsumerStep

LEMMA RInvAlways == LooseSpec => []RInv
<1>1. Init => Ways
  BY DEF Init, Ways, Way
<1>2. LooseSpec => []Ways
  BY <1>1, WaysStep, TInvAlways, PTL DEF LooseSpec
<1>3. QED
  BY <1>2, PlaceInvAlways, PTL DEF RInv

-------------------------------------------------------------------------------
(* The status of a request, by the place it is in.                            *)

StatusIs(e) ==
    /\ e \in unsent => StatusOf(e) = "new"
    /\ Announced(e) => StatusOf(e) = "told"
    /\ Done(e) => StatusOf(e) = "done"
    /\ Asked(e) => StatusOf(e) = "asked"
    /\ e \notin unsent /\ ~Announced(e) /\ ~Done(e) /\ ~Asked(e) => StatusOf(e) = "dropped"

Mapped == \A e \in Requests : StatusIs(e)

\* The places of an event, by the id.
LEMMA IdsOf ==
    ASSUME NEW e \in Requests
    PROVE  /\ e \in unsent => e.id \in UnsentIds
           /\ e \in sending => e.id \in SendingIds
           /\ InEvents(e) \/ ResultInEvents(e) => e.id \in QueueIds
           /\ \A S : Processed(e, S) => e.id \in ProcessIds
           /\ Announced(e) <=> e.id \in SentIds
<1>1. /\ e \in unsent => e.id \in UnsentIds
      /\ e \in sending => e.id \in SendingIds
  BY DEF UnsentIds, SendingIds
<1>2. InEvents(e) \/ ResultInEvents(e) => e.id \in QueueIds
  BY DEF InEvents, ResultInEvents, QueueIds
<1>3. \A S : Processed(e, S) => e.id \in ProcessIds
  BY DEF Processed, ProcessIds, Processing
<1>4. Announced(e) <=> e.id \in SentIds
  BY DEF Announced, SentIds
<1>5. QED
  BY <1>1, <1>2, <1>3, <1>4

LEMMA Mapping == PlaceInv => Mapped
<1> SUFFICES ASSUME PlaceInv, NEW e \in Requests PROVE StatusIs(e)
  BY DEF Mapped
<1>1. ~(InEvents(e) /\ ResultInEvents(e))
  <2>1. e.kind # "result"
    BY EventFacts DEF Kinds
  <2>2. QED
    BY <2>1 DEF InEvents, ResultInEvents, PlaceInv, Single
<1>2. ~(Processed(e, DoneStages) /\ Processed(e, Stages \ DoneStages))
  BY DEF Processed, PlaceInv, Single, Processing
<1>3. Done(e) => e.id \in QueueIds \cup ProcessIds
  BY IdsOf DEF Done
<1>4. Asked(e) => e.id \in SendingIds \cup QueueIds \cup ProcessIds
  BY IdsOf DEF Asked
<1>5. ~(Done(e) /\ Asked(e))
  <2>1. Apart(UnsentIds, SendingIds, QueueIds, ProcessIds, SentIds)
    BY DEF PlaceInv, IdsApart
  <2>2. ~(e.id \in QueueIds /\ e.id \in ProcessIds) /\ ~(e.id \in SendingIds /\ e.id \in QueueIds \cup ProcessIds)
    BY <2>1 DEF Apart
  <2>3. QED
    BY <1>1, <1>2, <1>3, <2>2, IdsOf DEF Done, Asked
<1>6. /\ e \in unsent => ~Announced(e) /\ ~Done(e) /\ ~Asked(e)
      /\ Announced(e) => ~Done(e) /\ ~Asked(e)
  BY <1>3, <1>4, IdsOf DEF PlaceInv, IdsApart, Apart
<1>7. QED
  BY <1>5, <1>6 DEF StatusIs, StatusOf

\* A request that a goroutine processes, or whose result it does, is nowhere else.
LEMMA OnlyHere ==
    ASSUME PlaceInv, NEW c \in Consumers, NEW e \in Requests, ev[c] # None, ev[c].id = e.id
    PROVE  /\ e \notin unsent /\ e \notin sending /\ ~InEvents(e) /\ ~ResultInEvents(e) /\ ~Announced(e)
           /\ \A d \in Consumers \ {c} : ev[d] # None => ev[d].id # e.id
<1>1. e.id \in ProcessIds
  BY DEF ProcessIds, Processing
<1>2. e \notin unsent /\ e \notin sending /\ ~InEvents(e) /\ ~ResultInEvents(e) /\ ~Announced(e)
  BY <1>1, IdsOf DEF PlaceInv, IdsApart, Apart
<1>3. \A d \in Consumers \ {c} : ev[d] # None => ev[d].id # e.id
  BY DEF PlaceInv, Single, Processing
<1>4. QED
  BY <1>2, <1>3

\* A step of the goroutine that processes e, or its result, leaves other requests where
\* they are.
LEMMA OthersStatus ==
    ASSUME TInv, NEW c \in Consumers, NEW e \in Requests, ev[c] # None, ev[c].id = e.id,
           ev'[c] \in {ev[c], None},
           \A d \in Consumers \ {c} : ev'[d] = ev[d] /\ at'[d] = at[d],
           UNCHANGED <<unsent, sending>>,
           UNCHANGED events \/ \E r \in Event : r.id = e.id /\ events' = Append(events, r),
           UNCHANGED sent \/ \E n : n.of.id = e.id /\ sent' = sent \cup {n}
    PROVE  \A d \in Requests \ {e} : StatusOf(d)' = StatusOf(d)
<1> SUFFICES ASSUME NEW d \in Requests \ {e} PROVE StatusOf(d)' = StatusOf(d)
  OBVIOUS
<1>1. d.id # e.id
  BY SameIds
<1>2. (InEvents(d)' <=> InEvents(d)) /\ (ResultInEvents(d)' <=> ResultInEvents(d))
  <2>1. CASE UNCHANGED events
    BY <2>1 DEF InEvents, ResultInEvents
  <2>2. ASSUME NEW r \in Event, r.id = e.id, events' = Append(events, r)
        PROVE  (InEvents(d)' <=> InEvents(d)) /\ (ResultInEvents(d)' <=> ResultInEvents(d))
    <3>1. events \in Seq(Event)
      BY DEF TInv, TypeOK
    <3>2. /\ Len(events) \in Nat /\ Len(events') = Len(events) + 1
          /\ events'[Len(events) + 1] = r
          /\ \A i \in 1 .. Len(events) : events'[i] = events[i]
      BY <2>2, <3>1, AppendProperties, LenProperties
    <3>3. \A i : i \in 1 .. Len(events') <=> i \in 1 .. Len(events) \/ i = Len(events) + 1
      BY <3>2
    <3>4. r # d
      BY <1>1, <2>2
    <3>5. QED
      BY <1>1, <2>2, <3>2, <3>3, <3>4 DEF InEvents, ResultInEvents
  <2>3. QED
    BY <2>1, <2>2
<1>3. \A S : Processed(d, S)' <=> Processed(d, S)
  BY <1>1 DEF Processed
<1>4. Announced(d)' <=> Announced(d)
  <2>1. CASE UNCHANGED sent
    BY <2>1 DEF Announced
  <2>2. ASSUME NEW n, n.of.id = e.id, sent' = sent \cup {n} PROVE Announced(d)' <=> Announced(d)
    BY <1>1, <2>2 DEF Announced
  <2>3. QED
    BY <2>1, <2>2
<1>5. (Done(d)' <=> Done(d)) /\ (Asked(d)' <=> Asked(d))
  BY <1>2, <1>3 DEF Done, Asked
<1>6. QED
  BY <1>4, <1>5 DEF StatusOf

LEMMA MoveOf ==
    ASSUME NEW e \in Requests, NEW from, NEW to, StatusOf(e) = from, StatusOf(e)' = to,
           \A d \in Requests \ {e} : StatusOf(d)' = StatusOf(d)
    PROVE  Room!Move(e, from, to)
<1>1. statusBar = [d \in Requests |-> StatusOf(d)] /\ statusBar' = [d \in Requests |-> StatusOf(d)']
  BY DEF statusBar
<1>2. statusBar' = [statusBar EXCEPT ![e] = to] /\ statusBar[e] = from
  BY <1>1
<1>3. QED
  BY <1>2 DEF Room!Move

LEMMA StayOf ==
    ASSUME \A d \in Requests : StatusOf(d)' = StatusOf(d)
    PROVE  statusBar' = statusBar
  BY DEF statusBar

-------------------------------------------------------------------------------
(* The results.  A step moves a result from place to place; only the end of a  *)
(* judgement makes one.                                                        *)

There(r) ==
    /\ r # None /\ r.kind = "result"
    /\ \/ \E i \in 1 .. Len(events) : events[i] = r
       \/ \E c \in Consumers : ev[c] = r
       \/ \E c \in Consumers : verdict[c] = r
       \/ \E n \in sent : n.of = r

LEMMA ThereIs == \A r : r \in AllResults <=> There(r)
  BY DEF AllResults, Things, There

LEMMA VerdictsSame ==
    ASSUME \A r : There(r)' <=> There(r)
    PROVE  verdictBar' = verdictBar
<1>1. \A r : r \in AllResults' <=> There(r)'
  BY DEF AllResults, Things, There
<1>2. AllResults' = AllResults
  BY <1>1, ThereIs
<1>3. \A e \in Requests : VerdictOf(e)' = VerdictOf(e)
  BY <1>2 DEF VerdictOf, ResultOf
<1>4. QED
  BY <1>3 DEF verdictBar

\* The result of a submission is with the goroutine that processes its id.
LEMMA ResultPlace ==
    ASSUME RInv, NEW r, There(r), NEW c \in Consumers, ev[c] # None, ev[c].id = r.id
    PROVE  r = ev[c] \/ (at[c] = "post" /\ r = verdict[c])
<1>1. r.id \in ProcessIds
  BY DEF ProcessIds, Processing
<1>2. r.id \notin QueueIds /\ r.id \notin SentIds
  BY <1>1 DEF RInv, PlaceInv, IdsApart, Apart
<1>3. ~(\E i \in 1 .. Len(events) : events[i] = r) /\ ~(\E n \in sent : n.of = r)
  BY <1>2 DEF QueueIds, SentIds
<1>4. CASE \E d \in Consumers : ev[d] = r
  BY <1>4 DEF There, RInv, PlaceInv, Single, Processing
<1>5. CASE \E d \in Consumers : verdict[d] = r
  <2>1. PICK d \in Consumers : verdict[d] = r
    BY <1>5
  <2>2. at[d] = "post"
    BY <2>1 DEF There, RInv, Ways, Way
  <2>3. ev[d] # None /\ ev[d].id = r.id
    BY <2>1, <2>2 DEF RInv, PlaceInv, TInv, Locals, Local
  <2>4. d = c
    BY <2>3 DEF RInv, PlaceInv, Single, Processing
  <2>5. QED
    BY <2>1, <2>2, <2>4
<1>6. QED
  BY <1>3, <1>4, <1>5 DEF There

\* A result that is processed is the verdict of its submission.
LEMMA VerdictIs ==
    ASSUME RInv, NEW c \in Consumers, NEW e \in Requests, ev[c] # None, ev[c].id = e.id,
           ev[c].kind = "result"
    PROVE  VerdictOf(e) = IF ev[c].status = "Accepted" THEN "CORRECT" ELSE "WRONG"
<1>1. at[c] # "post"
  BY DEF RInv, PlaceInv, TInv, Locals, Local
<1>2. There(ev[c])
  BY DEF There
<1>3. \A r : There(r) /\ r.id = e.id => r = ev[c]
  BY <1>1, ResultPlace
<1>4. ResultOf(e) = {ev[c]}
  BY <1>2, <1>3, ThereIs DEF ResultOf
<1>5. QED
  BY <1>4 DEF VerdictOf

\* A new result is the verdict of its submission, and of no other.
LEMMA NewVerdict ==
    ASSUME RInv, NEW c \in Consumers, NEW e \in Requests, ev[c] = e, at[c] # "post",
           NEW v, v # None, v.kind = "result", v.id = e.id,
           \A r : There(r)' <=> There(r) \/ r = v
    PROVE  verdictBar' = [verdictBar EXCEPT ![e] = IF v.status = "Accepted" THEN "CORRECT" ELSE "WRONG"]
<1>1. e # None /\ e.kind # "result"
  BY EventFacts DEF Kinds
<1>2. \A r : There(r) => r.id # e.id
  BY <1>1, ResultPlace DEF There
<1>3. \A r : r \in AllResults' <=> There(r)'
  BY DEF AllResults, Things, There
<1>4. ResultOf(e)' = {v}
  BY <1>2, <1>3 DEF ResultOf
<1>5. \A d \in Requests \ {e} : ResultOf(d)' = ResultOf(d)
  <2>1. \A d \in Requests \ {e} : v.id # d.id
    BY SameIds
  <2>2. QED
    BY <1>3, <2>1, ThereIs DEF ResultOf
<1>6. VerdictOf(e)' = IF v.status = "Accepted" THEN "CORRECT" ELSE "WRONG"
  BY <1>4 DEF VerdictOf
<1>7. \A d \in Requests \ {e} : VerdictOf(d)' = VerdictOf(d)
  BY <1>5 DEF VerdictOf
<1>8. QED
  BY <1>6, <1>7 DEF verdictBar

\* A goroutine that returns hands its result on, or has none.
LEMMA ThereReturn ==
    ASSUME TInv, Ways, NEW c \in Consumers, Return(c),
           \/ ev[c].kind # "result" /\ at[c] # "post" /\ UNCHANGED <<events, sent>>
           \/ at[c] = "post" /\ events' = Append(events, verdict[c]) /\ UNCHANGED sent
           \/ at[c] # "post" /\ UNCHANGED events /\ \E n : n.of = ev[c] /\ sent' = sent \cup {n}
    PROVE  \A r : There(r)' <=> There(r)
<1> SUFFICES ASSUME NEW r, r # None, r.kind = "result" PROVE There(r)' <=> There(r)
  BY DEF There
<1>1. /\ ev'[c] = None /\ verdict'[c] = None
      /\ \A d \in Consumers \ {c} : ev'[d] = ev[d] /\ verdict'[d] = verdict[d]
      /\ events \in Seq(Event)
  BY DEF TInv, TypeOK, Return
<1>2. at[c] # "post" => verdict[c] = None
  BY DEF Ways, Way
<1>3. CASE ev[c].kind # "result" /\ at[c] # "post" /\ UNCHANGED <<events, sent>>
  <2>1. ev[c] # r
    BY <1>3
  <2>2. QED
    BY <1>1, <1>2, <1>3, <2>1 DEF There
<1>4. CASE at[c] = "post" /\ events' = Append(events, verdict[c]) /\ UNCHANGED sent
  <2>1. ev[c].kind # "result" /\ verdict[c] \in Event
    BY <1>4, EventFacts DEF TInv, Locals, Local
  <2>2. /\ Len(events) \in Nat /\ Len(events') = Len(events) + 1
        /\ events'[Len(events) + 1] = verdict[c]
        /\ \A i \in 1 .. Len(events) : events'[i] = events[i]
    BY <1>1, <1>4, <2>1, AppendProperties, LenProperties
  <2>3. (\E i \in 1 .. Len(events') : events'[i] = r)
           <=> (\E i \in 1 .. Len(events) : events[i] = r) \/ verdict[c] = r
    <3>1. \A i : i \in 1 .. Len(events') <=> i \in 1 .. Len(events) \/ i = Len(events) + 1
      BY <2>2
    <3>2. QED
      BY <2>2, <3>1
  <2>4. ev[c] # r
    BY <2>1
  <2>5. QED
    BY <1>1, <1>4, <2>3, <2>4 DEF There
<1>5. CASE at[c] # "post" /\ UNCHANGED events /\ \E n : n.of = ev[c] /\ sent' = sent \cup {n}
  <2>1. (\E n \in sent' : n.of = r) <=> (\E n \in sent : n.of = r) \/ ev[c] = r
    BY <1>5
  <2>2. QED
    BY <1>1, <1>2, <1>5, <2>1 DEF There
<1>6. QED
  BY <1>3, <1>4, <1>5

-------------------------------------------------------------------------------
(* The three ways of a step of a process function: it goes on, returns without *)
(* a notice, or returns with one.                                              *)

StatusAt(stage) == IF stage \in DoneStages THEN "done" ELSE "asked"

\* Goroutine c processes the request e, or the result of it.
Works(c, e) == ev[c] # None /\ ev[c].id = e.id

LEMMA StatusNow ==
    ASSUME TInv, Mapped, NEW c \in Consumers, NEW e \in Requests, Works(c, e)
    PROVE  StatusOf(e) = StatusAt(at[c])
<1>1. at[c] \in Stages
  BY DEF TInv, TypeOK
<1>2. CASE at[c] \in DoneStages
  BY <1>2 DEF Mapped, StatusIs, Done, Processed, StatusAt, Works
<1>3. CASE at[c] \notin DoneStages
  BY <1>1, <1>3 DEF Mapped, StatusIs, Asked, Processed, StatusAt, Works
<1>4. QED
  BY <1>2, <1>3

LEMMA GoesOn ==
    ASSUME TInv, Mapped, Mapped', NEW c \in Consumers, NEW e \in Requests, Works(c, e),
           NEW stage \in Stages, Goto(c, stage), UNCHANGED <<unsent, sending, events, ev, sent>>
    PROVE  /\ StatusOf(e)' = StatusAt(stage)
           /\ \A d \in Requests \ {e} : StatusOf(d)' = StatusOf(d)
<1>1. at'[c] = stage /\ \A d \in Consumers \ {c} : at'[d] = at[d]
  BY DEF TInv, TypeOK, Goto
<1>2. \A d \in Requests \ {e} : StatusOf(d)' = StatusOf(d)
  BY <1>1, OthersStatus DEF Works
<1>3. \A S : stage \in S => Processed(e, S)'
  BY <1>1 DEF Processed, Works
<1>4. CASE stage \in DoneStages
  <2>1. Done(e)'
    BY <1>3, <1>4 DEF Done
  <2>2. QED
    BY <1>2, <1>4, <2>1 DEF Mapped, StatusIs, StatusAt
<1>5. CASE stage \notin DoneStages
  <2>1. Asked(e)'
    BY <1>3, <1>5 DEF Asked
  <2>2. QED
    BY <1>2, <1>5, <2>1 DEF Mapped, StatusIs, StatusAt
<1>6. QED
  BY <1>4, <1>5

LEMMA IsDropped ==
    ASSUME PlaceInv, Mapped, Mapped', NEW c \in Consumers, NEW e \in Requests, Works(c, e),
           Return(c), UNCHANGED <<unsent, sending, events, sent>>
    PROVE  /\ StatusOf(e)' = "dropped"
           /\ \A d \in Requests \ {e} : StatusOf(d)' = StatusOf(d)
<1>1. ev'[c] = None /\ \A d \in Consumers \ {c} : ev'[d] = ev[d] /\ at'[d] = at[d]
  BY DEF PlaceInv, TInv, TypeOK, Return, Goto
<1>2. \A d \in Requests \ {e} : StatusOf(d)' = StatusOf(d)
  BY <1>1, OthersStatus DEF Works, PlaceInv
<1>3. /\ e \notin unsent /\ e \notin sending /\ ~InEvents(e) /\ ~ResultInEvents(e) /\ ~Announced(e)
      /\ \A d \in Consumers \ {c} : ev[d] # None => ev[d].id # e.id
  BY OnlyHere DEF Works
<1>4. \A S : ~Processed(e, S)'
  BY <1>1, <1>3 DEF Processed
<1>5. e \notin unsent' /\ ~Announced(e)' /\ ~Done(e)' /\ ~Asked(e)'
  BY <1>3, <1>4 DEF Announced, Done, Asked, InEvents, ResultInEvents
<1>6. QED
  BY <1>2, <1>5 DEF Mapped, StatusIs

LEMMA IsTold ==
    ASSUME TInv, Mapped, Mapped', NEW c \in Consumers, NEW e \in Requests, Works(c, e),
           NEW notice, Return(c), UNCHANGED <<unsent, sending, events>>, Dispatch(c, notice)
    PROVE  /\ StatusOf(e)' = "told"
           /\ \A d \in Requests \ {e} : StatusOf(d)' = StatusOf(d)
           /\ noticesBar' = noticesBar \cup {[notice |-> notice, of |-> e.id]}
<1> DEFINE n == [notice |-> notice, of |-> ev[c]]
<1>1. ev'[c] = None /\ \A d \in Consumers \ {c} : ev'[d] = ev[d] /\ at'[d] = at[d]
  BY DEF TInv, TypeOK, Return, Goto
<1>2. sent' = sent \cup {n} /\ n.of.id = e.id /\ n.notice = notice
  BY DEF Dispatch, Works
<1> HIDE DEF n
<1>3. \A d \in Requests \ {e} : StatusOf(d)' = StatusOf(d)
  BY <1>1, <1>2, OthersStatus DEF Works
<1>4. Announced(e)'
  BY <1>2 DEF Announced
<1>5. noticesBar' = noticesBar \cup {[notice |-> notice, of |-> e.id]}
  BY <1>2 DEF noticesBar
<1>6. QED
  BY <1>3, <1>4, <1>5 DEF Mapped, StatusIs

-------------------------------------------------------------------------------
(* The steps, one by one.                                                      *)

\* Nothing that the verdicts depend on moves.
LEMMA SameThere ==
    ASSUME UNCHANGED <<events, ev, verdict, sent>>
    PROVE  verdictBar' = verdictBar /\ noticesBar' = noticesBar
<1>1. \A r : There(r)' <=> There(r)
  BY DEF There
<1>2. QED
  BY <1>1, VerdictsSame DEF noticesBar

\* A step within a process function that no client can tell.
LEMMA Silent ==
    ASSUME TInv, Mapped, Mapped', NEW c \in Consumers, NEW e \in Requests, Works(c, e),
           NEW stage \in Stages, Continue(c, stage), StatusAt(stage) = StatusAt(at[c]),
           UNCHANGED <<unsent, sending, events, sent, Members, roomRow>>
    PROVE  UNCHANGED Room!vars
<1>1. Goto(c, stage) /\ UNCHANGED <<ev, verdict>>
  BY DEF Continue
<1>2. StatusOf(e) = StatusAt(at[c]) /\ StatusOf(e)' = StatusAt(stage)
      /\ \A d \in Requests \ {e} : StatusOf(d)' = StatusOf(d)
  BY <1>1, StatusNow, GoesOn
<1>3. statusBar' = statusBar
  BY <1>2, StayOf
<1>4. QED
  BY <1>1, <1>3, SameThere DEF Room!vars

\* A request that is dropped.
LEMMA DropStep ==
    ASSUME RInv, Mapped, Mapped', NEW c \in Consumers, ev[c] \in Requests,
           ev[c].kind \in {"join", "submit"}, at[c] \notin DoneStages, Return(c),
           UNCHANGED <<unsent, sending, events, sent, Members, roomRow>>
    PROVE  \E e \in Requests : Room!Drop(e)
<1>e. PICK e \in Requests : e = ev[c]
  OBVIOUS
<1>1. Works(c, e) /\ e.kind \in {"join", "submit"} /\ PlaceInv /\ TInv /\ Ways
  BY <1>e, EventFacts DEF Works, RInv, PlaceInv
<1>2. StatusOf(e) = "asked" /\ StatusOf(e)' = "dropped"
      /\ \A d \in Requests \ {e} : StatusOf(d)' = StatusOf(d)
  BY <1>1, StatusNow, IsDropped DEF StatusAt
<1>3. Room!Move(e, "asked", "dropped")
  BY <1>2, MoveOf
<1>4. ev[c].kind # "result" /\ at[c] # "post"
  BY <1>1, <1>e DEF DoneStages
<1>5. verdictBar' = verdictBar /\ noticesBar' = noticesBar
  BY <1>1, <1>4, ThereReturn, VerdictsSame DEF noticesBar
<1>6. QED
  BY <1>1, <1>3, <1>5 DEF Room!Drop

LEMMA RowsStay ==
    ASSUME UNCHANGED db
    PROVE  UNCHANGED <<Members, roomRow>>
  BY DEF db, Members

LEMMA JoinStep ==
    ASSUME RInv, Mapped, Mapped', NEW c \in Consumers, NEW e \in Requests, ev[c] = e,
           e.kind = "join", at[c] \in {"check", "insert"}, Continue(c, "rank"),
           UNCHANGED <<unsent, sending, events, sent, roomRow>>,
           roomRow \/ e.player \in Members, Members' = Members \cup {e.player}
    PROVE  Room!Join(e)
<1>1. Works(c, e) /\ TInv /\ Goto(c, "rank") /\ UNCHANGED <<ev, verdict>> /\ "rank" \in Stages
  BY EventFacts DEF Works, RInv, PlaceInv, Continue, Stages
<1>2. StatusOf(e) = "asked" /\ StatusOf(e)' = "done"
      /\ \A d \in Requests \ {e} : StatusOf(d)' = StatusOf(d)
  BY <1>1, StatusNow, GoesOn DEF StatusAt, DoneStages
<1>3. Room!Move(e, "asked", "done")
  BY <1>2, MoveOf
<1>4. QED
  BY <1>1, <1>3, SameThere DEF Room!Join

LEMMA JoinSteps ==
    ASSUME RInv, Mapped, Mapped', NEW c \in Consumers,
           LoadPlayer(c) \/ CheckPlayer(c) \/ InsertPlayer(c)
    PROVE  Room!Next \/ UNCHANGED Room!vars
<1>1. /\ at[c] \in {"player", "check", "insert"} /\ UNCHANGED <<unsent, sending, events, sent, roomRow>>
      /\ TInv /\ ev[c] \in Requests /\ ev[c].kind = "join"
  BY DEF LoadPlayer, CheckPlayer, InsertPlayer, db, RInv, PlaceInv, TInv, Locals, Local
<1>e. PICK e \in Requests : e = ev[c]
  BY <1>1
<1>2. Works(c, e) /\ {"check", "insert", "rank"} \subseteq Stages
  BY <1>e, EventFacts DEF Works, Stages
<1>3. CASE Return(c) /\ UNCHANGED rows
  <2>1. UNCHANGED Members
    BY <1>3 DEF Members
  <2>2. \E d \in Requests : Room!Drop(d)
    BY <1>1, <1>3, <2>1, DropStep DEF DoneStages
  <2>3. QED
    BY <2>2 DEF Room!Next
<1>4. CASE /\ UNCHANGED rows
           /\ \/ at[c] = "player" /\ Continue(c, "check")
              \/ at[c] = "check" /\ Continue(c, "insert")
  <2>1. UNCHANGED Members
    BY <1>4 DEF Members
  <2>2. QED
    BY <1>1, <1>2, <1>4, <2>1, Silent DEF StatusAt, DoneStages
<1>5. CASE UNCHANGED rows /\ at[c] = "check" /\ Continue(c, "rank") /\ ev[c].player \in Members
  <2>1. Members' = Members \cup {e.player}
    BY <1>e, <1>5 DEF Members
  <2>2. Room!Join(e)
    BY <1>1, <1>e, <1>5, <2>1, JoinStep
  <2>3. QED
    BY <2>2 DEF Room!Next
<1>6. CASE /\ at[c] = "insert" /\ Continue(c, "rank") /\ roomRow
           /\ rows' = [rows EXCEPT ![ev[c].player] = NewRow]
  <2>1. NewRow # None /\ e.player \in Players /\ RowsTyped
    BY <1>1, EventFacts, RoomAssumption, TypeParts DEF RoomAssumption, NewRow, TInv
  <2>2. Members' = Members \cup {e.player}
    BY <1>e, <1>6, <2>1 DEF RowsTyped, Members
  <2>3. Room!Join(e)
    BY <1>1, <1>e, <1>6, <2>2, JoinStep
  <2>4. QED
    BY <2>3 DEF Room!Next
<1>7. \/ Return(c) /\ UNCHANGED rows
      \/ /\ UNCHANGED rows
         /\ \/ at[c] = "player" /\ Continue(c, "check")
            \/ at[c] = "check" /\ Continue(c, "insert")
      \/ UNCHANGED rows /\ at[c] = "check" /\ Continue(c, "rank") /\ ev[c].player \in Members
      \/ /\ at[c] = "insert" /\ Continue(c, "rank") /\ roomRow
         /\ rows' = [rows EXCEPT ![ev[c].player] = NewRow]
  BY DEF LoadPlayer, CheckPlayer, InsertPlayer, db
<1>8. QED
  BY <1>3, <1>4, <1>5, <1>6, <1>7

LEMMA LeaveStep ==
    ASSUME RInv, Mapped, Mapped', NEW c \in Consumers, RemovePlayer(c)
    PROVE  \E e \in Requests : Room!Leave(e)
<1>1. /\ at[c] = "remove" /\ UNCHANGED <<unsent, sending, events, sent, roomRow>>
      /\ TInv /\ ev[c] \in Requests /\ ev[c].kind = "left" /\ Goto(c, "rank") /\ UNCHANGED <<ev, verdict>>
  BY DEF RemovePlayer, Continue, RInv, PlaceInv, TInv, Locals, Local
<1>e. PICK e \in Requests : e = ev[c]
  BY <1>1
<1>2. Works(c, e) /\ "rank" \in Stages
  BY <1>e, EventFacts DEF Works, Stages
<1>3. StatusOf(e) = "asked" /\ StatusOf(e)' = "done"
      /\ \A d \in Requests \ {e} : StatusOf(d)' = StatusOf(d)
  BY <1>1, <1>2, StatusNow, GoesOn DEF StatusAt, DoneStages
<1>4. Room!Move(e, "asked", "done")
  BY <1>3, MoveOf
<1>5. Members' = Members \ {e.player} \/ (DbFaults /\ UNCHANGED Members)
  <2>1. PICK ok \in MaySucceed : rows' = IF ok THEN [rows EXCEPT ![ev[c].player] = None] ELSE rows
    BY DEF RemovePlayer
  <2>2. CASE ok
    <3>1. rows' = [rows EXCEPT ![ev[c].player] = None] /\ RowsTyped
      BY <1>1, <2>1, <2>2, TypeParts DEF TInv
    <3>2. QED
      BY <1>e, <3>1 DEF RowsTyped, Members
  <2>3. CASE ~ok
    <3>1. DbFaults /\ rows' = rows
      BY <2>1, <2>3 DEF MaySucceed
    <3>2. QED
      BY <3>1 DEF Members
  <2>4. QED
    BY <2>2, <2>3
<1>6. Room!Leave(e)
  BY <1>1, <1>e, <1>4, <1>5, SameThere DEF Room!Leave
<1>7. QED
  BY <1>6

\* The members change where a row is inserted or deleted only.
LEMMA MembersKept ==
    ASSUME TInv, NEW c \in Consumers, ConsumerStep(c), at[c] \notin {"insert", "remove"}
    PROVE  UNCHANGED Members
<1>1. at \in [Consumers -> Stages] /\ [LooseNext]_vars
  BY DEF TInv, TypeOK, LooseNext
<1>2. ASSUME NEW d \in Consumers, InsertPlayer(d), at'[d] = "rank" PROVE FALSE
  <2>1. at[d] = "insert" /\ d # c
    BY <1>2 DEF InsertPlayer
  <2>2. QED
    BY <1>2, <2>1, OthersStay
<1>3. ASSUME NEW d \in Consumers, RemovePlayer(d) PROVE FALSE
  <2>1. at[d] = "remove" /\ at'[d] = "rank" /\ d # c
    BY <1>1, <1>3 DEF RemovePlayer, Continue, Goto
  <2>2. QED
    BY <2>1, OthersStay
<1>4. QED
  BY <1>1, <1>2, <1>3, MembersStep

\* The submission that a result is of.
LEMMA ResultOfSubmit ==
    ASSUME NEW r \in Results
    PROVE  \E e \in Requests : e.kind = "submit" /\ e.id = r.id
  BY DEF Results, Verdict

\* A notice that is told of the request that was done, or of its result.
LEMMA TellStep ==
    ASSUME RInv, Mapped, Mapped', NEW c \in Consumers, NEW e \in Requests, Works(c, e),
           at[c] \in DoneStages \ {"post"}, NEW notice, notice = Room!NoticeOf(e), Return(c),
           Dispatch(c, notice), UNCHANGED <<unsent, sending, events, Members, roomRow>>
    PROVE  Room!Tell(e)
<1>1. PlaceInv /\ TInv /\ Ways
  BY DEF RInv, PlaceInv
<1>2. StatusOf(e) = "done"
  BY <1>1, StatusNow DEF StatusAt
<1>3. /\ StatusOf(e)' = "told" /\ \A d \in Requests \ {e} : StatusOf(d)' = StatusOf(d)
      /\ noticesBar' = noticesBar \cup {[notice |-> notice, of |-> e.id]}
  BY <1>1, IsTold
<1>4. Room!Move(e, "done", "told")
  BY <1>2, <1>3, MoveOf
<1>5. verdictBar' = verdictBar
  <2>1. \E n : n.of = ev[c] /\ sent' = sent \cup {n}
    <3>1. [notice |-> notice, of |-> ev[c]].of = ev[c]
      OBVIOUS
    <3>2. QED
      BY <3>1 DEF Dispatch
  <2>2. QED
    BY <1>1, <2>1, ThereReturn, VerdictsSame
<1>6. QED
  BY <1>3, <1>4, <1>5 DEF Room!Tell, Room!Tells

LEMMA TellSteps ==
    ASSUME RInv, Mapped, Mapped', NEW c \in Consumers, Rank(c) \/ Deliver(c)
    PROVE  \E e \in Requests : Room!Tell(e)
<1>1. /\ at[c] \in {"rank", "deliver"} /\ Return(c)
      /\ UNCHANGED <<unsent, sending, events, roomRow>> /\ TInv
  BY DEF Rank, Deliver, RInv, PlaceInv, db
<1>2. UNCHANGED Members
  BY <1>1, MembersKept DEF ConsumerStep
<1>3. CASE at[c] = "rank" /\ ev[c].kind \in {"join", "left"}
  <2>e. PICK e \in Requests : e = ev[c]
    BY <1>1, <1>3, EventKinds, EventFacts DEF TInv, Locals, Local
  <2>1. Works(c, e) /\ Dispatch(c, Room!NoticeOf(e))
    BY <1>3, <2>e, EventFacts DEF Works, Rank, Deliver, Room!NoticeOf
  <2>2. Room!Tell(e)
    BY <1>1, <1>2, <1>3, <2>1, TellStep DEF DoneStages
  <2>3. QED
    BY <2>2
<1>4. CASE ev[c].kind = "result"
  <2>1. ev[c] \in Results /\ ev[c] # None
    BY <1>1, <1>4, EventKinds, EventFacts DEF TInv, Locals, Local
  <2>e. PICK e \in Requests : e.kind = "submit" /\ e.id = ev[c].id
    BY <2>1, ResultOfSubmit
  <2>2. Works(c, e)
    BY <2>1, <2>e DEF Works
  <2>3. verdictBar[e] = IF ev[c].status = "Accepted" THEN "CORRECT" ELSE "WRONG"
    BY <1>4, <2>1, <2>e, VerdictIs DEF verdictBar
  <2>4. (at[c] = "rank" => ev[c].status = "Accepted") /\ (at[c] = "deliver" => ev[c].status # "Accepted")
    BY <1>4 DEF RInv, Ways, Way
  <2>5. Dispatch(c, Room!NoticeOf(e))
    BY <1>1, <1>4, <2>e, <2>3, <2>4 DEF Rank, Deliver, Room!NoticeOf
  <2>6. Room!Tell(e)
    BY <1>1, <1>2, <2>2, <2>5, TellStep DEF DoneStages
  <2>7. QED
    BY <2>6
<1>5. QED
  <2>1. at[c] = "rank" => ev[c].kind \in {"join", "left", "result"}
    BY <1>1 DEF TInv, Locals, Local
  <2>2. at[c] = "deliver" => ev[c].kind = "result"
    BY <1>1, EventFacts DEF TInv, Locals, Local
  <2>3. QED
    BY <1>1, <1>3, <1>4, <2>1, <2>2

LEMMA DeleteStep ==
    ASSUME RInv, Mapped, Mapped', NEW c \in Consumers, DeleteRoom(c)
    PROVE  \E e \in Requests : Room!Delete(e)
<1>1. /\ at[c] = "delete" /\ Return(c) /\ UNCHANGED <<unsent, sending, events>>
      /\ TInv /\ Ways /\ ev[c] \in Requests /\ ev[c].kind = "delete" /\ Dispatch(c, "ROOM_DELETED")
  BY DEF DeleteRoom, RInv, PlaceInv, TInv, Locals, Local
<1>e. PICK e \in Requests : e = ev[c]
  BY <1>1
<1>2. Works(c, e) /\ Room!NoticeOf(e) = "ROOM_DELETED"
  BY <1>1, <1>e, EventFacts DEF Works, Room!NoticeOf
<1>3. StatusOf(e) = "asked"
  BY <1>1, <1>2, StatusNow DEF StatusAt, DoneStages
<1>4. /\ StatusOf(e)' = "told" /\ \A d \in Requests \ {e} : StatusOf(d)' = StatusOf(d)
      /\ noticesBar' = noticesBar \cup {[notice |-> "ROOM_DELETED", of |-> e.id]}
  BY <1>1, <1>2, IsTold
<1>5. Room!Move(e, "asked", "told")
  BY <1>3, <1>4, MoveOf
<1>6. verdictBar' = verdictBar
  <2>1. \E n : n.of = ev[c] /\ sent' = sent \cup {n}
    <3>1. [notice |-> "ROOM_DELETED", of |-> ev[c]].of = ev[c]
      OBVIOUS
    <3>2. QED
      BY <1>1, <3>1 DEF Dispatch
  <2>2. QED
    BY <1>1, <2>1, ThereReturn, VerdictsSame
<1>7. UNCHANGED Members
  BY DEF DeleteRoom, Members
<1>8. roomRow' = (roomRow /\ Members # {}) \/ (DbFaults /\ UNCHANGED roomRow)
  <2>1. PICK ok \in MaySucceed : roomRow' = (roomRow /\ ~(ok /\ Members = {}))
    BY DEF DeleteRoom
  <2>2. roomRow \in BOOLEAN
    BY <1>1 DEF TInv, TypeOK
  <2>3. ok \/ DbFaults
    BY DEF MaySucceed
  <2>4. QED
    BY <2>1, <2>2, <2>3
<1>9. Room!Delete(e)
  BY <1>1, <1>e, <1>2, <1>4, <1>5, <1>6, <1>7, <1>8 DEF Room!Delete, Room!Tells
<1>10. QED
  BY <1>9

\* A judgement that ends.
LEMMA DecideStep ==
    ASSUME RInv, Mapped, Mapped', NEW c \in Consumers, at[c] = "judge",
           NEW s \in Statuses, NEW y \in AllJobAnswers, Conclude(c, s, y),
           UNCHANGED <<unsent, sending, events, sent, Members, roomRow>>
    PROVE  \E e \in Requests : Room!Decide(e)
<1>1. /\ TInv /\ ev[c] \in Requests /\ ev[c].kind = "submit"
      /\ Goto(c, "post") /\ UNCHANGED ev /\ verdict[c] = None
      /\ verdict \in [Consumers -> Results \cup {None}]
  BY DEF Conclude, RInv, PlaceInv, TInv, TypeOK, Locals, Local, Ways, Way
<1>e. PICK e \in Requests : e = ev[c]
  BY <1>1
<1>v. PICK v \in Results : v = Verdict(e, s, y) /\ v.id = e.id
  BY <1>1, <1>e, EventFacts
<1>2. Works(c, e) /\ "post" \in Stages
  BY <1>e, EventFacts DEF Works, Stages
<1>3. StatusOf(e) = "asked" /\ StatusOf(e)' = "done"
      /\ \A d \in Requests \ {e} : StatusOf(d)' = StatusOf(d)
  BY <1>1, <1>2, StatusNow, GoesOn DEF StatusAt, DoneStages
<1>4. Room!Move(e, "asked", "done")
  BY <1>3, MoveOf
<1>5. verdict' = [verdict EXCEPT ![c] = v] /\ v # None /\ v.kind = "result"
  BY <1>e, <1>v, EventFacts DEF Conclude
<1>6. /\ verdict'[c] = v /\ \A d \in Consumers \ {c} : verdict'[d] = verdict[d]
  BY <1>1, <1>5
<1>7. \A r : There(r)' <=> There(r) \/ r = v
  <2> SUFFICES ASSUME NEW r, r # None PROVE There(r)' <=> There(r) \/ r = v
    BY <1>5 DEF There
  <2>1. (\E d \in Consumers : verdict'[d] = r) <=> (\E d \in Consumers : verdict[d] = r) \/ r = v
    BY <1>1, <1>6
  <2>2. QED
    BY <1>1, <1>5, <2>1 DEF There
<1>8. verdictBar' = [verdictBar EXCEPT ![e] = IF v.status = "Accepted" THEN "CORRECT" ELSE "WRONG"]
  BY <1>e, <1>v, <1>5, <1>7, NewVerdict
<1>9. noticesBar' = noticesBar
  BY DEF noticesBar
<1>10. Room!Decide(e)
  BY <1>1, <1>e, <1>4, <1>8, <1>9 DEF Room!Decide
<1>11. QED
  BY <1>10

\* A submission that goes on.
LEMMA JudgeGoesOn ==
    ASSUME RInv, Mapped, Mapped', NEW c \in Consumers, at[c] \in {"lookup", "judge"},
           NEW stage \in {"judge", "hung"}, Goto(c, stage), UNCHANGED <<ev, verdict>>,
           UNCHANGED <<unsent, sending, events, sent, Members, roomRow>>
    PROVE  UNCHANGED Room!vars
<1>1. TInv /\ ev[c] \in Requests /\ stage \in Stages
  BY DEF RInv, PlaceInv, TInv, Locals, Local, Stages
<1>e. PICK e \in Requests : e = ev[c]
  BY <1>1
<1>2. Works(c, e)
  BY <1>e, EventFacts DEF Works
<1>3. StatusAt(stage) = "asked" /\ StatusAt(at[c]) = "asked"
  BY DEF StatusAt, DoneStages
<1>4. /\ StatusOf(e) = "asked" /\ StatusOf(e)' = "asked"
      /\ \A d \in Requests \ {e} : StatusOf(d)' = StatusOf(d)
  BY <1>1, <1>2, <1>3, StatusNow, GoesOn
<1>5. statusBar' = statusBar
  BY <1>4, StayOf
<1>6. QED
  BY <1>5, SameThere DEF Room!vars

\* Nothing that the mapping reads changes.
LEMMA Nothing ==
    ASSUME UNCHANGED <<unsent, sending, events, at, ev, verdict, sent, rows, roomRow>>
    PROVE  UNCHANGED Room!vars
<1>1. \A e \in Requests : StatusOf(e)' = StatusOf(e)
  BY DEF StatusOf, Announced, Done, Asked, InEvents, ResultInEvents, Processed
<1>2. statusBar' = statusBar /\ UNCHANGED Members
  BY <1>1, StayOf DEF Members
<1>3. QED
  BY <1>2, SameThere DEF Room!vars

LEMMA JudgeSteps ==
    ASSUME RInv, Mapped, Mapped', NEW c \in Consumers, Lookup(c) \/ Judge(c) \/ Accept(c)
    PROVE  Room!Next \/ UNCHANGED Room!vars
<1>1. /\ at[c] \in {"lookup", "judge"} /\ UNCHANGED <<unsent, sending, events, sent, rows, roomRow>>
      /\ TInv /\ ev[c] \in Requests /\ ev[c].kind = "submit"
  BY DEF Lookup, Judge, Accept, db, RInv, PlaceInv, TInv, Locals, Local
<1>2. UNCHANGED Members
  BY <1>1 DEF Members
<1>3. CASE Return(c)
  <2>1. \E e \in Requests : Room!Drop(e)
    BY <1>1, <1>2, <1>3, DropStep DEF DoneStages
  <2>2. QED
    BY <2>1 DEF Room!Next
<1>4. CASE at[c] = "judge" /\ \E s \in Statuses, y \in AllJobAnswers : Conclude(c, s, y)
  <2>1. \E e \in Requests : Room!Decide(e)
    BY <1>1, <1>2, <1>4, DecideStep
  <2>2. QED
    BY <2>1 DEF Room!Next
<1>5. CASE UNCHANGED <<ev, verdict>> /\ \E stage \in {"judge", "hung"} : Goto(c, stage)
  BY <1>1, <1>2, <1>5, JudgeGoesOn
<1>6. CASE UNCHANGED <<at, ev, verdict>>
  BY <1>1, <1>6, Nothing
<1>7. CASE Lookup(c)
  BY <1>3, <1>5, <1>7 DEF Lookup
<1>8. CASE Judge(c)
  <2>1. PICK answer \in JobAnswers :
          \/ UNCHANGED <<at, ev, verdict>>
          \/ answer \in {"mismatch", "rejected"} /\ Conclude(c, "WrongAnswer", answer)
          \/ answer = "error" /\ Conclude(c, "RuntimeError", answer)
          \/ Continue(c, "hung")
    BY <1>8 DEF Judge
  <2>2. at[c] = "judge" /\ {"WrongAnswer", "RuntimeError"} \subseteq Statuses
        /\ {"mismatch", "rejected", "error"} \subseteq AllJobAnswers
    BY <1>8 DEF Judge, Statuses, AllJobAnswers
  <2>3. QED
    BY <1>4, <1>5, <1>6, <2>1, <2>2 DEF Continue
<1>9. CASE Accept(c)
  <2>1. "Accepted" \in Statuses /\ "match" \in AllJobAnswers
    BY DEF Statuses, AllJobAnswers
  <2>2. QED
    BY <1>4, <1>9, <2>1 DEF Accept
<1>10. QED
  BY <1>7, <1>8, <1>9

\* The SolutionResult is done when it is made; its posting is not told of.
LEMMA PostStep ==
    ASSUME RInv, Mapped, Mapped', NEW c \in Consumers, Post(c)
    PROVE  UNCHANGED Room!vars
<1>1. /\ at[c] = "post" /\ Return(c) /\ UNCHANGED <<unsent, sending, sent, rows, roomRow>>
      /\ TInv /\ Ways /\ ev[c] \in Requests /\ events \in Seq(Event)
      /\ verdict[c] \in Results /\ verdict[c].id = ev[c].id
      /\ events' = Append(events, verdict[c])
  BY DEF Post, db, RInv, PlaceInv, TInv, TypeOK, Locals, Local
<1>e. PICK e \in Requests : e = ev[c]
  BY <1>1
<1>2. Works(c, e) /\ verdict[c] \in Event /\ verdict[c].kind = "result"
  BY <1>1, <1>e, EventFacts DEF Works
<1>3. StatusOf(e) = "done"
  BY <1>1, <1>2, StatusNow DEF StatusAt, DoneStages
<1>4. \A d \in Requests \ {e} : StatusOf(d)' = StatusOf(d)
  <2>1. ev'[c] = None /\ \A d \in Consumers \ {c} : ev'[d] = ev[d] /\ at'[d] = at[d]
    BY <1>1 DEF TInv, TypeOK, Return, Goto
  <2>2. \E r \in Event : r.id = e.id /\ events' = Append(events, r)
    BY <1>1, <1>e, <1>2
  <2>3. QED
    BY <1>1, <1>2, <2>1, <2>2, OthersStatus DEF Works
<1>5. StatusOf(e)' = "done"
  <2>1. Len(events') \in 1 .. Len(events') /\ events'[Len(events')] = verdict[c]
    BY <1>1, <1>2, AppendProperties, LenProperties
  <2>2. ResultInEvents(e)'
    BY <1>1, <1>e, <1>2, <2>1 DEF ResultInEvents
  <2>3. QED
    BY <2>2 DEF Done, Mapped, StatusIs
<1>6. statusBar' = statusBar
  BY <1>3, <1>4, <1>5, StayOf
<1>7. verdictBar' = verdictBar
  BY <1>1, ThereReturn, VerdictsSame
<1>8. UNCHANGED <<noticesBar, Members>>
  BY <1>1 DEF noticesBar, Members
<1>9. QED
  BY <1>1, <1>6, <1>7, <1>8 DEF Room!vars

LEMMA AddScoreStep ==
    ASSUME RInv, Mapped, Mapped', NEW c \in Consumers, AddScore(c)
    PROVE  UNCHANGED Room!vars
<1>1. /\ at[c] = "score" /\ Continue(c, "rank") /\ UNCHANGED <<unsent, sending, events, sent, roomRow>>
      /\ TInv /\ ev[c] \in Results /\ ev[c] # None
  BY EventFacts DEF AddScore, RInv, PlaceInv, TInv, Locals, Local
<1>2. UNCHANGED Members
  BY <1>1, MembersKept DEF ConsumerStep
<1>3. PICK e \in Requests : Works(c, e)
  BY <1>1, ResultOfSubmit DEF Works
<1>4. "rank" \in Stages /\ StatusAt("rank") = StatusAt(at[c])
  BY <1>1 DEF Stages, StatusAt, DoneStages
<1>5. QED
  BY <1>1, <1>2, <1>3, <1>4, Silent

\* The event that is received was asked for, or done, and still is.
LEMMA RecvStep ==
    ASSUME RInv, Mapped, Mapped', NEW c \in Consumers, Recv(c)
    PROVE  UNCHANGED Room!vars
<1> DEFINE x == Head(events)
<1>1. /\ at[c] = "recv" /\ events \in Seq(Event) /\ events # <<>> /\ events' = Tail(events)
      /\ UNCHANGED <<unsent, sending, verdict, rows, roomRow, sent>>
      /\ at'[c] = FirstStage(x) /\ ev'[c] = x /\ ev[c] = None
      /\ \A d \in Consumers \ {c} : at'[d] = at[d] /\ ev'[d] = ev[d]
      /\ TInv
  BY DEF Recv, Goto, db, RInv, PlaceInv, TInv, TypeOK, Locals, Local
<1>2. /\ 1 \in 1 .. Len(events) /\ events[1] = x /\ x \in Event
      /\ \A i \in 1 .. Len(events') : i + 1 \in 1 .. Len(events) /\ events'[i] = events[i + 1]
      /\ \A i \in 1 .. Len(events) : i = 1 \/ (i - 1 \in 1 .. Len(events') /\ events'[i - 1] = events[i])
  <2>1. /\ Len(events) \in Nat \ {0} /\ Len(events') = Len(events) - 1 /\ x = events[1] /\ x \in Event
        /\ \A i \in 1 .. Len(events) - 1 : events'[i] = events[i + 1]
    BY <1>1, HeadTailProperties, LenProperties, EmptySeq
  <2>2. \A i \in 1 .. Len(events') : i + 1 \in 1 .. Len(events) /\ events'[i] = events[i + 1]
    BY <2>1
  <2>3. \A i \in 1 .. Len(events) : i = 1 \/ (i - 1 \in 1 .. Len(events') /\ events'[i - 1] = events[i])
    <3> SUFFICES ASSUME NEW i \in 1 .. Len(events), i # 1
                 PROVE  i - 1 \in 1 .. Len(events') /\ events'[i - 1] = events[i]
      OBVIOUS
    <3>1. i - 1 \in 1 .. Len(events) - 1 /\ (i - 1) + 1 = i
      BY <2>1
    <3>2. QED
      BY <2>1, <3>1
  <2>4. QED
    BY <2>1, <2>2, <2>3
<1> HIDE DEF x
<1>3. x # None /\ (x.kind = "result" => x \in Results) /\ (x.kind # "result" => x \in Requests)
      /\ x.kind \in Kinds \cup {"result"}
  BY <1>2, EventKinds
<1>e. PICK e \in Requests : e.id = x.id /\ (x.kind # "result" => x = e)
  BY <1>3, ResultOfSubmit
<1>4. \A d \in Requests \ {e} : StatusOf(d)' = StatusOf(d)
  <2> SUFFICES ASSUME NEW d \in Requests \ {e} PROVE StatusOf(d)' = StatusOf(d)
    OBVIOUS
  <2>1. d.id # x.id /\ d # x
    BY <1>e, SameIds
  <2>2. InEvents(d)' <=> InEvents(d)
    BY <1>2, <2>1 DEF InEvents
  <2>3. ResultInEvents(d)' <=> ResultInEvents(d)
    <3>1. ResultInEvents(d)' => ResultInEvents(d)
      BY <1>2 DEF ResultInEvents
    <3>2. ASSUME NEW i \in 1 .. Len(events), events[i].id = d.id, events[i].kind = "result"
          PROVE  ResultInEvents(d)'
      <4>1. i - 1 \in 1 .. Len(events') /\ events'[i - 1] = events[i]
        BY <1>2, <2>1, <3>2
      <4>2. QED
        BY <3>2, <4>1 DEF ResultInEvents
    <3>3. QED
      BY <3>1, <3>2 DEF ResultInEvents
  <2>4. \A S : Processed(d, S)' <=> Processed(d, S)
    BY <1>1, <2>1 DEF Processed
  <2>5. QED
    BY <1>1, <2>2, <2>3, <2>4 DEF StatusOf, Announced, Done, Asked
<1>5. \A S : FirstStage(x) \in S => Processed(e, S)'
  BY <1>1, <1>3, <1>e DEF Processed
<1>6. StatusOf(e)' = StatusOf(e)
  <2>1. CASE x.kind = "result"
    <3>1. Done(e)
      BY <1>2, <1>e, <2>1 DEF Done, ResultInEvents
    <3>2. FirstStage(x) \in DoneStages
      BY <2>1 DEF FirstStage, DoneStages
    <3>3. Done(e)'
      BY <1>5, <3>2 DEF Done
    <3>4. QED
      BY <3>1, <3>3 DEF Mapped, StatusIs
  <2>2. CASE x.kind # "result"
    <3>1. Asked(e)
      BY <1>2, <1>e, <2>2 DEF Asked, InEvents
    <3>2. FirstStage(x) \in Stages \ DoneStages
      BY <1>3, <2>2 DEF FirstStage, DoneStages, Stages, Kinds
    <3>3. Asked(e)'
      BY <1>5, <3>2 DEF Asked
    <3>4. QED
      BY <3>1, <3>3 DEF Mapped, StatusIs
  <2>3. QED
    BY <2>1, <2>2
<1>7. \A r : There(r)' <=> There(r)
  <2> SUFFICES ASSUME NEW r, r # None, r.kind = "result" PROVE There(r)' <=> There(r)
    BY DEF There
  <2>1. (\E i \in 1 .. Len(events) : events[i] = r) <=> (\E i \in 1 .. Len(events') : events'[i] = r) \/ x = r
    BY <1>2
  <2>2. (\E d \in Consumers : ev'[d] = r) <=> (\E d \in Consumers : ev[d] = r) \/ x = r
    BY <1>1
  <2>3. QED
    BY <1>1, <2>1, <2>2 DEF There
<1>8. UNCHANGED <<statusBar, verdictBar, noticesBar, Members, roomRow>>
  BY <1>1, <1>4, <1>6, <1>7, StayOf, VerdictsSame DEF noticesBar, Members
<1>9. QED
  BY <1>8 DEF Room!vars

LEMMA AskStep ==
    ASSUME RInv, Mapped, Mapped', NEW e \in Requests, Ask(e)
    PROVE  Room!Ask(e)
<1>1. /\ e \in unsent /\ unsent' = unsent \ {e} /\ sending' = sending \cup {e}
      /\ UNCHANGED <<events, at, ev, verdict, rows, roomRow, sent>>
  BY DEF Ask, Spawn, db
<1>2. StatusOf(e) = "new"
  BY <1>1 DEF Mapped, StatusIs
<1>3. StatusOf(e)' = "asked"
  BY <1>1 DEF Mapped, StatusIs, Asked
<1>4. \A d \in Requests \ {e} : StatusOf(d)' = StatusOf(d)
  BY <1>1 DEF StatusOf, Announced, Done, Asked, InEvents, ResultInEvents, Processed
<1>5. Room!Move(e, "new", "asked")
  BY <1>2, <1>3, <1>4, MoveOf
<1>6. UNCHANGED <<verdictBar, noticesBar, Members, roomRow>>
  BY <1>1, SameThere DEF Members
<1>7. QED
  BY <1>5, <1>6 DEF Room!Ask

LEMMA SendStep ==
    ASSUME RInv, Mapped, Mapped', NEW e \in Requests, Send(e)
    PROVE  UNCHANGED Room!vars
<1>1. /\ e \in sending /\ sending' = sending \ {e} /\ events' = Append(events, e)
      /\ UNCHANGED <<unsent, at, ev, verdict, rows, roomRow, sent>>
      /\ events \in Seq(Event) /\ e \in Event /\ e.kind # "result"
  BY EventFacts DEF Send, db, RInv, PlaceInv, TInv, TypeOK, Kinds
<1>2. /\ Len(events) \in Nat /\ Len(events') = Len(events) + 1 /\ events'[Len(events) + 1] = e
      /\ \A i \in 1 .. Len(events) : events'[i] = events[i]
  BY <1>1, AppendProperties, LenProperties
<1>3. \A i : i \in 1 .. Len(events') <=> i \in 1 .. Len(events) \/ i = Len(events) + 1
  BY <1>2
<1>4. \A d \in Requests \ {e} : StatusOf(d)' = StatusOf(d)
  <2> SUFFICES ASSUME NEW d \in Requests \ {e} PROVE StatusOf(d)' = StatusOf(d)
    OBVIOUS
  <2>1. (InEvents(d)' <=> InEvents(d)) /\ (ResultInEvents(d)' <=> ResultInEvents(d))
    BY <1>1, <1>2, <1>3 DEF InEvents, ResultInEvents
  <2>2. QED
    BY <1>1, <2>1 DEF StatusOf, Announced, Done, Asked, Processed
<1>5. StatusOf(e) = "asked"
  BY <1>1 DEF Mapped, StatusIs, Asked
<1>6. StatusOf(e)' = "asked"
  <2>1. InEvents(e)'
    BY <1>2, <1>3 DEF InEvents
  <2>2. QED
    BY <2>1 DEF Mapped, StatusIs, Asked
<1>7. \A r : There(r)' <=> There(r)
  <2> SUFFICES ASSUME NEW r, r # None, r.kind = "result" PROVE There(r)' <=> There(r)
    BY DEF There
  <2>1. (\E i \in 1 .. Len(events') : events'[i] = r) <=> (\E i \in 1 .. Len(events) : events[i] = r)
    BY <1>1, <1>2, <1>3
  <2>2. QED
    BY <1>1, <2>1 DEF There
<1>8. UNCHANGED <<statusBar, verdictBar, noticesBar, Members, roomRow>>
  BY <1>1, <1>4, <1>5, <1>6, <1>7, StayOf, VerdictsSame DEF noticesBar, Members
<1>9. QED
  BY <1>8 DEF Room!vars

LEMMA RoomNextStep == RInv /\ Mapped /\ Mapped' /\ [LooseNext]_vars => Room!Next \/ UNCHANGED Room!vars
<1> SUFFICES ASSUME RInv, Mapped, Mapped', [LooseNext]_vars PROVE Room!Next \/ UNCHANGED Room!vars
  OBVIOUS
<1>1. ASSUME NEW e \in Requests, Ask(e) \/ Send(e) PROVE Room!Next \/ UNCHANGED Room!vars
  BY <1>1, AskStep, SendStep DEF Room!Next
<1>2. ASSUME NEW c \in Consumers, ConsumerStep(c) PROVE Room!Next \/ UNCHANGED Room!vars
  <2>1. CASE LoadPlayer(c) \/ CheckPlayer(c) \/ InsertPlayer(c)
    BY <2>1, JoinSteps
  <2>2. CASE RemovePlayer(c)
    BY <2>2, LeaveStep DEF Room!Next
  <2>3. CASE Rank(c) \/ Deliver(c)
    BY <2>3, TellSteps DEF Room!Next
  <2>4. CASE DeleteRoom(c)
    BY <2>4, DeleteStep DEF Room!Next
  <2>5. CASE Lookup(c) \/ Judge(c) \/ Accept(c)
    BY <2>5, JudgeSteps
  <2>6. CASE Recv(c) \/ Post(c) \/ AddScore(c)
    BY <2>6, RecvStep, PostStep, AddScoreStep
  <2>7. QED
    BY <1>2, <2>1, <2>2, <2>3, <2>4, <2>5, <2>6 DEF ConsumerStep
<1>3. CASE UNCHANGED vars
  BY <1>3, Nothing DEF vars
<1>4. QED
  BY <1>1, <1>2, <1>3 DEF LooseNext

LEMMA RoomInit == Init => Room!Init
<1> SUFFICES ASSUME Init PROVE Room!Init
  OBVIOUS
<1>1. \A e \in Requests : StatusOf(e) = "new"
  BY PlaceInvInit, Mapping DEF Init, Mapped, StatusIs
<1>2. \A r : ~There(r)
  <2>1. Len(events) = 0 /\ sent = {} /\ \A c \in Consumers : ev[c] = None /\ verdict[c] = None
    BY DEF Init
  <2>2. QED
    BY <2>1 DEF There
<1>3. \A e \in Requests : VerdictOf(e) = None
  BY <1>2, ThereIs DEF VerdictOf, ResultOf
<1>4. /\ statusBar = [e \in Requests |-> "new"] /\ verdictBar = [e \in Requests |-> None]
      /\ noticesBar = {} /\ Members \in SUBSET Players /\ roomRow = TRUE
  BY <1>1, <1>3 DEF Init, statusBar, verdictBar, noticesBar, Members
<1>5. QED
  BY <1>4 DEF Room!Init

LEMMA RoomImplementedLoosely == LooseSpec => RoomSpec
<1>1. Init => Room!Init
  BY RoomInit
<1>2. LooseSpec => []Mapped
  BY PlaceInvAlways, Mapping, PTL
<1>3. RInv /\ Mapped /\ Mapped' /\ [LooseNext]_vars => [Room!Next]_(Room!vars)
  BY RoomNextStep
<1>4. QED
  BY <1>1, <1>2, <1>3, RInvAlways, PTL DEF LooseSpec, RoomSpec, Room!Spec

\* With any number of Start goroutines, whatever statements fail and however a run of the
\* code ends, the room manager (room_manager.go:95-500) behaves as the room service: a
\* request takes effect once and is told of once by its own notice, or is dropped in
\* silence; the verdict that was reached is the one that is told.
THEOREM RoomImplemented == Spec => RoomSpec
  BY RoomImplementedLoosely, Loosen, PTL

================================================================================
