----------------------- MODULE ExecutorRefinementProofs -----------------------
(***************************************************************************)
(* Executor implements JudgeService: proof that every step of the workers, *)
(* the callers and the queue is a step of the judge service or leaves its  *)
(* state alone, for every number of callers, workers and containers.       *)
(*                                                                         *)
(* The argument rests on the invariants of ExecutorProofs: a call is in    *)
(* one place (Own), so its phase is determined by that place; and what a   *)
(* worker holds is busy (XInv), so the containers that are idle are the    *)
(* free slots, before and after each of its steps.                         *)
(***************************************************************************)
EXTENDS ExecutorRefinement, ExecutorProofs

\* the queue keeps its capacity, and only a run that succeeded frees its container
QueueFits == Len(jobs) <= MaxJobCount
FreedIsOk == \A w \in Workers : pc[w] = "free" => outcome[w] = "ok"

RInv == XInv /\ OwnInv /\ QueueFits /\ FreedIsOk

LEMMA FitsStep == TInv /\ QueueFits /\ [Next]_vars => QueueFits'
<1> SUFFICES ASSUME TInv, QueueFits, [Next]_vars PROVE QueueFits'
  OBVIOUS
<1>q. jobs \in Seq(Callers) /\ Len(jobs) \in Nat /\ MaxJobCount \in Nat
  BY LenProperties, ExecutorAssumption DEF TInv, TypeOK, ExecutorAssumption
<1>1. CASE jobs' = jobs
  BY <1>1 DEF QueueFits
<1>2. ASSUME NEW c \in Callers, ExecuteJob(c), jobs' = Append(jobs, c), Len(jobs) < MaxJobCount
      PROVE  QueueFits'
  <2>1. Len(jobs') = Len(jobs) + 1
    BY <1>2, <1>q, AppendProperties
  <2>2. QED
    BY <1>2, <1>q, <2>1 DEF QueueFits
<1>3. ASSUME NEW w \in Workers, Pick(w) PROVE QueueFits'
  <2>1. Len(jobs') = Len(jobs) - 1
    BY <1>3, <1>q, HeadTailProperties, EmptySeq DEF Pick
  <2>2. QED
    BY <1>q, <2>1 DEF QueueFits
<1>4. QED
  BY <1>1, <1>2, <1>3
     DEF Next, WorkerStep, ExecuteJob, Receive, Acquire, Retry, GiveUp, Mark, Run, Free, Send, vars

LEMMA FreedStep == TInv /\ FreedIsOk /\ [Next]_vars => FreedIsOk'
<1> SUFFICES ASSUME TInv, FreedIsOk, [Next]_vars, NEW v \in Workers, pc'[v] = "free"
             PROVE  outcome'[v] = "ok"
  BY DEF FreedIsOk
<1>t. /\ pc \in [Workers -> {"select", "acquire", "mark", "run", "free", "send"}]
      /\ outcome \in [Workers -> RunOutcomes \cup {None}]
  BY DEF TInv, TypeOK
<1>1. CASE UNCHANGED <<pc, outcome>>
  BY <1>1 DEF FreedIsOk
<1>2. ASSUME NEW w \in Workers, Pick(w) \/ Acquire(w) \/ GiveUp(w) \/ Mark(w) \/ Free(w) \/ Send(w)
      PROVE  outcome'[v] = "ok"
  BY <1>2, <1>t DEF FreedIsOk, Pick, Acquire, GiveUp, Mark, Free, Send, Finish
<1>3. ASSUME NEW w \in Workers, Run(w) PROVE outcome'[v] = "ok"
  BY <1>3, <1>t DEF FreedIsOk, Run
<1>4. QED
  BY <1>1, <1>2, <1>3 DEF Next, WorkerStep, ExecuteJob, Receive, Retry, workerVars, vars

LEMMA RInvAlways == Spec => []RInv
<1>1. Init => QueueFits /\ FreedIsOk
  BY ExecutorAssumption DEF Init, QueueFits, FreedIsOk, ExecutorAssumption
<1>2. QueueFits /\ FreedIsOk /\ OwnInv /\ [Next]_vars => (QueueFits /\ FreedIsOk)'
  BY FitsStep, FreedStep DEF OwnInv
<1>3. QED
  BY <1>1, <1>2, XInvAlways, OwnInvAlways, PTL DEF Spec, RInv

-------------------------------------------------------------------------------
(* The phase of a call, place by place. *)

PhaseAt(p) == IF p = "acquire" THEN "served" ELSE IF p = "send" THEN "finished" ELSE "running"

Carried(c) == \E w \in Workers : job[w] = c

PhaseIs(c) ==
    /\ c \notin calling => phaseBar[c] = "out"
    /\ Queued(c) # {} => phaseBar[c] = "waiting"
    /\ Answered(c) => phaseBar[c] = "answered"
    /\ c \in Abandoned => phaseBar[c] = "dropped"
    /\ \A w \in Workers : job[w] = c =>
          /\ phaseBar[c] = PhaseAt(pc[w])
          /\ verdictBar[c] = IF pc[w] = "send" THEN outcome[w] ELSE None
    /\ ~Carried(c) => verdictBar[c] = reply[c]

Mapped == /\ phaseBar = [c \in Callers |-> phaseBar[c]]
          /\ verdictBar = [c \in Callers |-> verdictBar[c]]
          /\ \A c \in Callers : PhaseIs(c)

LEMMA Mapping == RInv => Mapped
<1> SUFFICES ASSUME RInv PROVE Mapped
  OBVIOUS
<1>i. TInv /\ QueueOwn /\ WorkerOwn /\ Apart /\ \A c \in Callers : reply[c] # None => c \in calling
  BY DEF RInv, OwnInv, Own
<1>n. None \notin Callers
  BY NoneIsNoOutcome
<1>1. ASSUME NEW c \in Callers PROVE PhaseIs(c)
  <2>1. /\ c \notin calling => Queued(c) = {} /\ ~Carried(c) /\ ~Answered(c)
        /\ Queued(c) # {} => ~Carried(c) /\ ~Answered(c)
        /\ Carried(c) => ~Answered(c)
    BY <1>i, <1>n DEF Queued, Answered, Carried, QueueOwn, WorkerOwn, Apart
  <2>2. c \in Abandoned <=> c \in calling /\ Queued(c) = {} /\ ~Carried(c) /\ ~Answered(c)
    BY DEF Abandoned, Carriers, Carried
  <2>3. ~Carried(c) => \A S : ~CarriedAt(c, S)
    BY DEF Carried, CarriedAt
  <2>4. c \notin calling => phaseBar[c] = "out"
    BY <2>1, <2>2, <2>3 DEF phaseBar, PhaseOf
  <2>5. Queued(c) # {} => phaseBar[c] = "waiting"
    BY <2>1, <2>2, <2>3 DEF phaseBar, PhaseOf
  <2>6. Answered(c) => phaseBar[c] = "answered"
    BY <2>1, <2>2, <2>3 DEF phaseBar, PhaseOf
  <2>7. c \in Abandoned => phaseBar[c] = "dropped"
    BY <2>1, <2>2, <2>3 DEF phaseBar, PhaseOf
  <2>8. ASSUME NEW w \in Workers, job[w] = c
        PROVE  /\ phaseBar[c] = PhaseAt(pc[w])
               /\ verdictBar[c] = IF pc[w] = "send" THEN outcome[w] ELSE None
    <3>1. Carried(c)
      BY <2>8 DEF Carried
    <3>2. \A v \in Workers : job[v] = c => v = w
      BY <1>i, <1>n, <2>8 DEF WorkerOwn
    <3>3. \A S : CarriedAt(c, S) <=> pc[w] \in S
      BY <2>8, <3>2 DEF CarriedAt
    <3>4. pc[w] \in {"acquire", "mark", "run", "free", "send"}
      BY <1>i, <1>n, <2>8 DEF TInv, TypeOK, Locals
    <3>5. c \in calling /\ Queued(c) = {} /\ ~Answered(c) /\ c \notin Abandoned
      BY <2>1, <2>2, <3>1
    <3>6. phaseBar[c] = PhaseAt(pc[w])
      BY <3>3, <3>4, <3>5 DEF phaseBar, PhaseOf, PhaseAt
    <3>7. CarrierOf(c) = w
      BY <2>8, <3>2 DEF CarrierOf
    <3>8. reply[c] = None
      BY <3>5 DEF Answered
    <3>9. verdictBar[c] = IF pc[w] = "send" THEN outcome[w] ELSE None
      BY <3>3, <3>7, <3>8 DEF verdictBar
    <3>10. QED
      BY <3>6, <3>9
  <2>9. ~Carried(c) => verdictBar[c] = reply[c]
    BY <2>3 DEF verdictBar
  <2>10. QED
    BY <2>4, <2>5, <2>6, <2>7, <2>8, <2>9 DEF PhaseIs
<1>2. phaseBar = [c \in Callers |-> phaseBar[c]] /\ verdictBar = [c \in Callers |-> verdictBar[c]]
  <2>1. phaseBar = [c \in Callers |-> phaseBar[c]]
    BY DEF phaseBar
  <2>2. verdictBar = [c \in Callers |-> verdictBar[c]]
    BY DEF verdictBar
  <2>3. QED
    BY <2>1, <2>2
<1>3. QED
  BY <1>1, <1>2 DEF Mapped

\* A call that is nowhere is abandoned.
LEMMA Somewhere ==
    ASSUME NEW c \in Callers, c \in calling, Queued(c) = {}, ~Carried(c), ~Answered(c)
    PROVE  c \in Abandoned
  BY DEF Abandoned, Carriers, Carried

LEMMA SomewhereNext ==
    ASSUME NEW c \in Callers, c \in calling', Queued(c)' = {}, ~Carried(c)', ~Answered(c)'
    PROVE  c \in Abandoned'
  BY DEF Abandoned, Carriers, Carried

\* A call whose place is as it was has the phase and the verdict it had.
LEMMA SamePhase ==
    ASSUME Mapped, Mapped', NEW c \in Callers,
           c \in calling' <=> c \in calling,
           Queued(c)' = {} <=> Queued(c) = {},
           reply'[c] = reply[c],
           \A w \in Workers :
               /\ job'[w] = c <=> job[w] = c
               /\ job[w] = c => /\ PhaseAt(pc'[w]) = PhaseAt(pc[w])
                                /\ pc'[w] = "send" <=> pc[w] = "send"
                                /\ outcome'[w] = outcome[w] \/ pc'[w] # "send"
    PROVE  phaseBar'[c] = phaseBar[c] /\ verdictBar'[c] = verdictBar[c]
<1>m. PhaseIs(c) /\ PhaseIs(c)'
  BY DEF Mapped
<1>1. Carried(c)' <=> Carried(c)
  BY DEF Carried
<1>2. Answered(c)' <=> Answered(c)
  BY DEF Answered
<1>3. CASE Carried(c)
  <2>1. PICK w \in Workers : job[w] = c
    BY <1>3 DEF Carried
  <2>2. job'[w] = c
    BY <2>1
  <2>3. /\ phaseBar[c] = PhaseAt(pc[w]) /\ phaseBar'[c] = PhaseAt(pc'[w])
        /\ verdictBar[c] = IF pc[w] = "send" THEN outcome[w] ELSE None
        /\ verdictBar'[c] = IF pc'[w] = "send" THEN outcome'[w] ELSE None
    BY <1>m, <2>1, <2>2 DEF PhaseIs, PhaseAt
  <2>4. QED
    BY <2>1, <2>3
<1>4. CASE ~Carried(c)
  <2>1. verdictBar[c] = reply[c] /\ verdictBar'[c] = reply'[c]
    BY <1>m, <1>1, <1>4 DEF PhaseIs
  <2>2. CASE c \notin calling
    BY <1>m, <2>1, <2>2 DEF PhaseIs
  <2>3. CASE Queued(c) # {}
    BY <1>m, <2>1, <2>3 DEF PhaseIs
  <2>4. CASE Answered(c)
    BY <1>m, <1>2, <2>1, <2>4 DEF PhaseIs
  <2>5. CASE c \in calling /\ Queued(c) = {} /\ ~Answered(c)
    <3>1. c \in Abandoned /\ c \in Abandoned'
      BY <1>1, <1>2, <1>4, <2>5, Somewhere, SomewhereNext
    <3>2. QED
      BY <1>m, <2>1, <3>1 DEF PhaseIs
  <2>6. QED
    BY <2>2, <2>3, <2>4, <2>5
<1>5. QED
  BY <1>3, <1>4

\* A step that moves one call, and no other.
LEMMA MoveOf ==
    ASSUME Mapped, Mapped', NEW c \in Callers, NEW from, NEW to,
           phaseBar[c] = from, phaseBar'[c] = to,
           \A d \in Callers \ {c} : phaseBar'[d] = phaseBar[d]
    PROVE  Judge!Move(c, from, to)
<1>1. /\ phaseBar = [d \in Callers |-> phaseBar[d]]
      /\ phaseBar' = [d \in Callers |-> phaseBar'[d]]
  BY DEF Mapped
<1>2. phaseBar' = [phaseBar EXCEPT ![c] = to]
  BY <1>1
<1>3. QED
  BY <1>2 DEF Judge!Move

LEMMA SameVerdicts ==
    ASSUME Mapped, Mapped', \A d \in Callers : verdictBar'[d] = verdictBar[d]
    PROVE  verdictBar' = verdictBar
<1>1. /\ verdictBar = [d \in Callers |-> verdictBar[d]]
      /\ verdictBar' = [d \in Callers |-> verdictBar'[d]]
  BY DEF Mapped
<1>2. QED
  BY <1>1

LEMMA NewVerdict ==
    ASSUME Mapped, Mapped', NEW c \in Callers, NEW v, verdictBar'[c] = v,
           \A d \in Callers \ {c} : verdictBar'[d] = verdictBar[d]
    PROVE  verdictBar' = [verdictBar EXCEPT ![c] = v]
<1>1. /\ verdictBar = [d \in Callers |-> verdictBar[d]]
      /\ verdictBar' = [d \in Callers |-> verdictBar'[d]]
  BY DEF Mapped
<1>2. QED
  BY <1>1

-------------------------------------------------------------------------------
(* The steps. *)

LEMMA QueuedPush ==
    ASSUME jobs \in Seq(Callers), NEW c \in Callers, jobs' = Append(jobs, c), NEW d
    PROVE  Queued(d)' = {} <=> d # c /\ Queued(d) = {}
<1>1. /\ \A i \in 1 .. Len(jobs) : i \in 1 .. Len(jobs') /\ jobs'[i] = jobs[i]
      /\ Len(jobs) + 1 \in 1 .. Len(jobs') /\ jobs'[Len(jobs) + 1] = c
      /\ \A i \in 1 .. Len(jobs') : i \in 1 .. Len(jobs) \/ i = Len(jobs) + 1
  BY AppendProperties, LenProperties
<1>2. QED
  BY <1>1 DEF Queued

LEMMA QueuedPop ==
    ASSUME OwnInv, jobs # <<>>, jobs' = Tail(jobs), NEW d
    PROVE  /\ Queued(d)' = {} <=> d = Head(jobs) \/ Queued(d) = {}
           /\ Queued(Head(jobs)) # {} /\ Head(jobs) \in Callers
<1>1. /\ jobs \in Seq(Callers) /\ \A i, j \in 1 .. Len(jobs) : jobs[i] = jobs[j] => i = j
  BY DEF OwnInv, TInv, TypeOK, Own, QueueOwn
<1>2. /\ Len(jobs) \in Nat \ {0} /\ Head(jobs) = jobs[1] /\ Len(jobs') = Len(jobs) - 1
      /\ \A i \in 1 .. Len(jobs) - 1 : jobs'[i] = jobs[i + 1]
  BY <1>1, HeadTailProperties, LenProperties, EmptySeq
<1>3. \A i \in 1 .. Len(jobs') : i + 1 \in 1 .. Len(jobs) /\ jobs'[i] = jobs[i + 1] /\ i + 1 # 1
  BY <1>2
<1>4. \A i \in 1 .. Len(jobs) : i = 1 \/ (i - 1 \in 1 .. Len(jobs') /\ jobs'[i - 1] = jobs[i])
  BY <1>2
<1>5. 1 \in 1 .. Len(jobs)
  BY <1>2
<1>6. \A i \in 1 .. Len(jobs') : jobs'[i] # Head(jobs)
  BY <1>1, <1>2, <1>3, <1>5
<1>7. Head(jobs) \in Callers
  BY <1>1, PopType
<1>8. 1 \in Queued(Head(jobs))
  BY <1>2, <1>5 DEF Queued
<1>9. ASSUME Queued(d)' # {} PROVE d # Head(jobs) /\ Queued(d) # {}
  <2>1. PICK i \in 1 .. Len(jobs') : jobs'[i] = d
    BY <1>9 DEF Queued
  <2>2. i + 1 \in Queued(d)
    BY <1>3, <2>1 DEF Queued
  <2>3. QED
    BY <1>6, <2>1, <2>2
<1>10. ASSUME d # Head(jobs), Queued(d) # {} PROVE Queued(d)' # {}
  <2>1. PICK i \in 1 .. Len(jobs) : jobs[i] = d
    BY <1>10 DEF Queued
  <2>2. i - 1 \in Queued(d)'
    BY <1>2, <1>4, <1>10, <2>1 DEF Queued
  <2>3. QED
    BY <2>2
<1>11. QED
  BY <1>7, <1>8, <1>9, <1>10

\* A step of worker w for caller c is no step for the other callers.
LEMMA OthersSame ==
    ASSUME Mapped, Mapped', TInv, NEW w \in Workers, NEW c \in Callers,
           {job[w], job'[w]} \subseteq {c, None}, calling' = calling,
           \A v \in Workers \ {w} : job'[v] = job[v] /\ pc'[v] = pc[v] /\ outcome'[v] = outcome[v],
           \A d \in Callers \ {c} : reply'[d] = reply[d] /\ (Queued(d)' = {} <=> Queued(d) = {})
    PROVE  \A d \in Callers \ {c} : phaseBar'[d] = phaseBar[d] /\ verdictBar'[d] = verdictBar[d]
<1> SUFFICES ASSUME NEW d \in Callers \ {c}
             PROVE  phaseBar'[d] = phaseBar[d] /\ verdictBar'[d] = verdictBar[d]
  OBVIOUS
<1>1. job[w] # d /\ job'[w] # d
  BY NoneIsNoOutcome
<1>2. \A v \in Workers : /\ job'[v] = d <=> job[v] = d
                         /\ job[v] = d => /\ PhaseAt(pc'[v]) = PhaseAt(pc[v])
                                          /\ pc'[v] = "send" <=> pc[v] = "send"
                                          /\ outcome'[v] = outcome[v] \/ pc'[v] # "send"
  BY <1>1
<1>3. QED
  BY <1>2, SamePhase

\* Steps that change no place of any call.
LEMMA AllSame ==
    ASSUME Mapped, Mapped', UNCHANGED <<calling, jobs, reply, job>>,
           \A w \in Workers : job[w] # None =>
               /\ PhaseAt(pc'[w]) = PhaseAt(pc[w])
               /\ pc'[w] = "send" <=> pc[w] = "send"
               /\ outcome'[w] = outcome[w] \/ pc'[w] # "send"
    PROVE  phaseBar' = phaseBar /\ verdictBar' = verdictBar
<1>1. ASSUME NEW c \in Callers
      PROVE  phaseBar'[c] = phaseBar[c] /\ verdictBar'[c] = verdictBar[c]
  <2>1. c # None
    BY NoneIsNoOutcome
  <2>2. Queued(c)' = Queued(c)
    BY DEF Queued
  <2>3. QED
    BY <2>1, <2>2, SamePhase
<1>2. /\ phaseBar = [c \in Callers |-> phaseBar[c]] /\ phaseBar' = [c \in Callers |-> phaseBar'[c]]
  BY DEF Mapped
<1>3. QED
  BY <1>1, <1>2, SameVerdicts

LEMMA CallStep ==
    ASSUME RInv, Mapped, Mapped', NEW c \in Callers, ExecuteJob(c)
    PROVE  Judge!Call(c) \/ Judge!Reject(c)
<1>1. /\ c \notin calling /\ UNCHANGED <<reply, pc, job, outcome, state>>
      /\ phaseBar[c] = "out" /\ jobs \in Seq(Callers) /\ Idle' = Idle
  BY DEF ExecuteJob, workerVars, Mapped, PhaseIs, RInv, OwnInv, TInv, TypeOK, Idle
<1>2. CASE /\ Len(jobs) < MaxJobCount /\ jobs' = Append(jobs, c)
           /\ calling' = calling \cup {c} /\ UNCHANGED returned
  <2>1. Queued(c)' # {}
    BY <1>1, <1>2, QueuedPush
  <2>2. phaseBar'[c] = "waiting"
    BY <2>1 DEF Mapped, PhaseIs
  <2>3. \A d \in Callers \ {c} : phaseBar'[d] = phaseBar[d] /\ verdictBar'[d] = verdictBar[d]
    <3> SUFFICES ASSUME NEW d \in Callers \ {c}
                 PROVE  phaseBar'[d] = phaseBar[d] /\ verdictBar'[d] = verdictBar[d]
      OBVIOUS
    <3>1. Queued(d)' = {} <=> Queued(d) = {}
      BY <1>1, <1>2, QueuedPush
    <3>2. QED
      BY <1>1, <1>2, <3>1, SamePhase
  <2>4. verdictBar'[c] = verdictBar[c]
    <3>1. ~Carried(c)
      BY <1>1, NoneIsNoOutcome DEF Carried, RInv, OwnInv, Own, WorkerOwn
    <3>2. ~Carried(c)'
      BY <1>1, <3>1 DEF Carried
    <3>3. verdictBar[c] = reply[c] /\ verdictBar'[c] = reply'[c]
      BY <3>1, <3>2 DEF Mapped, PhaseIs
    <3>4. QED
      BY <1>1, <3>3
  <2>5. verdictBar' = verdictBar
    BY <2>3, <2>4, SameVerdicts
  <2>6. Judge!Move(c, "out", "waiting")
    BY <1>1, <2>2, <2>3, MoveOf
  <2>7. Judge!Call(c)
    BY <1>1, <1>2, <2>5, <2>6 DEF Judge!Call
  <2>8. QED
    BY <2>7
<1>3. CASE /\ Len(jobs) >= MaxJobCount /\ returned' = [returned EXCEPT ![c] = "rejected"]
           /\ UNCHANGED <<jobs, calling>>
  <2>1. phaseBar' = phaseBar /\ verdictBar' = verdictBar
    BY <1>1, <1>3, AllSame
  <2>2. Len(jobs) = MaxJobCount
    BY <1>1, <1>3, LenProperties, ExecutorAssumption DEF RInv, QueueFits, ExecutorAssumption
  <2>3. Judge!Reject(c)
    BY <1>1, <1>3, <2>1, <2>2 DEF Judge!Reject
  <2>4. QED
    BY <2>3
<1>4. QED
  BY <1>2, <1>3 DEF ExecuteJob

LEMMA ReturnStep ==
    ASSUME RInv, Mapped, Mapped', NEW c \in Callers, Receive(c)
    PROVE  Judge!Return(c)
<1>1. /\ c \in calling /\ Answered(c) /\ reply \in [Callers -> RunOutcomes \cup {None}]
      /\ returned' = [returned EXCEPT ![c] = reply[c]] /\ reply' = [reply EXCEPT ![c] = None]
      /\ calling' = calling \ {c} /\ UNCHANGED <<jobs, pc, job, outcome, state>>
  BY DEF Receive, workerVars, Answered, RInv, OwnInv, TInv, TypeOK
<1>2. ~Carried(c) /\ ~Carried(c)'
  <2>1. ~Carried(c)
    BY <1>1, NoneIsNoOutcome DEF Carried, Answered, RInv, OwnInv, Own, WorkerOwn
  <2>2. QED
    BY <1>1, <2>1 DEF Carried
<1>3. /\ phaseBar[c] = "answered" /\ verdictBar[c] = reply[c]
      /\ phaseBar'[c] = "out" /\ verdictBar'[c] = None
  BY <1>1, <1>2 DEF Mapped, PhaseIs
<1>4. \A d \in Callers \ {c} : phaseBar'[d] = phaseBar[d] /\ verdictBar'[d] = verdictBar[d]
  <2> SUFFICES ASSUME NEW d \in Callers \ {c}
               PROVE  phaseBar'[d] = phaseBar[d] /\ verdictBar'[d] = verdictBar[d]
    OBVIOUS
  <2>1. reply'[d] = reply[d] /\ Queued(d)' = Queued(d) /\ (d \in calling' <=> d \in calling)
    BY <1>1 DEF Queued
  <2>2. QED
    BY <1>1, <2>1, SamePhase
<1>5. verdictBar' = [verdictBar EXCEPT ![c] = None]
  BY <1>3, <1>4, NewVerdict
<1>6. Judge!Move(c, "answered", "out")
  BY <1>3, <1>4, MoveOf
<1>7. Idle' = Idle
  BY <1>1 DEF Idle
<1>8. QED
  BY <1>1, <1>3, <1>5, <1>6, <1>7 DEF Judge!Return

LEMMA ServersFree ==
    ASSUME RInv, Mapped, NEW w \in Workers, pc[w] = "select"
    PROVE  Cardinality(Judge!In("served") \cup Judge!In("running") \cup Judge!In("finished"))
               < Cardinality(Workers)
<1> DEFINE working == {v \in Workers : job[v] # None}
           served == {job[v] : v \in working}
           inside == Judge!In("served") \cup Judge!In("running") \cup Judge!In("finished")
<1>1. inside \subseteq served
  <2> SUFFICES ASSUME NEW c \in Callers, phaseBar[c] \in {"served", "running", "finished"}
               PROVE  \E v \in working : job[v] = c
    BY DEF Judge!In
  <2>1. Carried(c)
    <3> SUFFICES ASSUME ~Carried(c) PROVE FALSE
      OBVIOUS
    <3>1. c \in calling /\ Queued(c) = {} /\ ~Answered(c)
      BY DEF Mapped, PhaseIs
    <3>2. c \in Abandoned
      BY <3>1, Somewhere
    <3>3. QED
      BY <3>2 DEF Mapped, PhaseIs
  <2>2. QED
    BY <2>1, NoneIsNoOutcome DEF Carried
<1>2. working \in SUBSET (Workers \ {w})
  BY NoneIsNoOutcome DEF RInv, OwnInv, TInv, TypeOK, Locals
<1>3. /\ IsFiniteSet(Workers \ {w}) /\ Cardinality(Workers \ {w}) = Cardinality(Workers) - 1
      /\ Cardinality(Workers) \in Nat
  BY ExecutorAssumption, FS_RemoveElement, FS_CardinalityType DEF ExecutorAssumption
<1>4. IsFiniteSet(working) /\ Cardinality(working) <= Cardinality(Workers) - 1
  BY <1>2, <1>3, FS_Subset
<1> DEFINE f == [v \in working |-> job[v]]
<1>5. f \in Surjection(working, served)
  BY DEF Surjection
<1> HIDE DEF working, served, inside, f
<1>6. IsFiniteSet(served) /\ Cardinality(served) <= Cardinality(working)
  BY <1>4, <1>5, FS_Surjection
<1>7. IsFiniteSet(inside) /\ Cardinality(inside) <= Cardinality(served)
  BY <1>1, <1>6, FS_Subset
<1>8. /\ Cardinality(inside) \in Nat /\ Cardinality(served) \in Nat /\ Cardinality(working) \in Nat
  BY <1>4, <1>6, <1>7, FS_CardinalityType
<1>9. Cardinality(inside) < Cardinality(Workers)
  BY <1>3, <1>4, <1>6, <1>7, <1>8
<1>10. QED
  BY <1>9 DEF inside

LEMMA ServeStep ==
    ASSUME RInv, Mapped, Mapped', NEW w \in Workers, Pick(w)
    PROVE  \E c \in Callers : Judge!Serve(c)
<1>c. PICK c \in Callers : jobs # <<>> /\ c = Head(jobs)
  BY DEF Pick, RInv, OwnInv, TInv, TypeOK
<1>1. /\ OwnInv /\ TInv /\ jobs # <<>> /\ jobs' = Tail(jobs) /\ pc[w] = "select"
      /\ job' = [job EXCEPT ![w] = c] /\ pc' = [pc EXCEPT ![w] = "acquire"]
      /\ UNCHANGED <<calling, reply, returned, outcome, state>> /\ Idle' = Idle
      /\ job \in [Workers -> Callers \cup {None}]
      /\ pc \in [Workers -> {"select", "acquire", "mark", "run", "free", "send"}]
  BY <1>c DEF Pick, callVars, RInv, OwnInv, TInv, TypeOK, Idle
<1>2. job[w] = None
  BY <1>1 DEF TInv, Locals
<1>3. /\ c \in Callers /\ Queued(c) # {}
      /\ \A d \in Callers \ {c} : Queued(d)' = {} <=> Queued(d) = {}
  BY <1>1, <1>c, QueuedPop
<1>4. job'[w] = c /\ pc'[w] = "acquire"
  BY <1>1
<1>5. phaseBar[c] = "waiting" /\ phaseBar'[c] = "served" /\ verdictBar'[c] = None
  BY <1>3, <1>4 DEF Mapped, PhaseIs, PhaseAt
<1>6. verdictBar[c] = None
  <2>1. ~Carried(c) /\ reply[c] = None
    BY <1>1, <1>3, NoneIsNoOutcome DEF Carried, OwnInv, Own, QueueOwn, Apart, Queued
  <2>2. QED
    BY <1>3, <2>1 DEF Mapped, PhaseIs
<1>7. \A d \in Callers \ {c} : phaseBar'[d] = phaseBar[d] /\ verdictBar'[d] = verdictBar[d]
  <2>1. TInv /\ calling' = calling /\ {job[w], job'[w]} \subseteq {c, None}
    BY <1>1, <1>2, <1>4
  <2>2. \A v \in Workers \ {w} : job'[v] = job[v] /\ pc'[v] = pc[v] /\ outcome'[v] = outcome[v]
    BY <1>1
  <2>3. \A d \in Callers \ {c} : reply'[d] = reply[d] /\ (Queued(d)' = {} <=> Queued(d) = {})
    BY <1>1, <1>3
  <2>4. QED
    BY <1>3, <2>1, <2>2, <2>3, OthersSame
<1>8. verdictBar' = verdictBar
  BY <1>3, <1>5, <1>6, <1>7, SameVerdicts
<1>9. Judge!Move(c, "waiting", "served")
  BY <1>3, <1>5, <1>7, MoveOf
<1>10. Judge!Serve(c)
  <2>1. jobs # <<>> /\ c = Head(jobs) /\ jobs' = Tail(jobs)
    BY <1>c, <1>1
  <2>2. Cardinality(Judge!In("served") \cup Judge!In("running") \cup Judge!In("finished"))
            < Cardinality(Workers)
    BY <1>1, ServersFree DEF Judge!In
  <2>3. \A S : Judge!Cardinality(S) = Cardinality(S)
    BY DEF Judge!Cardinality, Cardinality
  <2>4. UNCHANGED <<verdictBar, returned, Cardinality(Idle)>>
    BY <1>1, <1>8
  <2>5. QED
    BY <1>9, <2>1, <2>2, <2>3, <2>4 DEF Judge!Serve
<1>11. QED
  BY <1>3, <1>10

LEMMA IdleFacts == RInv => IsFiniteSet(Idle) /\ Cardinality(Idle) \in Nat
  BY ExecutorAssumption, FS_Subset, FS_CardinalityType DEF ExecutorAssumption, Idle

\* what a worker that has a job is to its caller
LEMMA AtWork ==
    ASSUME RInv, Mapped, NEW w \in Workers, pc[w] # "select"
    PROVE  /\ job[w] \in Callers /\ phaseBar[job[w]] = PhaseAt(pc[w])
           /\ verdictBar[job[w]] = IF pc[w] = "send" THEN outcome[w] ELSE None
  BY DEF RInv, OwnInv, TInv, Locals, Mapped, PhaseIs

LEMMA StartStep ==
    ASSUME RInv, Mapped, Mapped', NEW w \in Workers, Acquire(w)
    PROVE  \E c \in Callers : Judge!Start(c)
<1>c. PICK c \in Callers : c = job[w]
  BY AtWork DEF Acquire
<1>1. /\ TInv /\ pc[w] = "acquire" /\ pc' = [pc EXCEPT ![w] = "mark"]
      /\ UNCHANGED <<jobs, calling, reply, returned, job, outcome>>
      /\ pc \in [Workers -> {"select", "acquire", "mark", "run", "free", "send"}]
  BY DEF Acquire, callVars, RInv, OwnInv, TInv, TypeOK
<1>2. c \in Callers /\ phaseBar[c] = "served" /\ verdictBar[c] = None
  BY <1>1, <1>c, AtWork DEF PhaseAt
<1>3. phaseBar'[c] = "running" /\ verdictBar'[c] = None
  <2>1. job'[w] = c /\ pc'[w] = "mark"
    BY <1>1, <1>c
  <2>2. QED
    BY <1>2, <2>1 DEF Mapped, PhaseIs, PhaseAt
<1>4. PICK k \in Idle : state' = [state EXCEPT ![k] = "busy"]
  BY DEF Acquire
<1>5. Idle' = Idle \ {k}
  BY <1>4 DEF Idle, RInv, OwnInv, TInv, TypeOK
<1>6. Cardinality(Idle') = Cardinality(Idle) - 1 /\ Cardinality(Idle) > 0
  <2>1. IsFiniteSet(Idle) /\ Cardinality(Idle) \in Nat /\ Cardinality(Idle) # 0
    BY <1>4, IdleFacts, FS_EmptySet
  <2>2. Cardinality(Idle') = Cardinality(Idle) - 1
    BY <1>4, <1>5, <2>1, FS_RemoveElement
  <2>3. QED
    BY <2>1, <2>2
<1>7. \A d \in Callers \ {c} : phaseBar'[d] = phaseBar[d] /\ verdictBar'[d] = verdictBar[d]
  <2>1. {job[w], job'[w]} \subseteq {c, None}
    BY <1>1, <1>c
  <2>2. \A d \in Callers \ {c} : Queued(d)' = Queued(d)
    BY <1>1 DEF Queued
  <2>3. \A v \in Workers \ {w} : job'[v] = job[v] /\ pc'[v] = pc[v] /\ outcome'[v] = outcome[v]
    BY <1>1
  <2>4. QED
    BY <1>1, <1>2, <2>1, <2>2, <2>3, OthersSame
<1>8. verdictBar' = verdictBar
  BY <1>2, <1>3, <1>7, SameVerdicts
<1>9. Judge!Move(c, "served", "running")
  BY <1>2, <1>3, <1>7, MoveOf
<1>10. Judge!Start(c)
  BY <1>1, <1>6, <1>8, <1>9 DEF Judge!Start
<1>11. QED
  BY <1>2, <1>10

LEMMA DropStep ==
    ASSUME RInv, Mapped, Mapped', NEW w \in Workers, GiveUp(w)
    PROVE  \E c \in Callers : Judge!Drop(c)
<1>c. PICK c \in Callers : c = job[w]
  BY AtWork DEF GiveUp
<1>1. /\ TInv /\ OwnInv /\ pc[w] = "acquire" /\ Idle = {} /\ job' = [job EXCEPT ![w] = None]
      /\ pc' = [pc EXCEPT ![w] = "select"] /\ outcome' = [outcome EXCEPT ![w] = None]
      /\ UNCHANGED <<jobs, calling, reply, returned, state>> /\ Idle' = Idle
      /\ pc \in [Workers -> {"select", "acquire", "mark", "run", "free", "send"}]
      /\ job \in [Workers -> Callers \cup {None}]
      /\ outcome \in [Workers -> RunOutcomes \cup {None}]
  BY DEF GiveUp, Finish, callVars, RInv, OwnInv, TInv, TypeOK, Idle
<1>2. c \in Callers /\ phaseBar[c] = "served" /\ verdictBar[c] = None
  BY <1>1, <1>c, AtWork DEF PhaseAt
<1>3. c \in calling /\ Queued(c) = {} /\ reply[c] = None /\ \A v \in Workers \ {w} : job[v] # c
  BY <1>1, <1>2, <1>c, NoneIsNoOutcome DEF OwnInv, Own, WorkerOwn, Apart, Queued
<1>4. job'[w] = None /\ pc'[w] = "select"
      /\ \A v \in Workers \ {w} : job'[v] = job[v] /\ pc'[v] = pc[v] /\ outcome'[v] = outcome[v]
  BY <1>1
<1>5. {job[w], job'[w]} \subseteq {c, None}
  BY <1>4, <1>c
<1>6. ~Carried(c)' /\ Queued(c)' = {} /\ ~Answered(c)' /\ c \in calling'
  BY <1>1, <1>2, <1>3, <1>4, NoneIsNoOutcome DEF Carried, Queued, Answered
<1>7. phaseBar'[c] = "dropped" /\ verdictBar'[c] = None
  <2>1. c \in Abandoned'
    BY <1>2, <1>6, SomewhereNext
  <2>2. QED
    BY <1>1, <1>2, <1>3, <1>6, <2>1 DEF Mapped, PhaseIs
<1>8. \A d \in Callers \ {c} : phaseBar'[d] = phaseBar[d] /\ verdictBar'[d] = verdictBar[d]
  <2>1. \A d \in Callers \ {c} : reply'[d] = reply[d] /\ (Queued(d)' = {} <=> Queued(d) = {})
    BY <1>1 DEF Queued
  <2>2. TInv /\ calling' = calling
    BY <1>1
  <2>3. QED
    BY <1>2, <1>4, <1>5, <2>1, <2>2, OthersSame
<1>9. verdictBar' = verdictBar
  BY <1>2, <1>7, <1>8, SameVerdicts
<1>10. Judge!Move(c, "served", "dropped")
  BY <1>2, <1>7, <1>8, MoveOf
<1>11. Judge!Drop(c)
  BY <1>1, <1>9, <1>10, FS_EmptySet DEF Judge!Drop
<1>12. QED
  BY <1>2, <1>11

\* The run that fails is finished as it ends; the one that succeeds, when its
\* container is idle again.
LEMMA FinishStep ==
    ASSUME RInv, Mapped, Mapped', NEW w \in Workers, NEW v \in RunOutcomes,
           pc[w] \in {"run", "free"}, pc' = [pc EXCEPT ![w] = "send"],
           outcome' \in [Workers -> RunOutcomes \cup {None}], outcome'[w] = v,
           \A u \in Workers \ {w} : outcome'[u] = outcome[u],
           UNCHANGED <<jobs, calling, reply, returned, job>>,
           Cardinality(Idle') = IF v = "ok" THEN Cardinality(Idle) + 1 ELSE Cardinality(Idle)
    PROVE  \E c \in Callers : Judge!Finish(c)
<1>c. PICK c \in Callers : c = job[w]
  BY AtWork
<1>1. /\ TInv /\ OwnInv
      /\ pc \in [Workers -> {"select", "acquire", "mark", "run", "free", "send"}]
  BY DEF RInv, OwnInv, TInv, TypeOK
<1>2. c \in Callers /\ phaseBar[c] = "running" /\ verdictBar[c] = None
  BY <1>c, AtWork DEF PhaseAt
<1>3. job'[w] = c /\ pc'[w] = "send"
  BY <1>1, <1>c
<1>4. phaseBar'[c] = "finished" /\ verdictBar'[c] = v
  BY <1>2, <1>3 DEF Mapped, PhaseIs, PhaseAt
<1>5. {job[w], job'[w]} \subseteq {c, None}
  BY <1>3, <1>c
<1>6. \A d \in Callers \ {c} : phaseBar'[d] = phaseBar[d] /\ verdictBar'[d] = verdictBar[d]
  <2>1. \A d \in Callers \ {c} : reply'[d] = reply[d] /\ (Queued(d)' = {} <=> Queued(d) = {})
    BY DEF Queued
  <2>2. \A u \in Workers \ {w} : job'[u] = job[u] /\ pc'[u] = pc[u] /\ outcome'[u] = outcome[u]
    BY <1>1
  <2>3. TInv /\ calling' = calling
    BY <1>1
  <2>4. QED
    BY <1>2, <1>5, <2>1, <2>2, <2>3, OthersSame
<1>7. verdictBar' = [verdictBar EXCEPT ![c] = v]
  BY <1>2, <1>4, <1>6, NewVerdict
<1>8. Judge!Move(c, "running", "finished")
  BY <1>2, <1>4, <1>6, MoveOf
<1>9. Judge!Finish(c)
  BY <1>7, <1>8 DEF Judge!Finish
<1>10. QED
  BY <1>2, <1>9

LEMMA RunStep ==
    ASSUME RInv, Mapped, Mapped', NEW w \in Workers, Run(w)
    PROVE  (\E c \in Callers : Judge!Finish(c)) \/ UNCHANGED Judge!vars
<1>1. /\ TInv /\ pc[w] = "run" /\ UNCHANGED <<jobs, calling, reply, returned, job, state>>
      /\ pc \in [Workers -> {"select", "acquire", "mark", "run", "free", "send"}]
      /\ outcome \in [Workers -> RunOutcomes \cup {None}]
  BY DEF Run, callVars, RInv, OwnInv, TInv, TypeOK
<1>2. PICK o \in RunOutcomes : /\ outcome' = [outcome EXCEPT ![w] = o]
                               /\ pc' = [pc EXCEPT ![w] = IF o = "ok" THEN "free" ELSE "send"]
  BY DEF Run
<1>3. Idle' = Idle
  BY <1>1 DEF Idle
<1>4. CASE o = "ok"
  <2>1. pc'[w] = "free" /\ \A u \in Workers \ {w} : pc'[u] = pc[u] /\ outcome'[u] = outcome[u]
    BY <1>1, <1>2, <1>4
  <2>2. \A u \in Workers : /\ PhaseAt(pc'[u]) = PhaseAt(pc[u])
                           /\ pc'[u] = "send" <=> pc[u] = "send"
                           /\ outcome'[u] = outcome[u] \/ pc'[u] # "send"
    BY <1>1, <2>1 DEF PhaseAt
  <2>3. phaseBar' = phaseBar /\ verdictBar' = verdictBar
    BY <1>1, <2>2, AllSame
  <2>4. QED
    BY <1>1, <1>3, <2>3 DEF Judge!vars
<1>5. CASE o # "ok"
  <2>1. /\ pc' = [pc EXCEPT ![w] = "send"] /\ outcome'[w] = o
        /\ outcome' \in [Workers -> RunOutcomes \cup {None}]
        /\ \A u \in Workers \ {w} : outcome'[u] = outcome[u]
    BY <1>1, <1>2, <1>5
  <2>2. QED
    BY <1>1, <1>3, <1>5, <2>1, FinishStep
<1>6. QED
  BY <1>4, <1>5

LEMMA FreeStep ==
    ASSUME RInv, Mapped, Mapped', NEW w \in Workers, Free(w)
    PROVE  \E c \in Callers : Judge!Finish(c)
<1>1. /\ TInv /\ pc[w] = "free" /\ pc' = [pc EXCEPT ![w] = "send"]
      /\ UNCHANGED <<jobs, calling, reply, returned, job, outcome>>
      /\ state' = [state EXCEPT ![cid[w]] = "idle"]
      /\ state \in [Containers -> {"idle", "busy", "error"}]
      /\ outcome \in [Workers -> RunOutcomes \cup {None}]
  BY DEF Free, callVars, RInv, OwnInv, TInv, TypeOK
<1>2. outcome[w] = "ok" /\ "ok" \in RunOutcomes
  BY <1>1 DEF RInv, FreedIsOk, TInv, Locals
<1>3. cid[w] \in Containers /\ state[cid[w]] = "busy"
  BY <1>1 DEF RInv, XInv, TInv, Locals, HeldIsBusy, Held, Holds
<1>4. Idle' = Idle \cup {cid[w]} /\ cid[w] \notin Idle
  BY <1>1, <1>3 DEF Idle
<1>5. Cardinality(Idle') = Cardinality(Idle) + 1
  BY <1>4, IdleFacts, FS_AddElement
<1>6. QED
  BY <1>1, <1>2, <1>5, FinishStep

LEMMA AnswerStep ==
    ASSUME RInv, Mapped, Mapped', NEW w \in Workers, Send(w)
    PROVE  \E c \in Callers : Judge!Answer(c)
<1>c. PICK c \in Callers : c = job[w]
  BY AtWork DEF Send
<1>1. /\ TInv /\ OwnInv /\ pc[w] = "send" /\ job' = [job EXCEPT ![w] = None]
      /\ pc' = [pc EXCEPT ![w] = "select"] /\ outcome' = [outcome EXCEPT ![w] = None]
      /\ reply' = [reply EXCEPT ![c] = outcome[w]]
      /\ UNCHANGED <<jobs, calling, returned, state>> /\ Idle' = Idle
      /\ pc \in [Workers -> {"select", "acquire", "mark", "run", "free", "send"}]
      /\ job \in [Workers -> Callers \cup {None}]
      /\ outcome \in [Workers -> RunOutcomes \cup {None}]
      /\ reply \in [Callers -> RunOutcomes \cup {None}]
  BY <1>c DEF Send, Finish, RInv, OwnInv, TInv, TypeOK, Idle
<1>2. c \in Callers /\ phaseBar[c] = "finished" /\ verdictBar[c] = outcome[w]
  BY <1>1, <1>c, AtWork DEF PhaseAt
<1>3. \A v \in Workers \ {w} : job[v] # c
  BY <1>1, <1>2, <1>c, NoneIsNoOutcome DEF OwnInv, Own, WorkerOwn
<1>4. job'[w] = None
      /\ \A v \in Workers \ {w} : job'[v] = job[v] /\ pc'[v] = pc[v] /\ outcome'[v] = outcome[v]
  BY <1>1
<1>5. {job[w], job'[w]} \subseteq {c, None} /\ outcome[w] \in RunOutcomes
  <2>1. outcome[w] \in RunOutcomes
    BY <1>1 DEF TInv, Locals
  <2>2. QED
    BY <1>1, <1>4, <1>c, <2>1
<1>6. ~Carried(c)' /\ Answered(c)' /\ reply'[c] = outcome[w]
  <2>1. reply'[c] = outcome[w] /\ outcome[w] # None
    BY <1>1, <1>5, NoneIsNoOutcome
  <2>2. \A v \in Workers : job'[v] # c
    BY <1>3, <1>4, NoneIsNoOutcome
  <2>3. QED
    BY <2>1, <2>2 DEF Carried, Answered
<1>7. phaseBar'[c] = "answered" /\ verdictBar'[c] = outcome[w]
  BY <1>2, <1>6 DEF Mapped, PhaseIs
<1>8. \A d \in Callers \ {c} : phaseBar'[d] = phaseBar[d] /\ verdictBar'[d] = verdictBar[d]
  <2>1. \A d \in Callers \ {c} : reply'[d] = reply[d] /\ (Queued(d)' = {} <=> Queued(d) = {})
    BY <1>1 DEF Queued
  <2>2. TInv /\ calling' = calling /\ {job[w], job'[w]} \subseteq {c, None}
    BY <1>1, <1>5
  <2>3. QED
    BY <1>4, <2>1, <2>2, OthersSame
<1>9. verdictBar' = verdictBar
  BY <1>2, <1>7, <1>8, SameVerdicts
<1>10. Judge!Move(c, "finished", "answered")
  BY <1>2, <1>7, <1>8, MoveOf
<1>11. Judge!Answer(c)
  BY <1>1, <1>9, <1>10 DEF Judge!Answer
<1>12. QED
  BY <1>2, <1>11

\* Retries and the second write of "busy" are not seen.
LEMMA HiddenStep ==
    ASSUME RInv, Mapped, Mapped', NEW w \in Workers, Retry(w) \/ Mark(w)
    PROVE  UNCHANGED Judge!vars
<1>1. /\ TInv /\ UNCHANGED <<jobs, calling, reply, returned, job, outcome>>
      /\ pc \in [Workers -> {"select", "acquire", "mark", "run", "free", "send"}]
      /\ state \in [Containers -> {"idle", "busy", "error"}]
      /\ pc' = pc \/ (pc[w] = "mark" /\ pc' = [pc EXCEPT ![w] = "run"])
  BY DEF Retry, Mark, callVars, RInv, OwnInv, TInv, TypeOK
<1>2. \A u \in Workers : /\ PhaseAt(pc'[u]) = PhaseAt(pc[u])
                         /\ pc'[u] = "send" <=> pc[u] = "send"
  BY <1>1 DEF PhaseAt
<1>3. phaseBar' = phaseBar /\ verdictBar' = verdictBar
  BY <1>1, <1>2, AllSame
<1>4. Idle' = Idle
  <2>1. ASSUME Mark(w) PROVE state' = state
    <3>1. /\ cid[w] \in Containers /\ state[cid[w]] = "busy"
          /\ state' = [state EXCEPT ![cid[w]] = "busy"]
      BY <2>1 DEF Mark, RInv, XInv, TInv, Locals, HeldIsBusy, Held, Holds
    <3>2. QED
      BY <1>1, <3>1
  <2>2. ASSUME Retry(w) PROVE state' = state
    BY <2>2 DEF Retry
  <2>3. state' = state
    BY <2>1, <2>2
  <2>4. QED
    BY <2>3 DEF Idle
<1>5. QED
  BY <1>1, <1>3, <1>4 DEF Judge!vars

LEMMA JudgeStep == RInv /\ Mapped /\ Mapped' /\ [Next]_vars => [Judge!Next]_(Judge!vars)
<1> SUFFICES ASSUME RInv, Mapped, Mapped', [Next]_vars PROVE Judge!Next \/ UNCHANGED Judge!vars
  OBVIOUS
<1>1. ASSUME NEW c \in Callers, ExecuteJob(c) \/ Receive(c) PROVE Judge!Next
  BY <1>1, CallStep, ReturnStep DEF Judge!Next
<1>2. ASSUME NEW w \in Workers, Pick(w) \/ Acquire(w) \/ GiveUp(w) \/ Free(w) \/ Send(w)
      PROVE  Judge!Next
  BY <1>2, ServeStep, StartStep, DropStep, FreeStep, AnswerStep DEF Judge!Next
<1>3. ASSUME NEW w \in Workers, Run(w) PROVE Judge!Next \/ UNCHANGED Judge!vars
  BY <1>3, RunStep DEF Judge!Next
<1>4. ASSUME NEW w \in Workers, Retry(w) \/ Mark(w) PROVE UNCHANGED Judge!vars
  BY <1>4, HiddenStep
<1>5. CASE UNCHANGED vars
  <2>1. UNCHANGED <<jobs, calling, reply, returned, job, pc, outcome, state>>
    BY <1>5 DEF vars
  <2>2. phaseBar' = phaseBar /\ verdictBar' = verdictBar
    BY <2>1, AllSame
  <2>3. Idle' = Idle
    BY <2>1 DEF Idle
  <2>4. QED
    BY <2>1, <2>2, <2>3 DEF Judge!vars
<1>6. QED
  BY <1>1, <1>2, <1>3, <1>4, <1>5 DEF Next, WorkerStep

LEMMA JudgeInit == Init => Judge!Init
<1> SUFFICES ASSUME Init PROVE Judge!Init
  OBVIOUS
<1>1. phaseBar = [c \in Callers |-> "out"]
  <2>1. \A c \in Callers : PhaseOf(c) = "out"
    BY DEF Init, PhaseOf, Queued, CarriedAt, Answered, Abandoned
  <2>2. QED
    BY <2>1 DEF phaseBar
<1>2. verdictBar = [c \in Callers |-> None]
  BY DEF Init, verdictBar, CarriedAt
<1>3. Cardinality(Idle) \in 0 .. Cardinality(Containers)
  <2>1. Idle \in SUBSET Containers /\ IsFiniteSet(Containers)
    BY ExecutorAssumption DEF ExecutorAssumption, Idle
  <2>2. /\ Cardinality(Idle) \in Nat /\ Cardinality(Containers) \in Nat
        /\ Cardinality(Idle) <= Cardinality(Containers)
    BY <2>1, FS_Subset, FS_CardinalityType
  <2>3. QED
    BY <2>2
<1>4. QED
  BY <1>1, <1>2, <1>3 DEF Init, Judge!Init

\* The workers, the queue and the containers implement the judge service, for every
\* number of callers, workers and containers, every capacity and every retry limit.
THEOREM JudgeImplemented == Spec => JudgeSpec
<1>1. Spec => []Mapped
  BY RInvAlways, Mapping, PTL
<1>2. QED
  BY <1>1, JudgeInit, JudgeStep, RInvAlways, PTL DEF Spec, JudgeSpec, Judge!Spec

================================================================================
