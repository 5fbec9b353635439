---------------------------- MODULE ExecutorProofs ----------------------------
(***************************************************************************)
(* Theorems about Executor, for every number of callers, workers and       *)
(* containers, every queue capacity and every retry limit.                 *)
(***************************************************************************)
EXTENDS Executor, FiniteSetTheorems, SequenceTheorems, TLAPS

(* Type correctness, with what the program counter of a worker says of its  *)
(* locals: a worker past its select has a job, one between the scan and the *)
(* release has a container, one past its run has an outcome.                 *)
Locals ==
    \A w \in Workers :
        /\ pc[w] # "select" <=> job[w] \in Callers
        /\ pc[w] \in {"mark", "run", "free"} => cid[w] \in Containers
        /\ pc[w] \in {"free", "send"} => outcome[w] \in RunOutcomes

TInv == TypeOK /\ Locals

LEMMA NoneIsNoOutcome == None \notin RunOutcomes /\ None \notin Callers /\ None \notin Containers
  BY ExecutorAssumption DEF ExecutorAssumption

\* Popping a channel keeps the type of its contents.
LEMMA PopType ==
    ASSUME NEW S, NEW q \in Seq(S), q # <<>>
    PROVE  Head(q) \in S /\ Tail(q) \in Seq(S)
  OBVIOUS

LEMMA TInvInit == Init => TInv
<1> SUFFICES ASSUME Init PROVE TInv
  OBVIOUS
<1>1. state \in [Containers -> {"idle", "busy", "error"}]
  BY ExecutorAssumption DEF ExecutorAssumption, Init
<1>2. tries \in [Workers -> 0 .. MaxRetries - 1]
  BY ExecutorAssumption DEF ExecutorAssumption, Init
<1>3. /\ reply \in [Callers -> RunOutcomes \cup {None}]
      /\ returned \in [Callers -> Results \cup {None}]
      /\ jobs \in Seq(Callers) /\ calling \in SUBSET Callers
  BY DEF Init
<1>4. QED
  BY <1>1, <1>2, <1>3, NoneIsNoOutcome DEF Init, TInv, TypeOK, Locals

\* A worker that returns to its select keeps every worker's locals in order.
LEMMA FinishTyped ==
    ASSUME TInv, NEW w \in Workers, Finish(w)
    PROVE  /\ pc' \in [Workers -> {"select", "acquire", "mark", "run", "free", "send"}]
           /\ job' \in [Workers -> Callers \cup {None}]
           /\ cid' \in [Workers -> Containers \cup {None}]
           /\ tries' \in [Workers -> 0 .. MaxRetries - 1]
           /\ outcome' \in [Workers -> RunOutcomes \cup {None}]
           /\ Locals'
  BY ExecutorAssumption, NoneIsNoOutcome
     DEF ExecutorAssumption, TInv, TypeOK, Locals, Finish

LEMMA TInvStep == TInv /\ [Next]_vars => TInv'
<1> SUFFICES ASSUME TInv, [Next]_vars PROVE TInv'
  OBVIOUS
<1> USE DEF TInv
<1>1. ASSUME NEW c \in Callers, ExecuteJob(c) PROVE TInv'
  <2>1. jobs' \in Seq(Callers)
    <3>1. jobs \in Seq(Callers)
      BY DEF TypeOK
    <3>2. Append(jobs, c) \in Seq(Callers)
      BY <3>1, AppendProperties
    <3>3. jobs' \in {jobs, Append(jobs, c)}
      BY <1>1 DEF ExecuteJob
    <3>4. QED
      BY <3>1, <3>2, <3>3
  <2>2. calling' \in SUBSET Callers
    BY <1>1 DEF ExecuteJob, TypeOK
  <2>3. returned' \in [Callers -> Results \cup {None}]
    BY <1>1 DEF ExecuteJob, TypeOK, Results
  <2>4. QED
    BY <1>1, <2>1, <2>2, <2>3 DEF ExecuteJob, TypeOK, Locals, workerVars
<1>2. ASSUME NEW c \in Callers, Receive(c) PROVE TInv'
  BY <1>2, ExecutorAssumption
     DEF ExecutorAssumption, Receive, TypeOK, Locals, Results, workerVars
<1>3. ASSUME NEW w \in Workers, Pick(w) PROVE TInv'
  <2>1. Head(jobs) \in Callers /\ Tail(jobs) \in Seq(Callers)
    BY <1>3, PopType DEF Pick, TypeOK
  <2>2. QED
    BY <1>3, <2>1, NoneIsNoOutcome DEF Pick, TypeOK, Locals, callVars
<1>4. ASSUME NEW w \in Workers, Acquire(w) PROVE TInv'
  BY <1>4 DEF Acquire, Idle, TypeOK, Locals, callVars
<1>5. ASSUME NEW w \in Workers, Retry(w) PROVE TInv'
  BY <1>5, ExecutorAssumption DEF ExecutorAssumption, Retry, TypeOK, Locals, callVars
<1>6. ASSUME NEW w \in Workers, GiveUp(w) PROVE TInv'
  BY <1>6, FinishTyped DEF GiveUp, TypeOK, callVars
<1>7. ASSUME NEW w \in Workers, Mark(w) PROVE TInv'
  BY <1>7 DEF Mark, TypeOK, Locals, callVars
<1>8. ASSUME NEW w \in Workers, Run(w) PROVE TInv'
  BY <1>8 DEF Run, TypeOK, Locals, callVars
<1>9. ASSUME NEW w \in Workers, Free(w) PROVE TInv'
  BY <1>9 DEF Free, TypeOK, Locals, callVars
<1>10. ASSUME NEW w \in Workers, Send(w) PROVE TInv'
  BY <1>10, FinishTyped DEF Send, TypeOK, Locals
<1>11. CASE UNCHANGED vars
  BY <1>11 DEF vars, TypeOK, Locals
<1>12. QED
  BY <1>1, <1>2, <1>3, <1>4, <1>5, <1>6, <1>7, <1>8, <1>9, <1>10, <1>11
     DEF Next, WorkerStep

(* Every reachable state is of the declared types, with each worker's locals *)
(* as its program counter says.                                              *)
LEMMA TInvAlways == Spec => []TInv
  BY TInvInit, TInvStep, PTL DEF Spec

\* The state of the queue, the callers, the workers and the containers has the
\* declared types in every reachable state.
THEOREM TypeCorrect == Spec => []TypeOK
<1>1. TInv => TypeOK
  BY DEF TInv
<1>2. QED
  BY <1>1, TInvAlways, PTL

-------------------------------------------------------------------------------
(* Exclusive use of containers.  ExclusiveContainer alone is not inductive:    *)
(* nothing in it stops a scan from finding a container in use.  HeldIsBusy     *)
(* closes the gap: scans take idle containers only.                            *)
XInv == TInv /\ ExclusiveContainer /\ HeldIsBusy

\* Workers whose program counter and container stay as they are keep what they hold.
LEMMA SameHolds ==
    ASSUME NEW w \in Workers, NEW k, pc'[w] = pc[w], cid'[w] = cid[w]
    PROVE  Holds(w, k)' <=> Holds(w, k)
  BY DEF Holds

LEMMA XInvInit == Init => XInv
  BY TInvInit DEF Init, XInv, ExclusiveContainer, HeldIsBusy, Held, Holds

LEMMA XInvStep == XInv /\ [Next]_vars => XInv'
<1> SUFFICES ASSUME XInv, [Next]_vars PROVE XInv'
  OBVIOUS
<1>t. TInv'
  BY TInvStep DEF XInv
<1> DEFINE P == ExclusiveContainer /\ \A w \in Workers, k \in Containers :
                                        Holds(w, k) => state[k] = "busy"
<1>p. P
  BY DEF XInv, HeldIsBusy, Held
<1> SUFFICES P'
  BY <1>t DEF XInv, HeldIsBusy, Held
<1> USE DEF XInv, TInv, TypeOK, ExclusiveContainer, Holds
<1>1. ASSUME NEW c \in Callers, ExecuteJob(c) \/ Receive(c) PROVE P'
  BY <1>1, <1>p DEF ExecuteJob, Receive, workerVars
<1>2. ASSUME NEW w \in Workers, Pick(w) \/ Retry(w) PROVE P'
  <2>1. /\ UNCHANGED <<state, cid>>
        /\ pc'[w] = "acquire"
        /\ \A v \in Workers \ {w} : pc'[v] = pc[v]
    BY <1>2 DEF Pick, Retry
  <2>2. \A v \in Workers, k \in Containers : Holds(v, k)' => Holds(v, k)
    BY <2>1
  <2>3. QED
    BY <1>p, <2>1, <2>2
<1>3. ASSUME NEW w \in Workers, Acquire(w) PROVE P'
  <2>1. PICK k \in Idle : /\ state' = [state EXCEPT ![k] = "busy"]
                          /\ cid' = [cid EXCEPT ![w] = k]
    BY <1>3 DEF Acquire
  <2>2. \A v \in Workers : ~Holds(v, k)
    BY <1>p, <2>1 DEF Idle
  <2>3. QED
    BY <1>3, <1>p, <2>1, <2>2 DEF Acquire, Idle
<1>4. ASSUME NEW w \in Workers, GiveUp(w) \/ Send(w) PROVE P'
  <2>1. /\ state' = state
        /\ pc'[w] = "select"
        /\ \A v \in Workers \ {w} : pc'[v] = pc[v] /\ cid'[v] = cid[v]
    BY <1>4 DEF GiveUp, Send, Finish
  <2>2. \A v \in Workers, k \in Containers : Holds(v, k)' => Holds(v, k)
    BY <2>1
  <2>3. QED
    BY <1>p, <2>1, <2>2
<1>5. ASSUME NEW w \in Workers, Mark(w) PROVE P'
  BY <1>5, <1>p DEF Mark
<1>6. ASSUME NEW w \in Workers, Run(w) PROVE P'
  BY <1>6, <1>p DEF Run
<1>7. ASSUME NEW w \in Workers, Free(w) PROVE P'
  <2>1. cid[w] \in Containers /\ Holds(w, cid[w])
    BY <1>7 DEF Free, Locals
  <2>2. \A v \in Workers : v # w => ~Holds(v, cid[w])
    BY <1>p, <2>1
  <2>3. QED
    BY <1>7, <1>p, <2>1, <2>2 DEF Free
<1>8. CASE UNCHANGED vars
  BY <1>8, <1>p DEF vars
<1>9. QED
  BY <1>1, <1>2, <1>3, <1>4, <1>5, <1>6, <1>7, <1>8 DEF Next, WorkerStep

LEMMA XInvAlways == Spec => []XInv
  BY XInvInit, XInvStep, PTL DEF Spec

\* Two jobs are never in one container at once, whatever the numbers of workers
\* and containers, although SetContainerState writes without the mutex.
THEOREM Exclusion == Spec => []ExclusiveContainer
<1>1. XInv => ExclusiveContainer
  BY DEF XInv
<1>2. QED
  BY <1>1, XInvAlways, PTL

\* A container in use is marked busy, so no scan offers it to another worker.
THEOREM HeldStaysBusy == Spec => []HeldIsBusy
<1>1. XInv => HeldIsBusy
  BY DEF XInv
<1>2. QED
  BY <1>1, XInvAlways, PTL

-------------------------------------------------------------------------------
(* One owner per call.  Own is OneOwner said of queue positions and workers    *)
(* rather than of callers, which is the form the steps preserve one by one.    *)
QueueOwn ==
    /\ \A i \in 1 .. Len(jobs) : jobs[i] \in calling /\ reply[jobs[i]] = None
    /\ \A i, j \in 1 .. Len(jobs) : jobs[i] = jobs[j] => i = j

WorkerOwn ==
    /\ \A w \in Workers : job[w] # None => job[w] \in calling /\ reply[job[w]] = None
    /\ \A v, w \in Workers : job[v] # None /\ job[v] = job[w] => v = w

Apart == \A w \in Workers, i \in 1 .. Len(jobs) : jobs[i] # job[w]

Own == /\ QueueOwn
       /\ WorkerOwn
       /\ Apart
       /\ \A c \in Callers : reply[c] # None => c \in calling

OwnInv == TInv /\ Own

LEMMA OwnInvInit == Init => OwnInv
  BY TInvInit DEF Init, OwnInv, Own, QueueOwn, WorkerOwn, Apart

\* What popping the queue leaves: every remaining entry was an entry before,
\* and none is the entry that was popped when the entries are distinct.
LEMMA PopDistinct ==
    ASSUME NEW S, NEW q \in Seq(S), q # <<>>,
           \A i, j \in 1 .. Len(q) : q[i] = q[j] => i = j
    PROVE  /\ 1 \in 1 .. Len(q) /\ Head(q) = q[1]
           /\ \A i \in 1 .. Len(Tail(q)) : /\ i + 1 \in 1 .. Len(q)
                                           /\ Tail(q)[i] = q[i + 1]
                                           /\ Tail(q)[i] # Head(q)
           /\ \A i, j \in 1 .. Len(Tail(q)) : Tail(q)[i] = Tail(q)[j] => i = j
<1>1. /\ Len(q) \in Nat \ {0} /\ Len(Tail(q)) = Len(q) - 1 /\ Head(q) = q[1]
      /\ \A i \in 1 .. Len(q) - 1 : Tail(q)[i] = q[i + 1]
  BY HeadTailProperties, LenProperties, EmptySeq
<1>2. QED
  BY <1>1

\* What a send to the queue makes of it.
LEMMA PushEntries ==
    ASSUME NEW S, NEW q \in Seq(S), NEW e \in S
    PROVE  \A i \in 1 .. Len(Append(q, e)) :
               \/ i \in 1 .. Len(q) /\ Append(q, e)[i] = q[i]
               \/ i = Len(q) + 1 /\ i \notin 1 .. Len(q) /\ Append(q, e)[i] = e
  BY AppendProperties, LenProperties

LEMMA OwnInvStep == OwnInv /\ [Next]_vars => OwnInv'
<1> SUFFICES ASSUME OwnInv, [Next]_vars PROVE Own'
  BY TInvStep DEF OwnInv
<1>t. TInv
  BY DEF OwnInv
<1>n. None \notin Callers
  BY NoneIsNoOutcome
<1>q. jobs \in Seq(Callers) /\ \A i \in 1 .. Len(jobs) : jobs[i] \in Callers
  BY <1>t, ElementOfSeq DEF TInv, TypeOK
<1>o. QueueOwn /\ WorkerOwn /\ Apart /\ \A c \in Callers : reply[c] # None => c \in calling
  BY DEF OwnInv, Own
<1> USE DEF Own
<1>1. ASSUME NEW c \in Callers, ExecuteJob(c) PROVE Own'
  <2>1. CASE jobs' = jobs /\ calling' = calling
    BY <1>1, <1>o, <2>1 DEF ExecuteJob, workerVars, QueueOwn, WorkerOwn, Apart
  <2>2. CASE jobs' = Append(jobs, c) /\ calling' = calling \cup {c}
    <3>1. c \notin calling /\ reply[c] = None
      BY <1>1, <1>o DEF ExecuteJob
    <3>2. /\ \A i \in 1 .. Len(jobs) : jobs[i] # c
          /\ \A w \in Workers : job[w] # c
      BY <3>1, <1>o, <1>n DEF QueueOwn, WorkerOwn
    <3>3. \A i \in 1 .. Len(jobs') :
               \/ i \in 1 .. Len(jobs) /\ jobs'[i] = jobs[i]
               \/ i = Len(jobs) + 1 /\ i \notin 1 .. Len(jobs) /\ jobs'[i] = c
      BY <2>2, <1>q, PushEntries
    <3>4. reply' = reply /\ job' = job
      BY <1>1 DEF ExecuteJob, workerVars
    <3>5. QueueOwn'
      BY <1>o, <2>2, <3>1, <3>2, <3>3, <3>4 DEF QueueOwn
    <3>6. WorkerOwn'
      BY <1>o, <2>2, <3>4 DEF WorkerOwn
    <3>7. Apart'
      BY <1>o, <3>2, <3>3, <3>4 DEF Apart
    <3>8. QED
      BY <1>o, <2>2, <3>4, <3>5, <3>6, <3>7
  <2>3. QED
    BY <1>1, <2>1, <2>2 DEF ExecuteJob
<1>2. ASSUME NEW c \in Callers, Receive(c) PROVE Own'
  <2>1. /\ \A i \in 1 .. Len(jobs) : jobs[i] # c
        /\ \A w \in Workers : job[w] # c
    BY <1>2, <1>o, <1>n DEF Receive, QueueOwn, WorkerOwn
  <2>2. /\ jobs' = jobs /\ job' = job /\ calling' = calling \ {c}
        /\ reply' = [reply EXCEPT ![c] = None]
        /\ reply \in [Callers -> RunOutcomes \cup {None}]
    BY <1>2, <1>t DEF Receive, workerVars, TInv, TypeOK
  <2>3. \A d \in Callers : d # c => reply'[d] = reply[d]
    BY <2>2
  <2>4. \A w \in Workers : job[w] # None => job[w] \in Callers
    BY <1>t DEF TInv, TypeOK
  <2>5. QueueOwn'
    BY <1>o, <1>q, <2>1, <2>2, <2>3 DEF QueueOwn
  <2>6. WorkerOwn' /\ Apart'
    BY <1>o, <2>1, <2>2, <2>3, <2>4 DEF WorkerOwn, Apart
  <2>7. QED
    BY <1>o, <2>2, <2>3, <2>5, <2>6
<1>3. ASSUME NEW w \in Workers, Pick(w) PROVE Own'
  <2>1. /\ jobs # <<>> /\ jobs' = Tail(jobs) /\ calling' = calling /\ reply' = reply
        /\ job' = [job EXCEPT ![w] = Head(jobs)]
        /\ job \in [Workers -> Callers \cup {None}]
    BY <1>3, <1>t DEF Pick, callVars, TInv, TypeOK
  <2>2. /\ Head(jobs) \in calling /\ reply[Head(jobs)] = None
        /\ \A v \in Workers : job[v] # Head(jobs)
        /\ \A i \in 1 .. Len(jobs') : /\ i + 1 \in 1 .. Len(jobs)
                                      /\ jobs'[i] = jobs[i + 1]
                                      /\ jobs'[i] # Head(jobs)
        /\ \A i, j \in 1 .. Len(jobs') : jobs'[i] = jobs'[j] => i = j
    BY <1>o, <1>q, <2>1, PopDistinct DEF QueueOwn, Apart
  <2>3. QueueOwn'
    BY <1>o, <2>1, <2>2 DEF QueueOwn
  <2>4. WorkerOwn' /\ Apart'
    BY <1>o, <2>1, <2>2 DEF WorkerOwn, Apart
  <2>5. QED
    BY <1>o, <2>1, <2>3, <2>4
<1>4. ASSUME NEW w \in Workers,
             \/ Acquire(w) \/ Retry(w) \/ Mark(w) \/ Run(w) \/ Free(w)
      PROVE  Own'
  BY <1>4, <1>o DEF Acquire, Retry, Mark, Run, Free, callVars, QueueOwn, WorkerOwn, Apart
<1>5. ASSUME NEW w \in Workers, GiveUp(w) \/ Send(w) PROVE Own'
  <2>1. /\ jobs' = jobs /\ calling' = calling
        /\ job' = [job EXCEPT ![w] = None]
        /\ job \in [Workers -> Callers \cup {None}]
    BY <1>5, <1>t DEF GiveUp, Send, Finish, callVars, TInv, TypeOK
  <2>2. /\ \A v \in Workers : job'[v] # None => v # w /\ job'[v] = job[v]
        /\ \A v \in Workers, i \in 1 .. Len(jobs) : jobs[i] # job'[v]
    BY <1>n, <1>o, <1>q, <2>1 DEF Apart
  <2>3. job[w] \in calling /\ \A c \in Callers : c # job[w] => reply'[c] = reply[c]
    BY <1>5, <1>n, <1>o, <1>t
       DEF GiveUp, Send, callVars, TInv, TypeOK, Locals, WorkerOwn
  <2>4. /\ \A i \in 1 .. Len(jobs) : reply'[jobs[i]] = reply[jobs[i]]
        /\ \A v \in Workers : job'[v] # None => reply'[job'[v]] = reply[job[v]]
    BY <1>n, <1>o, <1>q, <2>1, <2>2, <2>3 DEF WorkerOwn, Apart
  <2>5. QED
    BY <1>o, <2>1, <2>2, <2>3, <2>4 DEF QueueOwn, WorkerOwn, Apart
<1>6. CASE UNCHANGED vars
  BY <1>6, <1>o DEF vars, QueueOwn, WorkerOwn, Apart
<1>7. QED
  BY <1>1, <1>2, <1>3, <1>4, <1>5, <1>6 DEF Next, WorkerStep

LEMMA OwnInvAlways == Spec => []OwnInv
  BY OwnInvInit, OwnInvStep, PTL DEF Spec

\* A call of ExecuteJob is queued once, or with one worker, or answered, and
\* nowhere after it has returned: no job runs twice, and no answer is taken for
\* that of a later call.
THEOREM SingleOwner == Spec => []OneOwner
<1>1. OwnInv => OneOwner
  BY NoneIsNoOutcome DEF OwnInv, Own, QueueOwn, WorkerOwn, Apart, OneOwner, Queued,
                         Carriers, Answered
<1>2. QED
  BY <1>1, OwnInvAlways, PTL

\* A worker never blocks on the send of its Result.
THEOREM ReplyHasRoom == Spec => []SendNeverBlocks
<1>1. OwnInv => SendNeverBlocks
  BY NoneIsNoOutcome DEF OwnInv, Own, WorkerOwn, SendNeverBlocks, TInv, Locals
<1>2. QED
  BY <1>1, OwnInvAlways, PTL

-------------------------------------------------------------------------------
(* Starvation has a cause.  A scan that comes up empty leaves every container  *)
(* busy, leaked or in error; the scanning worker holds none, so with a         *)
(* container per worker the others cannot hold them all.  The cause, once      *)
(* there, never goes away: nothing returns such a container to idle.           *)
Cause == \E k \in Containers : k \in Leaked \/ state[k] = "error"

LEMMA EmptyScanHasCause ==
    ASSUME XInv, NEW w \in Workers, pc[w] = "acquire", Idle = {},
           Cardinality(Workers) <= Cardinality(Containers)
    PROVE  Cause
<1> SUFFICES ASSUME ~Cause PROVE FALSE
  OBVIOUS
<1>1. ASSUME NEW k \in Containers PROVE \E v \in Workers \ {w} : Holds(v, k)
  <2>1. state[k] = "busy"
    BY DEF Cause, Idle, XInv, TInv, TypeOK
  <2>2. k \in Held
    BY <2>1 DEF Cause, Leaked
  <2>3. ~Holds(w, k)
    BY DEF Holds
  <2>4. QED
    BY <2>2, <2>3 DEF Held
<1> DEFINE holder == [k \in Containers |-> CHOOSE v \in Workers \ {w} : Holds(v, k)]
<1>2. \A k \in Containers : holder[k] \in Workers \ {w} /\ Holds(holder[k], k)
  BY <1>1
<1>3. holder \in Injection(Containers, Workers \ {w})
  BY <1>2 DEF Holds, Injection, IsInjective
<1>4. /\ IsFiniteSet(Workers \ {w})
      /\ Cardinality(Workers \ {w}) = Cardinality(Workers) - 1
      /\ Cardinality(Workers) \in Nat
  BY ExecutorAssumption, FS_RemoveElement, FS_CardinalityType DEF ExecutorAssumption
<1>5. Cardinality(Containers) <= Cardinality(Workers \ {w})
  BY <1>3, <1>4, FS_Injection
<1>6. Cardinality(Containers) \in Nat
  BY ExecutorAssumption, FS_CardinalityType DEF ExecutorAssumption
<1>7. QED
  BY <1>4, <1>5, <1>6

\* the containers that no worker holds and no scan will find
Lost == {k \in Containers : k \in Leaked \/ state[k] = "error"}

LEMMA LostStays ==
    ASSUME XInv, [Next]_vars, NEW k \in Lost
    PROVE  k \in Lost'
<1>1. k \in Leaked \/ state[k] = "error"
  BY DEF Lost
<1>k. k \in Containers
  BY DEF Lost
<1>2. state[k] # "idle" /\ \A v \in Workers : ~Holds(v, k)
  BY <1>1 DEF Leaked, Lost, XInv, HeldIsBusy, Held
<1>t. state \in [Containers -> {"idle", "busy", "error"}] /\ Locals
      /\ pc \in [Workers -> {"select", "acquire", "mark", "run", "free", "send"}]
      /\ cid \in [Workers -> Containers \cup {None}]
  BY DEF XInv, TInv, TypeOK
<1>3. state'[k] = state[k] /\ \A v \in Workers : ~Holds(v, k)'
  <2>1. ASSUME NEW c \in Callers, ExecuteJob(c) \/ Receive(c)
        PROVE  state'[k] = state[k] /\ \A v \in Workers : ~Holds(v, k)'
    BY <2>1, <1>2 DEF ExecuteJob, Receive, workerVars, Holds
  <2>2. ASSUME NEW w \in Workers, Pick(w) \/ Retry(w) \/ GiveUp(w) \/ Send(w) \/ Run(w)
        PROVE  state'[k] = state[k] /\ \A v \in Workers : ~Holds(v, k)'
    BY <2>2, <1>2, <1>t DEF Pick, Retry, GiveUp, Send, Run, Finish, Holds
  <2>3. ASSUME NEW w \in Workers, Acquire(w) \/ Mark(w) \/ Free(w)
        PROVE  state'[k] = state[k] /\ \A v \in Workers : ~Holds(v, k)'
    <3>1. CASE Acquire(w)
      BY <3>1, <1>2, <1>t, <1>k DEF Acquire, Idle, Holds
    <3>2. CASE Mark(w) \/ Free(w)
      BY <3>2, <1>2, <1>t, <1>k DEF Mark, Free, Holds, Locals
    <3>3. QED
      BY <2>3, <3>1, <3>2
  <2>4. CASE UNCHANGED vars
    BY <2>4, <1>2 DEF vars, Holds
  <2>5. QED
    BY <2>1, <2>2, <2>3, <2>4 DEF Next, WorkerStep
<1>4. QED
  BY <1>1, <1>3 DEF Lost, Leaked, Held

LEMMA CausePersists ==
    ASSUME XInv, [Next]_vars, Cause
    PROVE  Cause'
<1>1. PICK k \in Containers : k \in Lost
  BY DEF Cause, Lost
<1>2. k \in Lost'
  BY <1>1, LostStays
<1>3. QED
  BY <1>2 DEF Cause, Lost

\* Only a worker that gives up abandons a call.
LEMMA OnlyGiveUpAbandons ==
    ASSUME TInv, [Next]_vars, \A w \in Workers : ~GiveUp(w), NEW c \in Callers, c \in Abandoned'
    PROVE  c \in Abandoned
<1> DEFINE Gone == /\ c \in calling /\ reply[c] = None
                   /\ \A i \in 1 .. Len(jobs) : jobs[i] # c
                   /\ \A w \in Workers : job[w] # c
<1> SUFFICES ASSUME Gone' PROVE Gone
  BY DEF Abandoned, Queued, Carriers, Answered
<1>q. jobs \in Seq(Callers)
  BY DEF TInv, TypeOK
<1>1. ASSUME NEW d \in Callers, ExecuteJob(d) PROVE Gone
  <2>1. CASE jobs' = jobs /\ calling' = calling
    BY <1>1, <2>1 DEF ExecuteJob, workerVars
  <2>2. CASE jobs' = Append(jobs, d) /\ calling' = calling \cup {d}
    <3>1. /\ \A i \in 1 .. Len(jobs) : i \in 1 .. Len(jobs') /\ jobs'[i] = jobs[i]
          /\ Len(jobs) + 1 \in 1 .. Len(jobs') /\ jobs'[Len(jobs) + 1] = d
      BY <1>q, <2>2, AppendProperties, LenProperties
    <3>2. QED
      BY <1>1, <2>2, <3>1 DEF ExecuteJob, workerVars
  <2>3. QED
    BY <1>1, <2>1, <2>2 DEF ExecuteJob
<1>2. ASSUME NEW d \in Callers, Receive(d) PROVE Gone
  BY <1>2 DEF Receive, workerVars, TInv, TypeOK
<1>3. ASSUME NEW w \in Workers, Pick(w) PROVE Gone
  <2>1. /\ jobs # <<>> /\ jobs' = Tail(jobs) /\ calling' = calling /\ reply' = reply
        /\ job' = [job EXCEPT ![w] = Head(jobs)] /\ job[w] = None
        /\ job \in [Workers -> Callers \cup {None}]
    BY <1>3 DEF Pick, callVars, TInv, TypeOK, Locals
  <2>2. /\ Len(jobs) \in Nat \ {0} /\ Head(jobs) = jobs[1]
        /\ Len(jobs') = Len(jobs) - 1
        /\ \A i \in 1 .. Len(jobs) - 1 : jobs'[i] = jobs[i + 1]
    BY <1>q, <2>1, HeadTailProperties, LenProperties, EmptySeq
  <2>3. \A v \in Workers : job[v] # c
    BY <2>1, NoneIsNoOutcome
  <2>4. ASSUME NEW i \in 1 .. Len(jobs) PROVE jobs[i] # c
    <3>1. CASE i = 1
      BY <2>1, <2>2, <3>1
    <3>2. CASE i # 1
      <4>1. i - 1 \in 1 .. Len(jobs') /\ jobs'[i - 1] = jobs[i]
        BY <2>2, <3>2
      <4>2. QED
        BY <4>1
    <3>3. QED
      BY <3>1, <3>2
  <2>5. QED
    BY <2>1, <2>3, <2>4
<1>4. ASSUME NEW w \in Workers,
             \/ Acquire(w) \/ Retry(w) \/ Mark(w) \/ Run(w) \/ Free(w)
      PROVE  Gone
  BY <1>4 DEF Acquire, Retry, Mark, Run, Free, callVars
<1>5. ASSUME NEW w \in Workers, Send(w) PROVE Gone
  BY <1>5, NoneIsNoOutcome DEF Send, Finish, TInv, TypeOK, Locals
<1>6. CASE UNCHANGED vars
  BY <1>6 DEF vars
<1>7. QED
  BY <1>1, <1>2, <1>3, <1>4, <1>5, <1>6 DEF Next, WorkerStep

CauseInv == XInv /\ StarvationHasCause

LEMMA CauseInvInit == Init => CauseInv
  BY XInvInit DEF Init, CauseInv, StarvationHasCause, Abandoned

LEMMA CauseInvStep == CauseInv /\ [Next]_vars => CauseInv'
<1> SUFFICES ASSUME CauseInv, [Next]_vars,
                    Cardinality(Workers) <= Cardinality(Containers),
                    (Abandoned # {} \/ \E w \in Workers : tries[w] > 0)'
             PROVE  Cause'
  BY XInvStep DEF CauseInv, StarvationHasCause, Cause
<1>1. XInv /\ TInv
  BY DEF CauseInv, XInv
<1>2. CASE \E w \in Workers : Retry(w) \/ GiveUp(w)
  BY <1>1, <1>2, EmptyScanHasCause, CausePersists DEF Retry, GiveUp
<1>3. CASE \A w \in Workers : ~Retry(w) /\ ~GiveUp(w)
  <2>1. ASSUME Abandoned' # {} PROVE Abandoned # {}
    <3>1. PICK c \in Callers : c \in Abandoned'
      BY <1>1, <2>1, TInvStep DEF Abandoned, TInv, TypeOK
    <3>2. QED
      BY <1>1, <1>3, <3>1, OnlyGiveUpAbandons
  <2>2. ASSUME NEW v \in Workers, tries'[v] > 0 PROVE tries[v] > 0
    <3>1. tries \in [Workers -> 0 .. MaxRetries - 1]
      BY <1>1 DEF TInv, TypeOK
    <3>2. ASSUME NEW w \in Workers, Send(w) PROVE tries[v] > 0
      BY <2>2, <3>1, <3>2 DEF Send, Finish
    <3>3. CASE UNCHANGED tries
      BY <2>2, <3>3
    <3>4. UNCHANGED tries \/ \E w \in Workers : Send(w)
      BY <1>3 DEF Next, WorkerStep, ExecuteJob, Receive, Pick, Acquire, Mark, Run, Free,
                  workerVars, vars
    <3>5. QED
      BY <3>2, <3>3, <3>4
  <2>3. Abandoned # {} \/ \E w \in Workers : tries[w] > 0
    BY <2>1, <2>2
  <2>4. Cause
    BY <2>3 DEF CauseInv, StarvationHasCause, Cause
  <2>5. QED
    BY <1>1, <2>4, CausePersists
<1>4. QED
  BY <1>2, <1>3

\* With at least as many containers as workers, a scan comes up empty or a call
\* is abandoned only if some container was unusable at start or was left busy by
\* a failed run: load alone never starves a job.
THEOREM Starvation == Spec => []StarvationHasCause
<1>1. Spec => []CauseInv
  BY CauseInvInit, CauseInvStep, PTL DEF Spec
<1>2. CauseInv => StarvationHasCause
  BY DEF CauseInv
<1>3. QED
  BY <1>1, <1>2, PTL

-------------------------------------------------------------------------------
(* Rejection.  By Own the jobs in the queue are of distinct callers, none of   *)
(* which can be the one that calls ExecuteJob now.                             *)

LEMMA QueueIsOfOthers ==
    ASSUME OwnInv, NEW c \in Callers, c \notin calling
    PROVE  Cardinality({d \in Callers \ {c} : Queued(d) # {}}) = Len(jobs)
<1> DEFINE waiting == {d \in Callers \ {c} : Queued(d) # {}}
           entry == [i \in 1 .. Len(jobs) |-> jobs[i]]
<1>1. /\ \A i \in 1 .. Len(jobs) : jobs[i] \in Callers /\ jobs[i] # c
      /\ \A i, j \in 1 .. Len(jobs) : jobs[i] = jobs[j] => i = j
      /\ Len(jobs) \in Nat
  BY ElementOfSeq, LenProperties DEF OwnInv, Own, QueueOwn, TInv, TypeOK
<1>2. \A d \in waiting : \E i \in 1 .. Len(jobs) : jobs[i] = d
  BY DEF Queued
<1>3. \A i \in 1 .. Len(jobs) : jobs[i] \in waiting
  BY <1>1 DEF Queued
<1> HIDE DEF waiting
<1>4. entry \in Bijection(1 .. Len(jobs), waiting)
  BY <1>1, <1>2, <1>3 DEF Bijection, Injection, Surjection, IsInjective
<1>5. IsFiniteSet(1 .. Len(jobs)) /\ Cardinality(1 .. Len(jobs)) = Len(jobs)
  <2>1. 1 \in Int /\ Len(jobs) \in Int
    BY <1>1
  <2>2. /\ IsFiniteSet(1 .. Len(jobs))
        /\ Cardinality(1 .. Len(jobs)) = IF 1 > Len(jobs) THEN 0 ELSE Len(jobs) - 1 + 1
    BY <2>1, FS_Interval, Zenon
  <2>3. QED
    BY <1>1, <2>2
<1>6. Cardinality(waiting) = Len(jobs)
  BY <1>4, <1>5, FS_Bijection DEF ExistsBijection
<1>7. QED
  BY <1>6 DEF waiting

\* A call is rejected only while as many jobs of other callers wait as the queue holds,
\* for every number of callers and every capacity.
THEOREM Rejection == Spec => RejectedByOthers
<1> DEFINE OnlyOthers(c) == returned'[c] = "rejected" /\ returned[c] # "rejected" =>
                Cardinality({d \in Callers \ {c} : Queued(d) # {}}) >= MaxJobCount
<1>1. ASSUME OwnInv, [Next]_vars, NEW c \in Callers PROVE OnlyOthers(c)
  <2> SUFFICES ASSUME returned'[c] = "rejected", returned[c] # "rejected"
               PROVE  Cardinality({d \in Callers \ {c} : Queued(d) # {}}) >= MaxJobCount
    OBVIOUS
  <2>t. /\ returned \in [Callers -> Results \cup {None}]
        /\ reply \in [Callers -> RunOutcomes \cup {None}]
    BY <1>1 DEF OwnInv, TInv, TypeOK
  <2>1. PICK d \in Callers : ExecuteJob(d) \/ Receive(d)
    BY <1>1, <2>t DEF Next, WorkerStep, Pick, Acquire, Retry, GiveUp, Mark, Run, Free, Send,
                      callVars, vars
  <2>2. d = c
    BY <2>1, <2>t DEF ExecuteJob, Receive
  <2>3. ~Receive(c)
    BY <2>t, ExecutorAssumption DEF Receive, ExecutorAssumption
  <2>4. c \notin calling /\ Len(jobs) >= MaxJobCount
    BY <2>1, <2>2, <2>3 DEF ExecuteJob
  <2>5. QED
    BY <1>1, <2>4, QueueIsOfOthers
<1>2. OwnInv /\ [Next]_vars => [\A c \in Callers : OnlyOthers(c)]_vars
  BY <1>1
<1>3. QED
  BY <1>2, OwnInvAlways, PTL DEF Spec, RejectedByOthers

-------------------------------------------------------------------------------
(* What is lost.  The run executor_lost shows a call that never returns; these *)
(* say what a failed run takes from the pool, and that nothing gives it back.  *)

\* One failed run, one container: what a step loses, and which steps lose.
Accounts ==
    /\ Lost \subseteq Lost'
    /\ \A w \in Workers : Run(w) /\ outcome'[w] = "fail" => cid[w] \in Lost' \ Lost
    /\ \A k \in Lost' \ Lost : \E w \in Workers : Run(w) /\ outcome'[w] = "fail" /\ cid[w] = k

\* The release of a container after a run is its only way back: Run(w) that ends well.
LEMMA HeldOrLost ==
    ASSUME XInv, XInv', [Next]_vars, NEW k \in Lost', k \notin Lost
    PROVE  \E w \in Workers : Run(w) /\ outcome'[w] = "fail" /\ cid[w] = k
<1>t. state \in [Containers -> {"idle", "busy", "error"}] /\ Locals
      /\ pc \in [Workers -> {"select", "acquire", "mark", "run", "free", "send"}]
      /\ cid \in [Workers -> Containers \cup {None}]
      /\ outcome \in [Workers -> RunOutcomes \cup {None}]
  BY DEF XInv, TInv, TypeOK
<1>k. /\ k \in Containers /\ state'[k] # "idle" /\ \A v \in Workers : ~Holds(v, k)'
      /\ state[k] = "idle" \/ \E v \in Workers : Holds(v, k)
  <2>1. k \in Containers /\ (k \in Leaked' \/ state'[k] = "error") /\ ~(k \in Leaked \/ state[k] = "error")
    BY DEF Lost
  <2>2. state'[k] # "idle" /\ k \notin Held'
    BY <2>1 DEF Leaked, XInv, HeldIsBusy, Held
  <2>3. state[k] = "idle" \/ k \in Held
    BY <1>t, <2>1 DEF Leaked
  <2>4. QED
    BY <2>1, <2>2, <2>3 DEF Held
<1>1. CASE \E c \in Callers : ExecuteJob(c) \/ Receive(c)
  BY <1>1, <1>k DEF ExecuteJob, Receive, workerVars, Holds
<1>2. CASE UNCHANGED vars
  BY <1>2, <1>k DEF vars, Holds
<1>3. ASSUME NEW w \in Workers, Pick(w) \/ Retry(w) \/ GiveUp(w) \/ Send(w) PROVE FALSE
  <2>1. state' = state /\ \A v \in Workers : v # w => pc'[v] = pc[v] /\ cid'[v] = cid[v]
    BY <1>3, <1>t DEF Pick, Retry, GiveUp, Send, Finish
  <2>2. pc[w] \in {"select", "acquire", "send"}
    BY <1>3 DEF Pick, Retry, GiveUp, Send
  <2>3. \A v \in Workers : Holds(v, k) => v # w
    BY <2>2 DEF Holds
  <2>4. QED
    BY <1>k, <2>1, <2>3 DEF Holds
<1>4. ASSUME NEW w \in Workers, Acquire(w) \/ Mark(w) \/ Free(w) PROVE FALSE
  <2>1. CASE Acquire(w)
    <3>1. PICK j \in Idle : state' = [state EXCEPT ![j] = "busy"] /\ cid' = [cid EXCEPT ![w] = j]
      BY <2>1 DEF Acquire
    <3>2. Holds(w, j)' /\ \A v \in Workers : Holds(v, k) => v # w /\ Holds(v, k)'
      BY <1>t, <2>1, <3>1 DEF Acquire, Holds
    <3>3. k # j => state'[k] = state[k]
      BY <1>t, <3>1
    <3>4. QED
      BY <1>k, <3>2, <3>3
  <2>2. CASE Mark(w) \/ Free(w)
    <3>1. CASE Holds(w, k)
      BY <1>k, <1>t, <2>2, <3>1 DEF Mark, Free, Holds
    <3>2. CASE ~Holds(w, k)
      <4>1. state'[k] = state[k]
        BY <1>k, <1>t, <2>2, <3>2 DEF Mark, Free, Holds, Locals
      <4>2. \A v \in Workers : Holds(v, k) => Holds(v, k)'
        BY <1>t, <2>2, <3>2 DEF Mark, Free, Holds
      <4>3. QED
        BY <1>k, <4>1, <4>2
    <3>3. QED
      BY <3>1, <3>2
  <2>3. QED
    BY <1>4, <2>1, <2>2
<1>5. ASSUME NEW w \in Workers, Run(w) PROVE outcome'[w] = "fail" /\ cid[w] = k
  <2>1. PICK o \in RunOutcomes : /\ outcome' = [outcome EXCEPT ![w] = o]
                                 /\ pc' = [pc EXCEPT ![w] = IF o = "ok" THEN "free" ELSE "send"]
    BY <1>5 DEF Run
  <2>2. pc[w] = "run" /\ state' = state /\ cid' = cid /\ o \in {"ok", "fail"}
    BY <1>5, ExecutorAssumption DEF Run, ExecutorAssumption
  <2>3. PICK v \in Workers : Holds(v, k) /\ ~Holds(v, k)'
    BY <1>k, <2>2
  <2>4. v = w
    BY <1>t, <2>1, <2>2, <2>3 DEF Holds
  <2>5. QED
    BY <1>t, <2>1, <2>2, <2>3, <2>4 DEF Holds
<1>6. QED
  BY <1>1, <1>2, <1>3, <1>4, <1>5 DEF Next, WorkerStep

LEMMA FailedRunLoses ==
    ASSUME XInv, NEW w \in Workers, Run(w), outcome'[w] = "fail"
    PROVE  cid[w] \in Lost' /\ cid[w] \notin Lost
<1>1. /\ pc[w] = "run" /\ cid[w] \in Containers /\ Holds(w, cid[w]) /\ state[cid[w]] = "busy"
      /\ \A v \in Workers : Holds(v, cid[w]) => v = w
  BY DEF Run, XInv, TInv, Locals, Holds, HeldIsBusy, Held, ExclusiveContainer
<1>2. cid[w] \notin Lost
  BY <1>1 DEF Lost, Leaked, Held
<1>3. /\ state' = state /\ cid' = cid /\ pc'[w] = "send"
      /\ \A v \in Workers : v # w => pc'[v] = pc[v]
  BY DEF Run, XInv, TInv, TypeOK
<1>4. \A v \in Workers : ~Holds(v, cid[w])'
  BY <1>1, <1>3 DEF Holds
<1>5. QED
  BY <1>1, <1>2, <1>3, <1>4 DEF Lost, Leaked, Held

\* A container is lost with every run that fails (worker_pool.go:140-146), by nothing
\* else while the server runs, and for good: the pool only shrinks.
THEOREM PoolShrinks == Spec => [][Accounts]_vars
<1>1. ASSUME XInv, XInv', [Next]_vars PROVE Accounts
  <2>1. Lost \subseteq Lost'
    BY <1>1, LostStays
  <2>2. QED
    BY <1>1, <2>1, HeldOrLost, FailedRunLoses DEF Accounts
<1>2. QED
  BY <1>1, XInvAlways, PTL DEF Spec

AllLost == Lost = Containers
NothingRuns == AllLost => \A w \in Workers : pc[w] \in {"select", "acquire", "send"}

\* When every container is lost no code runs, and none ever runs again.
THEOREM DeadPool == Spec => [](NothingRuns) /\ [][AllLost => AllLost']_vars
<1>1. XInv => NothingRuns
  <2> SUFFICES ASSUME XInv, AllLost, NEW w \in Workers PROVE pc[w] \in {"select", "acquire", "send"}
    BY DEF NothingRuns
  <2>1. \A k \in Containers : ~Holds(w, k)
    BY DEF AllLost, Lost, Leaked, XInv, HeldIsBusy, Held
  <2>2. QED
    BY <2>1 DEF XInv, TInv, TypeOK, Locals, Holds
<1>2. XInv /\ [Next]_vars => (AllLost => AllLost')
  <2> SUFFICES ASSUME XInv, [Next]_vars, AllLost PROVE Lost' = Containers
    BY DEF AllLost
  <2>1. Lost' \subseteq Containers
    BY DEF Lost
  <2>2. QED
    BY <2>1, LostStays DEF AllLost
<1>3. QED
  BY <1>1, <1>2, XInvAlways, PTL DEF Spec

\* A call that was abandoned never returns: the Result channel is out of everyone's
\* hands, and its caller, the loop of a room, waits for ever (worker_pool.go:110).
THEOREM AbandonedForGood == Spec => [][Abandoned \subseteq Abandoned']_vars
<1>1. ASSUME TInv, [Next]_vars, NEW c \in Abandoned PROVE c \in Abandoned'
  <2> DEFINE Gone == /\ c \in calling /\ reply[c] = None
                     /\ \A i \in 1 .. Len(jobs) : jobs[i] # c
                     /\ \A w \in Workers : job[w] # c
  <2>g. Gone /\ c \in Callers /\ jobs \in Seq(Callers)
    BY <1>1 DEF Abandoned, Queued, Carriers, Answered, TInv, TypeOK
  <2> SUFFICES Gone'
    BY DEF Abandoned, Queued, Carriers, Answered
  <2>1. ASSUME NEW d \in Callers, ExecuteJob(d) PROVE Gone'
    <3>1. d # c
      BY <2>1, <2>g DEF ExecuteJob
    <3>2. CASE jobs' = jobs /\ calling' = calling
      BY <2>1, <2>g, <3>2 DEF ExecuteJob, workerVars
    <3>3. CASE jobs' = Append(jobs, d) /\ calling' = calling \cup {d}
      <4>1. \A i \in 1 .. Len(jobs') : jobs'[i] = d \/ (i \in 1 .. Len(jobs) /\ jobs'[i] = jobs[i])
        BY <2>g, <3>3, AppendProperties, LenProperties
      <4>2. QED
        BY <2>1, <2>g, <3>1, <3>3, <4>1 DEF ExecuteJob, workerVars
    <3>4. QED
      BY <2>1, <3>2, <3>3 DEF ExecuteJob
  <2>2. ASSUME NEW d \in Callers, Receive(d) PROVE Gone'
    <3>1. d # c
      BY <2>2, <2>g DEF Receive
    <3>2. QED
      BY <1>1, <2>2, <2>g, <3>1 DEF Receive, workerVars, TInv, TypeOK
  <2>3. ASSUME NEW w \in Workers, Pick(w) PROVE Gone'
    <3>1. /\ jobs # <<>> /\ jobs' = Tail(jobs) /\ calling' = calling /\ reply' = reply
          /\ job' = [job EXCEPT ![w] = Head(jobs)]
      BY <2>3 DEF Pick, callVars
    <3>2. /\ Len(jobs) \in Nat \ {0} /\ Head(jobs) = jobs[1] /\ Len(jobs') = Len(jobs) - 1
          /\ \A i \in 1 .. Len(jobs) - 1 : jobs'[i] = jobs[i + 1]
      BY <2>g, <3>1, HeadTailProperties, LenProperties, EmptySeq
    <3>3. Head(jobs) # c
      BY <2>g, <3>2
    <3>4. \A i \in 1 .. Len(jobs') : jobs'[i] # c
      BY <2>g, <3>2
    <3>5. QED
      BY <1>1, <2>g, <3>1, <3>3, <3>4 DEF TInv, TypeOK
  <2>4. ASSUME NEW w \in Workers, \/ Acquire(w) \/ Retry(w) \/ Mark(w) \/ Run(w) \/ Free(w) PROVE Gone'
    BY <2>4, <2>g DEF Acquire, Retry, Mark, Run, Free, callVars
  <2>5. ASSUME NEW w \in Workers, GiveUp(w) \/ Send(w) PROVE Gone'
    <3>1. job[w] # c /\ c # None
      BY <2>g, NoneIsNoOutcome
    <3>2. QED
      BY <1>1, <2>5, <2>g, <3>1 DEF GiveUp, Send, Finish, callVars, TInv, TypeOK
  <2>6. CASE UNCHANGED vars
    BY <2>6, <2>g DEF vars
  <2>7. QED
    BY <1>1, <2>1, <2>2, <2>3, <2>4, <2>5, <2>6 DEF Next, WorkerStep
<1>2. TInv /\ [Next]_vars => Abandoned \subseteq Abandoned'
  BY <1>1
<1>3. QED
  BY <1>2, TInvAlways, PTL DEF Spec

================================================================================
