------------------------------- MODULE Executor -------------------------------
(***************************************************************************)
(* The code runner of internal/executor: the worker goroutines of          *)
(* worker_pool.go, their job queue, and the part of container_manager.go   *)
(* they use while the server runs (which containers are idle, busy or      *)
(* unusable).  The pool of containers itself is fixed here: nothing adds   *)
(* or removes one after InitializePool (module ContainerPool).             *)
(*                                                                         *)
(* A caller is a goroutine that calls ExecuteJob, in this program the loop *)
(* of one room manager: it has one call outstanding at most, and its       *)
(* Result channel is made anew for each call.  A step is one operation on  *)
(* shared state: a channel send or receive, a scan of the containers under *)
(* the mutex, an unlocked write of a container's state.  The unlocked      *)
(* writes of SetContainerState race with the locked scans; StateIdle and   *)
(* StateBusy have the same length, so a scan reads one or the other, which *)
(* is what a step of its own for each write gives.                         *)
(***************************************************************************)
EXTENDS Naturals, Sequences, FiniteSets

CONSTANTS Callers,      \* goroutines that call ExecuteJob
          Workers,      \* MaxWorkers goroutines run WorkerPool.worker
          Containers,   \* what InitializePool registered
          MaxJobCount,  \* capacity of the jobs channel
          MaxRetries,   \* container scans before GetAvailableContainer gives up
          RunOutcomes,  \* how a docker exec can end: a subset of {"ok", "fail"}
          InitStates,   \* container states at start: a subset of {"idle", "error"}
          None          \* "no job", "no container", "no result"

ASSUME ExecutorAssumption ==
    /\ IsFiniteSet(Workers) /\ IsFiniteSet(Containers)
    /\ MaxJobCount \in Nat \ {0}
    /\ MaxRetries \in Nat \ {0}
    /\ RunOutcomes \subseteq {"ok", "fail"}
    /\ InitStates \subseteq {"idle", "error"}
    /\ None \notin Callers /\ None \notin Containers
    /\ None \notin {"ok", "fail", "rejected"}

VARIABLES jobs,       \* the jobs channel; a job is named by the caller it answers
          calling,    \* the callers inside ExecuteJob
          reply,      \* the buffered value of each caller's Result channel
          returned,   \* what each caller's latest call returned
          pc,         \* where each worker is
          job,        \* the job a worker has picked
          cid,        \* the container a worker was given
          tries,      \* failed scans of GetAvailableContainer
          outcome,    \* how the worker's docker exec ended
          state       \* ContainerInfo.State

callVars == <<calling, reply, returned>>
workerVars == <<pc, job, cid, tries, outcome>>
vars == <<jobs, calling, reply, returned, pc, job, cid, tries, outcome, state>>

Results == {"ok", "fail", "rejected"}

TypeOK == /\ jobs \in Seq(Callers)
          /\ calling \in SUBSET Callers
          /\ reply \in [Callers -> RunOutcomes \cup {None}]
          /\ returned \in [Callers -> Results \cup {None}]
          /\ pc \in [Workers -> {"select", "acquire", "mark", "run", "free", "send"}]
          /\ job \in [Workers -> Callers \cup {None}]
          /\ cid \in [Workers -> Containers \cup {None}]
          /\ tries \in [Workers -> 0 .. MaxRetries - 1]
          /\ outcome \in [Workers -> RunOutcomes \cup {None}]
          /\ state \in [Containers -> {"idle", "busy", "error"}]

Init == /\ jobs = <<>>
        /\ calling = {}
        /\ reply = [c \in Callers |-> None]
        /\ returned = [c \in Callers |-> None]
        /\ pc = [w \in Workers |-> "select"]
        /\ job = [w \in Workers |-> None]
        /\ cid = [w \in Workers |-> None]
        /\ tries = [w \in Workers |-> 0]
        /\ outcome = [w \in Workers |-> None]
        /\ state \in [Containers -> InitStates]

-------------------------------------------------------------------------------
(* ExecuteJob: the select with a default case, then the wait for the answer. *)

ExecuteJob(c) ==
    /\ c \notin calling
    /\ \/ /\ Len(jobs) < MaxJobCount
          /\ jobs' = Append(jobs, c)
          /\ calling' = calling \cup {c}
          /\ UNCHANGED returned
       \/ /\ Len(jobs) >= MaxJobCount
          /\ returned' = [returned EXCEPT ![c] = "rejected"]
          /\ UNCHANGED <<jobs, calling>>
    /\ UNCHANGED <<reply, workerVars, state>>

Receive(c) ==
    /\ c \in calling
    /\ reply[c] # None
    /\ returned' = [returned EXCEPT ![c] = reply[c]]
    /\ reply' = [reply EXCEPT ![c] = None]
    /\ calling' = calling \ {c}
    /\ UNCHANGED <<jobs, workerVars, state>>

-------------------------------------------------------------------------------
(* worker and executeJob. *)

\* back to the select of worker(), the locals of executeJob gone
Finish(w) ==
    /\ pc' = [pc EXCEPT ![w] = "select"]
    /\ job' = [job EXCEPT ![w] = None]
    /\ cid' = [cid EXCEPT ![w] = None]
    /\ tries' = [tries EXCEPT ![w] = 0]
    /\ outcome' = [outcome EXCEPT ![w] = None]

\* seeded bug: the job stays in the queue, as if a slice were read and not cut
PickWithoutPop(w) ==
    /\ pc[w] = "select"
    /\ jobs # <<>>
    /\ job' = [job EXCEPT ![w] = Head(jobs)]
    /\ pc' = [pc EXCEPT ![w] = "acquire"]
    /\ UNCHANGED <<jobs, callVars, cid, tries, outcome, state>>

Pick(w) ==
    /\ pc[w] = "select"
    /\ jobs # <<>>
    /\ job' = [job EXCEPT ![w] = Head(jobs)]
    /\ jobs' = Tail(jobs)
    /\ pc' = [pc EXCEPT ![w] = "acquire"]
    /\ UNCHANGED <<callVars, cid, tries, outcome, state>>

Idle == {k \in Containers : state[k] = "idle"}

\* seeded bug: the scan leaves it to SetContainerState to mark the container
AcquireUnmarked(w) ==
    /\ pc[w] = "acquire"
    /\ \E k \in Idle : cid' = [cid EXCEPT ![w] = k]
    /\ pc' = [pc EXCEPT ![w] = "mark"]
    /\ UNCHANGED <<jobs, callVars, job, tries, outcome, state>>

\* one scan of GetAvailableContainer that finds a container, under d.mu
Acquire(w) ==
    /\ pc[w] = "acquire"
    /\ \E k \in Idle :
          /\ state' = [state EXCEPT ![k] = "busy"]
          /\ cid' = [cid EXCEPT ![w] = k]
    /\ pc' = [pc EXCEPT ![w] = "mark"]
    /\ UNCHANGED <<jobs, callVars, job, tries, outcome>>

\* seeded bugs: one retry too many; a scan that looks at one container only; a
\* retry that is not counted
RetryOnceMore(w) ==
    /\ pc[w] = "acquire"
    /\ Idle = {}
    /\ tries[w] + 1 <= MaxRetries
    /\ tries' = [tries EXCEPT ![w] = @ + 1]
    /\ UNCHANGED <<jobs, callVars, pc, job, cid, outcome, state>>

RetryAfterFirst(w) ==
    /\ pc[w] = "acquire"
    /\ \E k \in Containers : state[k] # "idle"
    /\ tries[w] + 1 < MaxRetries
    /\ tries' = [tries EXCEPT ![w] = @ + 1]
    /\ UNCHANGED <<jobs, callVars, pc, job, cid, outcome, state>>

RetryUncounted(w) ==
    /\ pc[w] = "acquire"
    /\ Idle = {}
    /\ UNCHANGED vars

\* one scan that finds none, and the sleep before the next
Retry(w) ==
    /\ pc[w] = "acquire"
    /\ Idle = {}
    /\ tries[w] + 1 < MaxRetries
    /\ tries' = [tries EXCEPT ![w] = @ + 1]
    /\ UNCHANGED <<jobs, callVars, pc, job, cid, outcome, state>>

\* seeded bug: the first container seen busy ends the search
GiveUpAtFirst(w) ==
    /\ pc[w] = "acquire"
    /\ \E k \in Containers : state[k] # "idle"
    /\ Finish(w)
    /\ UNCHANGED <<jobs, callVars, state>>

\* the last scan finds none: GetAvailableContainer returns "" and no error,
\* SetContainerState("") fails, and executeJob returns without a Result
GiveUp(w) ==
    /\ pc[w] = "acquire"
    /\ Idle = {}
    /\ tries[w] + 1 >= MaxRetries
    /\ Finish(w)
    /\ UNCHANGED <<jobs, callVars, state>>

\* SetContainerState(containerID, StateBusy), without the lock
Mark(w) ==
    /\ pc[w] = "mark"
    /\ state' = [state EXCEPT ![cid[w]] = "busy"]
    /\ pc' = [pc EXCEPT ![w] = "run"]
    /\ UNCHANGED <<jobs, callVars, job, cid, tries, outcome>>

\* executeCode ends, by itself or by its 30 s timeout; a failed run goes
\* straight to the answer
Run(w) ==
    /\ pc[w] = "run"
    /\ \E o \in RunOutcomes :
          /\ outcome' = [outcome EXCEPT ![w] = o]
          /\ pc' = [pc EXCEPT ![w] = IF o = "ok" THEN "free" ELSE "send"]
    /\ UNCHANGED <<jobs, callVars, job, cid, tries, state>>

\* seeded bug: the container is not set idle after the run
FreeForgotten(w) ==
    /\ pc[w] = "free"
    /\ pc' = [pc EXCEPT ![w] = "send"]
    /\ UNCHANGED <<jobs, callVars, job, cid, tries, outcome, state>>

\* SetContainerState(containerID, StateIdle), without the lock
Free(w) ==
    /\ pc[w] = "free"
    /\ state' = [state EXCEPT ![cid[w]] = "idle"]
    /\ pc' = [pc EXCEPT ![w] = "send"]
    /\ UNCHANGED <<jobs, callVars, job, cid, tries, outcome>>

\* the send on the job's Result channel, whose buffer holds one value
Send(w) ==
    /\ pc[w] = "send"
    /\ reply[job[w]] = None
    /\ reply' = [reply EXCEPT ![job[w]] = outcome[w]]
    /\ Finish(w)
    /\ UNCHANGED <<jobs, calling, returned, state>>

WorkerStep(w) == \/ Pick(w) \/ Acquire(w) \/ Retry(w) \/ GiveUp(w)
                 \/ Mark(w) \/ Run(w) \/ Free(w) \/ Send(w)

Next == \/ \E c \in Callers : ExecuteJob(c) \/ Receive(c)
        \/ \E w \in Workers : WorkerStep(w)

Spec == Init /\ [][Next]_vars

\* The scheduler runs every goroutine that can take a step, and a docker exec
\* ends at the latest with its timeout.  Nobody is obliged to submit a job.
Fairness == /\ \A w \in Workers : WF_vars(WorkerStep(w))
            /\ \A c \in Callers : WF_vars(Receive(c))

FairSpec == Spec /\ Fairness

-------------------------------------------------------------------------------
(* What holds. *)

\* worker w has the container it was given, and has not set it idle again
Holds(w, k) == pc[w] \in {"mark", "run", "free"} /\ cid[w] = k

Held == {k \in Containers : \E w \in Workers : Holds(w, k)}

\* busy, yet no worker will ever set it idle: executeJob left it after an error
Leaked == {k \in Containers : state[k] = "busy"} \ Held

\* Two jobs never run in one container at the same time, although the states
\* are written outside the mutex (worker_pool.go:131 and 148).
ExclusiveContainer ==
    \A v, w \in Workers, k \in Containers : Holds(v, k) /\ Holds(w, k) => v = w

\* The container of a running job is never offered to another worker: it is
\* busy from the scan that finds it to the SetContainerState that frees it.
HeldIsBusy == \A k \in Held : state[k] = "busy"

\* the places where the answer to a call of c can still come from
Queued(c) == {i \in 1 .. Len(jobs) : jobs[i] = c}
Carriers(c) == {w \in Workers : job[w] = c}
Answered(c) == reply[c] # None

\* A call of ExecuteJob is in one place at a time: queued once, or with one
\* worker, or answered; and never anywhere once the caller has returned.  So no
\* job runs twice and no answer meets a later call of the same caller.
OneOwner ==
    \A c \in Callers :
        /\ c \notin calling => Queued(c) = {} /\ Carriers(c) = {} /\ ~Answered(c)
        /\ \A i, j \in Queued(c) : i = j
        /\ \A v, w \in Carriers(c) : v = w
        /\ ~(Queued(c) # {} /\ Carriers(c) # {})
        /\ Answered(c) => Queued(c) = {} /\ Carriers(c) = {}

\* The send of a Result (worker_pool.go:157) never blocks a worker.
SendNeverBlocks == \A w \in Workers : pc[w] = "send" => reply[job[w]] = None

\* callers whose call can no longer return: the job is gone without an answer
Abandoned == {c \in calling : Queued(c) = {} /\ Carriers(c) = {} /\ ~Answered(c)}

\* With a container per worker, a scan can only come up empty, and a call can
\* only be abandoned, because of a container that was unusable from the start
\* or was left busy by a failed run.  Ordinary load is never the cause.
StarvationHasCause ==
    /\ Cardinality(Workers) <= Cardinality(Containers)
    /\ Abandoned # {} \/ \E w \in Workers : tries[w] > 0
    => \E k \in Containers : k \in Leaked \/ state[k] = "error"

\* A call is rejected only while as many jobs of other callers wait as the queue holds
\* (worker_pool.go:108-116): a job that runs, or was dropped, takes no place from
\* anyone, so with no more rooms than places nobody gets the zero Result.
RejectedByOthers ==
    [][\A c \in Callers : returned'[c] = "rejected" /\ returned[c] # "rejected" =>
          Cardinality({d \in Callers \ {c} : Queued(d) # {}}) >= MaxJobCount]_vars

\* A worker always comes back to its select: the retries are bounded, the run
\* has a timeout and the answer is buffered.
WorkersReturn == \A w \in Workers : []<>(pc[w] = "select")

\* A call returns or is abandoned by GiveUp; nothing else can keep it.
AnsweredOrAbandoned ==
    \A c \in Callers : c \in calling ~> (c \notin calling \/ c \in Abandoned)

\* As long as no container is unusable or left busy, and there is one per worker,
\* every call returns.
HealthyCallsReturn ==
    /\ Cardinality(Workers) <= Cardinality(Containers)
    /\ [](\A k \in Containers : k \notin Leaked /\ state[k] # "error")
    => \A c \in Callers : c \in calling ~> c \notin calling

-------------------------------------------------------------------------------
(* What the documentation says and the code does not do. *)

\* note.md:34, "judge system only job is to compile & run the submitted code and
\* pass the result": every call of ExecuteJob returns.
EveryCallReturns == \A c \in Callers : c \in calling ~> c \notin calling
===============================================================================
