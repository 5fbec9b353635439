----------------------------- MODULE JudgeService -----------------------------
(***************************************************************************)
(* What internal/executor promises its callers, without workers, channels, *)
(* locks or containers by name: calls wait in a first-come first-served    *)
(* line of bounded length; at most Servers of them are served at a time; a *)
(* run needs one of the free slots, gives it back when it succeeds and     *)
(* burns it when it fails; a served call that meets no free slot may be    *)
(* dropped without an answer; every other call gets the verdict of its own *)
(* run.  Module ExecutorRefinement shows that Executor implements this.    *)
(***************************************************************************)
EXTENDS Naturals, Sequences, FiniteSets

CONSTANTS Callers, Servers, Slots, LineLength, Verdicts, None

VARIABLES line,     \* the calls that wait to be served, oldest first
          phase,    \* where each caller's call is
          verdict,  \* the verdict of a finished run, until it is delivered
          returned, \* what each caller's latest call returned
          slots     \* free slots

vars == <<line, phase, verdict, returned, slots>>

Phases == {"out", "waiting", "served", "running", "finished", "answered", "dropped"}

In(p) == {c \in Callers : phase[c] = p}

Init == /\ line = <<>>
        /\ phase = [c \in Callers |-> "out"]
        /\ verdict = [c \in Callers |-> None]
        /\ returned = [c \in Callers |-> None]
        /\ slots \in 0 .. Slots

Move(c, from, to) == phase[c] = from /\ phase' = [phase EXCEPT ![c] = to]

Call(c) == /\ Len(line) < LineLength
           /\ Move(c, "out", "waiting")
           /\ line' = Append(line, c)
           /\ UNCHANGED <<verdict, returned, slots>>

Reject(c) == /\ phase[c] = "out"
             /\ Len(line) = LineLength
             /\ returned' = [returned EXCEPT ![c] = "rejected"]
             /\ UNCHANGED <<line, phase, verdict, slots>>

Serve(c) == /\ line # <<>> /\ c = Head(line)
            /\ Cardinality(In("served") \cup In("running") \cup In("finished")) < Servers
            /\ Move(c, "waiting", "served")
            /\ line' = Tail(line)
            /\ UNCHANGED <<verdict, returned, slots>>

Start(c) == /\ slots > 0
            /\ Move(c, "served", "running")
            /\ slots' = slots - 1
            /\ UNCHANGED <<line, verdict, returned>>

Drop(c) == /\ slots = 0
           /\ Move(c, "served", "dropped")
           /\ UNCHANGED <<line, verdict, returned, slots>>

Finish(c) == /\ Move(c, "running", "finished")
             /\ \E v \in Verdicts :
                   /\ verdict' = [verdict EXCEPT ![c] = v]
                   /\ slots' = IF v = "ok" THEN slots + 1 ELSE slots
             /\ UNCHANGED <<line, returned>>

Answer(c) == /\ Move(c, "finished", "answered")
             /\ UNCHANGED <<line, verdict, returned, slots>>

Return(c) == /\ Move(c, "answered", "out")
             /\ returned' = [returned EXCEPT ![c] = verdict[c]]
             /\ verdict' = [verdict EXCEPT ![c] = None]
             /\ UNCHANGED <<line, slots>>

Next == \E c \in Callers : \/ Call(c) \/ Reject(c) \/ Serve(c) \/ Start(c)
                           \/ Drop(c) \/ Finish(c) \/ Answer(c) \/ Return(c)

Spec == Init /\ [][Next]_vars
===============================================================================
