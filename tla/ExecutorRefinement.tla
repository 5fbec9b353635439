-------------------------- MODULE ExecutorRefinement --------------------------
(* Executor implements JudgeService: the mapping of its state, and the claim.  *)
EXTENDS Executor

CarriedAt(c, pcs) == \E w \in Workers : job[w] = c /\ pc[w] \in pcs

PhaseOf(c) ==
    CASE c \notin calling                      -> "out"
      [] Queued(c) # {}                        -> "waiting"
      [] CarriedAt(c, {"acquire"})             -> "served"
      [] CarriedAt(c, {"mark", "run", "free"}) -> "running"
      [] CarriedAt(c, {"send"})                -> "finished"
      [] Answered(c)                           -> "answered"
      [] c \in Abandoned                       -> "dropped"

phaseBar == [c \in Callers |-> PhaseOf(c)]

CarrierOf(c) == CHOOSE w \in Workers : job[w] = c

\* the verdict exists once the run has released or lost its container
verdictBar ==
    [c \in Callers |->
        IF CarriedAt(c, {"send"})
        THEN outcome[CarrierOf(c)]
        ELSE reply[c]]

Judge == INSTANCE JudgeService WITH
            Servers <- Cardinality(Workers), Slots <- Cardinality(Containers),
            LineLength <- MaxJobCount, Verdicts <- RunOutcomes,
            line <- jobs, phase <- phaseBar, verdict <- verdictBar,
            slots <- Cardinality(Idle)

\* The workers, the queue and the container table together behave as the judge
\* service: calls are served in order, by as many servers as there are workers,
\* a run that fails burns its container, and a caller gets its own run's verdict.
JudgeSpec == Judge!Spec
===============================================================================
