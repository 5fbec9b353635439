------------------------------ MODULE ContainerPool ------------------------------
(***************************************************************************)
(* The containers of the judge over the lives of the server process:       *)
(* InitializePool, balanceWorker, StartContainer and removeExcessContainer *)
(* of internal/executor/container_manager.go, and what Docker has.         *)
(*                                                                         *)
(* The map of containers dies with the process; the containers do not:     *)
(* nothing calls ShutDown.  A step is one call of the Docker API, which    *)
(* may fail.  What workers do to the states while the server runs is the   *)
(* matter of module Executor: Containers and InitStates there are what     *)
(* this module leaves in "containers".                                     *)
(***************************************************************************)
EXTENDS Integers, FiniteSets

CONSTANTS Ids,         \* container ids; bound: Docker hands out no others
          MaxWorkers,  \* WorkerPoolOptions.MaxWorkers
          None

ASSUME PoolAssumption == /\ IsFiniteSet(Ids)
                         /\ None \notin Ids /\ None \notin {"idle", "error"}
                         /\ MaxWorkers \in Nat \ {0}

VARIABLES docker,      \* the containers of image "worker", in whatever state
          containers,  \* d.containers: the State of each container registered
          stage,       \* how far NewWorkerPool has got
          need,        \* containers balanceWorker still has to start, or -to remove
          created,     \* the container between ContainerCreate and ContainerStart
          failed       \* history: a Docker call failed in this life of the process

poolVars == <<docker, containers, stage, need, created, failed>>

PoolStages == {"down", "list", "balance", "ready"}

PoolTypeOK == /\ docker \in [Ids -> {"absent", "created", "running", "exited"}]
              /\ containers \in [Ids -> {"idle", "error", None}]
              /\ stage \in PoolStages
              /\ need \in -Cardinality(Ids) .. MaxWorkers
              /\ created \in Ids \cup {None}
              /\ failed \in BOOLEAN

Existing == {k \in Ids : docker[k] # "absent"}
Registered == {k \in Ids : containers[k] # None}
Usable == {k \in Ids : containers[k] = "idle"}

\* what earlier lives and other people left behind; no process
PoolInit == /\ docker \in [Ids -> {"absent", "running", "exited"}]
            /\ containers = [k \in Ids |-> None]
            /\ stage = "down" /\ need = 0 /\ created = None /\ failed = FALSE

-------------------------------------------------------------------------------

\* the map and everything else in memory is gone
Forget == /\ containers' = [k \in Ids |-> None]
          /\ stage' = "down" /\ need' = 0 /\ created' = None /\ failed' = FALSE

Boot == /\ stage = "down"
        /\ stage' = "list"
        /\ UNCHANGED <<docker, containers, need, created, failed>>

\* seeded bug: only the running containers are registered
ListRunning ==
    /\ stage = "list"
    /\ containers' = [k \in Ids |-> IF docker[k] = "running" THEN "idle" ELSE None]
    /\ need' = MaxWorkers - Cardinality({k \in Ids : docker[k] = "running"})
    /\ stage' = "balance"
    /\ UNCHANGED <<docker, created, failed>>

\* ContainerList, the registration of what it lists, and the count of balanceWorker
List ==
    /\ stage = "list"
    /\ containers' = [k \in Ids |-> CASE docker[k] = "absent"  -> None
                                      [] docker[k] = "running" -> "idle"
                                      [] OTHER                 -> "error"]
    /\ need' = MaxWorkers - Cardinality(Existing)
    /\ stage' = "balance"
    /\ UNCHANGED <<docker, created, failed>>

\* ContainerList fails: NewWorkerPool fails and main panics
ListFails == stage = "list" /\ Forget /\ UNCHANGED docker

\* an error of balanceWorker ends it; InitializePool drops it and returns nil
GiveUpBalancing == stage' = "ready" /\ need' = 0 /\ created' = None /\ failed' = TRUE

\* ContainerCreate
Create ==
    /\ stage = "balance" /\ need > 0 /\ created = None
    /\ \/ \E k \in Ids \ Existing :
             /\ docker' = [docker EXCEPT ![k] = "created"]
             /\ created' = k
             /\ UNCHANGED <<stage, need, failed>>
       \/ GiveUpBalancing /\ UNCHANGED docker
    /\ UNCHANGED containers

\* seeded bug: when a container does not start, another one is tried
StartRetried ==
    /\ stage = "balance" /\ created # None
    /\ \/ /\ docker' = [docker EXCEPT ![created] = "running"]
          /\ containers' = [containers EXCEPT ![created] = "idle"]
          /\ need' = need - 1
          /\ UNCHANGED failed
       \/ failed' = TRUE /\ UNCHANGED <<docker, containers, need>>
    /\ created' = None
    /\ UNCHANGED stage

\* ContainerStart and the registration; a container that does not start is left
\* behind in Docker
Start ==
    /\ stage = "balance" /\ created # None
    /\ \/ /\ docker' = [docker EXCEPT ![created] = "running"]
          /\ containers' = [containers EXCEPT ![created] = "idle"]
          /\ need' = need - 1
          /\ created' = None
          /\ UNCHANGED <<stage, failed>>
       \/ GiveUpBalancing /\ UNCHANGED <<docker, containers>>

\* removeExcessContainer: the containers a map iteration comes to first
Remove ==
    /\ stage = "balance" /\ need < 0
    /\ \/ \E k \in Registered :
             /\ docker' = [docker EXCEPT ![k] = "absent"]
             /\ containers' = [containers EXCEPT ![k] = None]
             /\ need' = need + 1
             /\ UNCHANGED <<stage, created, failed>>
       \/ GiveUpBalancing /\ UNCHANGED <<docker, containers>>

Ready == /\ stage = "balance" /\ need = 0
         /\ stage' = "ready"
         /\ UNCHANGED <<docker, containers, need, created, failed>>

\* a container stops by itself: a reboot of the host, an operator, the OOM killer
Die(k) == /\ docker[k] = "running"
          /\ docker' = [docker EXCEPT ![k] = "exited"]
          /\ UNCHANGED <<containers, stage, need, created, failed>>

InitializePool == List \/ ListFails \/ Create \/ Start \/ Remove \/ Ready

-------------------------------------------------------------------------------
(* What holds. *)

\* A start at which no Docker call fails ends with MaxWorkers containers, and with
\* every container of the image registered, whatever earlier lives of the process
\* left behind: running, stopped, created and never started (balanceWorker,
\* "ensure the number of workers is exactly equal to maxWorkers").
CleanStart ==
    stage = "ready" /\ ~failed => /\ Cardinality(Registered) = MaxWorkers
                                  /\ Registered = Existing

\* Crashes and failed starts do not make containers pile up in Docker: one is made
\* only while there are fewer than MaxWorkers.
NoPileUp ==
    [][Cardinality(Existing') > Cardinality(Existing)
         => Cardinality(Existing) < MaxWorkers]_poolVars

-------------------------------------------------------------------------------
(* What the documentation says and the code does not do. *)

\* note.md:57, "Container Manager will initialize a number of containers running
\* using the maxWorkers": after a start without failures they can all take jobs.
AllCanRun == stage = "ready" /\ ~failed => Cardinality(Usable) = MaxWorkers
===============================================================================
