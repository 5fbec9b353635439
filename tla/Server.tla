---------------------------------- MODULE Server ----------------------------------
(***************************************************************************)
(* The lives of the server process: scripts/server starts it, main and     *)
(* run (cmd/main/main.go, server.go) bring it up and take it down, and     *)
(* each life has the containers and the rooms it finds and makes.  This    *)
(* module composes ContainerPool and RoomRegistry.                         *)
(*                                                                         *)
(* What Docker and the database hold outlives a process.  Containers that  *)
(* stop by themselves are seen by the next life only: they may stop while  *)
(* no process runs, which stands for any time before.                      *)
(***************************************************************************)
EXTENDS ContainerPool, RoomRegistry

CONSTANT MaxAttempts   \* attempts of the script, 10 in the code

ASSUME ServerAssumption == MaxAttempts \in Nat \ {0}

VARIABLES process,   \* where the process is
          attempt    \* the script's loop variable i, 0 before the first round

vars == <<poolVars, registryVars, process, attempt>>

ServerTypeOK == /\ PoolTypeOK /\ RegistryTypeOK
                /\ process \in {"down", "starting", "serving", "draining", "stopped"}
                /\ attempt \in 0 .. MaxAttempts

Init == PoolInit /\ RegistryInit /\ process = "down" /\ attempt = 0

-------------------------------------------------------------------------------

\* the process is no more; "down" is an exit status other than 0
End(how) == process' = how /\ Forget /\ ForgetRooms /\ UNCHANGED <<docker, attempt>>

\* one round of the script's loop
Launch == /\ process = "down" /\ attempt < MaxAttempts
          /\ process' = "starting" /\ attempt' = attempt + 1
          /\ Boot
          /\ UNCHANGED registryVars

\* NewWorkerPool; main panics when it fails
Initialize == /\ process = "starting"
              /\ InitializePool
              /\ process' = IF stage' = "down" THEN "down" ELSE "starting"
              /\ UNCHANGED <<registryVars, attempt>>

\* NewGlobalRooms and ListenAndServe
Serve == /\ process = "starting" /\ stage = "ready"
         /\ NewGlobalRooms
         /\ process' = "serving"
         /\ UNCHANGED <<poolVars, attempt>>

\* a request that comes in
Request == /\ process = "serving"
           /\ Insert \/ \E r \in RoomIds : Delete(r) \/ Open(r)
           /\ UNCHANGED <<poolVars, process, attempt>>

\* what handlers and room managers have under way goes on while the server drains
Work == /\ process \in {"serving", "draining"}
        /\ Register \/ Close \/ \E r \in RoomIds : DeleteRow(r) \/ Occupy(r) \/ Vacate(r)
        /\ UNCHANGED <<poolVars, process, attempt>>

\* SIGINT or SIGTERM: srv.Shutdown closes the listener
Signal == /\ process = "serving"
          /\ process' = "draining"
          /\ UNCHANGED <<poolVars, registryVars, attempt>>

\* Shutdown returns when no handler runs, and an event stream is a handler that
\* runs; exit status 0 ends the script
Stop == process = "draining" /\ streams = {} /\ creating = 0 /\ End("stopped")

\* the 30 seconds of Shutdown are over: run returns an error, and main exits with 1
ShutdownTimeout == process = "draining" /\ End("down")

\* a panic, a port in use, kill -9
Crash == process \in {"starting", "serving", "draining"} /\ End("down")

ContainerDies == /\ process = "down"
                 /\ \E k \in Ids : Die(k)
                 /\ UNCHANGED <<registryVars, process, attempt>>

Next == \/ Launch \/ Initialize \/ Serve \/ Request \/ Work
        \/ Signal \/ Stop \/ ShutdownTimeout \/ Crash \/ ContainerDies

Spec == Init /\ [][Next]_vars

-------------------------------------------------------------------------------
(* What holds, besides the properties of the modules composed. *)

\* the rooms of earlier lives, except those that NewGlobalRooms makes again
Orphans == {r \in roomRows : r \notin born /\ r \notin DevRooms}

StayBehind == /\ Orphans \subseteq Orphans'
              /\ \A r \in Orphans : r \in occupied <=> r \in occupied'

\* A room that an earlier life left in the table is out of everybody's reach, through
\* crashes, restarts by the script, and overlapping creations and deletions: its row is
\* never deleted nor taken over by a new room of its id, and whether it has members
\* never changes, since managers are made for the rooms of development and not for the
\* rows (room_manager.go:47).
OrphanedRoomsStay == [][StayBehind]_vars
===============================================================================
