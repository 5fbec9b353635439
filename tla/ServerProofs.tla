------------------------------ MODULE ServerProofs ------------------------------
(***************************************************************************)
(* Proofs about module Server: what holds of the rooms and of the          *)
(* containers over every number of lives of the process, of rooms,         *)
(* managers, deletions, streams, containers and workers.                   *)
(*                                                                         *)
(* The inductive invariant of the rooms says why their two properties      *)
(* hold: only the id of new rooms is ever born; a process that does not    *)
(* serve yet remembers nothing; and a settled stream is on a room whose    *)
(* row is there, so the primary key keeps a creation from beginning, and   *)
(* on which no creation was under way, so none can end.                    *)
(***************************************************************************)
EXTENDS Server, FiniteSetTheorems, TLAPS

Up == process \in {"serving", "draining"}

\* the types the argument needs
Typed == /\ rooms \in [RoomIds -> Nat]
         /\ creating \in Nat
         /\ streams \subseteq [room : RoomIds, manager : Nat, settled : BOOLEAN]

Blank == ~Up => streams = {} /\ creating = 0 /\ born = {}

OnlyNewBorn == born \subseteq {NewRoom}

SettledAtRest == \A s \in streams : s.settled => /\ s.room \in roomRows
                                                 /\ s.room = NewRoom => creating = 0

RoomInv == Typed /\ Blank /\ OnlyNewBorn /\ NewRoomsReachable /\ SettledAtRest /\ SettledStreamsHear

LEMMA RoomInvInit == Init => RoomInv
  BY RegistryAssumption
     DEF RegistryAssumption, Init, RegistryInit, RoomInv, Typed, Blank, OnlyNewBorn,
         NewRoomsReachable, SettledAtRest, SettledStreamsHear

\* When a process ends, whatever way, nothing in memory is left to be wrong.
LEMMA EndKeeps == ASSUME RoomInv, NEW how, End(how) PROVE RoomInv'
  BY DEF End, ForgetRooms, RoomInv, Typed, Blank, OnlyNewBorn, NewRoomsReachable,
         SettledAtRest, SettledStreamsHear

\* Steps that touch no room and start or end no process keep the invariant.
LEMMA IdleKeeps == ASSUME RoomInv, UNCHANGED registryVars, Up' = Up PROVE RoomInv'
  BY DEF registryVars, memory, RoomInv, Typed, Blank, OnlyNewBorn, NewRoomsReachable,
         SettledAtRest, SettledStreamsHear

\* A deletion unsettles the streams of its room and leaves the map alone.
LEMMA DeleteRowKeeps ==
  ASSUME RoomInv, Up, Up', NEW r \in RoomIds, DeleteRow(r) PROVE RoomInv'
  <1> USE DEF RoomInv, DeleteRow
  <1>1. CASE r \in occupied
    BY <1>1 DEF Typed, Blank, OnlyNewBorn, NewRoomsReachable, SettledAtRest, SettledStreamsHear
  <1>2. CASE r \notin occupied
    <2>1. roomRows' = roomRows \ {r} /\ born' = born \ {r} /\ UNCHANGED <<rooms, creating>>
      BY <1>2 DEF RemoveRow
    <2>2. ASSUME NEW s \in streams'
          PROVE  \/ s \in streams
                 \/ s \in [room : RoomIds, manager : Nat, settled : BOOLEAN] /\ ~s.settled
      <3>1. PICK t \in streams : s = IF t.room = r THEN [t EXCEPT !.settled = FALSE] ELSE t
        BY <1>2 DEF RemoveRow
      <3>2. t \in [room : RoomIds, manager : Nat, settled : BOOLEAN]
        BY DEF Typed
      <3> QED
        BY <3>1, <3>2
    <2>3. ASSUME NEW s \in streams', s.settled PROVE s \in streams /\ s.room # r
      <3>1. PICK t \in streams : s = IF t.room = r THEN [t EXCEPT !.settled = FALSE] ELSE t
        BY <1>2 DEF RemoveRow
      <3>2. t \in [room : RoomIds, manager : Nat, settled : BOOLEAN]
        BY DEF Typed
      <3> QED
        BY <2>3, <3>1, <3>2
    <2>4. Typed'
      BY <2>1, <2>2 DEF Typed
    <2>5. Blank' /\ OnlyNewBorn' /\ NewRoomsReachable'
      BY <2>1 DEF Blank, OnlyNewBorn, NewRoomsReachable
    <2>6. SettledAtRest' /\ SettledStreamsHear'
      BY <2>1, <2>3 DEF SettledAtRest, SettledStreamsHear
    <2> QED
      BY <2>4, <2>5, <2>6
  <1> QED
    BY <1>1, <1>2

LEMMA RoomInvStep == RoomInv /\ [Next]_vars => RoomInv'
  <1> SUFFICES ASSUME RoomInv, [Next]_vars PROVE RoomInv'
    OBVIOUS
  <1>1. CASE Launch \/ Initialize \/ Signal \/ ContainerDies \/ UNCHANGED vars
    <2>1. UNCHANGED registryVars
      BY <1>1 DEF Launch, Initialize, Signal, ContainerDies, vars
    <2>2. Up' = Up
      BY <1>1 DEF Launch, Initialize, Signal, ContainerDies, vars, Up
    <2> QED
      BY <2>1, <2>2, IdleKeeps
  <1>2. CASE Serve
    BY <1>2 DEF Serve, NewGlobalRooms, RoomInv, Typed, Blank, Up, OnlyNewBorn,
                NewRoomsReachable, SettledAtRest, SettledStreamsHear
  <1>3. CASE Stop \/ ShutdownTimeout \/ Crash
    BY <1>3, EndKeeps DEF Stop, ShutdownTimeout, Crash
  <1>4. ASSUME Request, Insert PROVE RoomInv'
    <2>1. Typed' /\ Blank' /\ OnlyNewBorn'
      BY <1>4 DEF Request, Insert, RoomInv, Typed, Blank, Up, OnlyNewBorn
    <2>2. NewRoomsReachable'
      BY <1>4 DEF Insert, RoomInv, Typed, NewRoomsReachable
    <2>3. SettledAtRest' /\ SettledStreamsHear'
      BY <1>4 DEF Insert, RoomInv, SettledAtRest, SettledStreamsHear
    <2> QED
      BY <2>1, <2>2, <2>3 DEF RoomInv
  <1>5. ASSUME Request, NEW r \in RoomIds, Delete(r) PROVE RoomInv'
    BY <1>5 DEF Request, Delete, RoomInv, Typed, Blank, Up, OnlyNewBorn,
                NewRoomsReachable, SettledAtRest, SettledStreamsHear
  <1>6. ASSUME Request, NEW r \in RoomIds, Open(r) PROVE RoomInv'
    <2> DEFINE new == [room |-> r, manager |-> rooms[r],
                       settled |-> r \in roomRows /\ (r = NewRoom => creating = 0)]
    <2>1. streams' = streams \cup {new} /\ UNCHANGED <<rooms, creating, born, roomRows>>
      BY <1>6 DEF Open
    <2>2. new \in [room : RoomIds, manager : Nat, settled : BOOLEAN]
      BY DEF RoomInv, Typed
    <2>3. Up'
      BY <1>6 DEF Request, Up
    <2>4. /\ new.settled => new.room \in roomRows /\ (new.room = NewRoom => creating = 0)
          /\ new.manager = rooms[new.room]
      OBVIOUS
    <2> HIDE DEF new
    <2> QED
      BY <2>1, <2>2, <2>3, <2>4 DEF RoomInv, Typed, Blank, OnlyNewBorn,
         NewRoomsReachable, SettledAtRest, SettledStreamsHear
  <1>7. ASSUME Work, Register PROVE RoomInv'
    <2>1. /\ creating' = creating - 1 /\ creating > 0 /\ creating \in Nat
          /\ rooms' = [rooms EXCEPT ![NewRoom] = @ + 1]
          /\ UNCHANGED <<streams, born, roomRows>>
      BY <1>7 DEF Register, RoomInv, Typed
    <2>2. Up'
      BY <1>7 DEF Work, Up
    <2>3. NewRoom \in RoomIds /\ rooms \in [RoomIds -> Nat]
      BY RegistryAssumption DEF RegistryAssumption, RoomInv, Typed
    <2>4. rooms'[NewRoom] # 0
      BY <2>1, <2>3
    <2>5. Typed' /\ Blank' /\ OnlyNewBorn'
      BY <2>1, <2>2, <2>3 DEF RoomInv, Typed, Blank, OnlyNewBorn
    <2>6. NewRoomsReachable'
      BY <2>1, <2>4 DEF RoomInv, OnlyNewBorn, NewRoomsReachable
    <2>7. \A s \in streams : s.settled => s.room # NewRoom
      BY <2>1 DEF RoomInv, SettledAtRest
    <2>8. SettledAtRest'
      BY <2>1, <2>7 DEF RoomInv, SettledAtRest
    <2>9. \A s \in streams : s.room \in RoomIds
      BY DEF RoomInv, Typed
    <2>10. SettledStreamsHear'
      BY <2>1, <2>3, <2>7, <2>9 DEF RoomInv, SettledStreamsHear
    <2> QED
      BY <2>5, <2>6, <2>8, <2>10 DEF RoomInv
  <1>8. ASSUME Work, Close PROVE RoomInv'
    BY <1>8 DEF Work, Close, RoomInv, Typed, Blank, Up, OnlyNewBorn,
                NewRoomsReachable, SettledAtRest, SettledStreamsHear
  <1>9. ASSUME Work, NEW r \in RoomIds, Occupy(r) \/ Vacate(r) PROVE RoomInv'
    BY <1>9 DEF Work, Occupy, Vacate, memory, RoomInv, Typed, Blank, Up, OnlyNewBorn,
                NewRoomsReachable, SettledAtRest, SettledStreamsHear
  <1>10. ASSUME Work, NEW r \in RoomIds, DeleteRow(r) PROVE RoomInv'
    BY <1>10, DeleteRowKeeps DEF Work, Up
  <1> QED
    BY <1>1, <1>2, <1>3, <1>4, <1>5, <1>6, <1>7, <1>8, <1>9, <1>10 DEF Next, Request, Work

LEMMA RoomInvHolds == Spec => []RoomInv
  BY RoomInvInit, RoomInvStep, PTL DEF Spec

\* A room made in this life of the process keeps its manager in the map, whatever
\* creations and deletions of its id overlap.
THEOREM RoomsReachable == Spec => []NewRoomsReachable
  <1>1. RoomInv => NewRoomsReachable
    BY DEF RoomInv
  <1> QED
    BY <1>1, RoomInvHolds, PTL

\* A stream opened on a room at rest hears the manager that requests go to until
\* the row of its room is deleted.
THEOREM StreamsHear == Spec => []SettledStreamsHear
  <1>1. RoomInv => SettledStreamsHear
    BY DEF RoomInv
  <1> QED
    BY <1>1, RoomInvHolds, PTL
-------------------------------------------------------------------------------
(* The containers.  While balanceWorker runs, what it still has to do and what *)
(* Docker has add up to MaxWorkers, one container between its creation and its *)
(* start aside; and all the others are registered.                             *)

Unregistered == IF created = None THEN {} ELSE {created}

Balancing ==
    stage = "balance" => /\ created # None => need > 0 /\ created \in Existing
                         /\ Registered = Existing \ Unregistered
                         /\ need + Cardinality(Existing \ Unregistered) = MaxWorkers

\* nothing is half done, and nothing failed yet
Quiet == /\ stage # "balance" => created = None /\ need = 0
         /\ stage # "ready" => failed = FALSE

PoolInv == PoolTypeOK /\ Balancing /\ Quiet /\ CleanStart

LEMMA PoolFacts == /\ IsFiniteSet(Ids) /\ None \notin Ids /\ None \notin {"idle", "error"}
                   /\ MaxWorkers \in Nat \ {0} /\ Cardinality(Ids) \in Nat
                   /\ 0 \in -Cardinality(Ids) .. MaxWorkers
<1>1. IsFiniteSet(Ids) /\ MaxWorkers \in Nat \ {0} /\ Cardinality(Ids) \in Nat
  BY PoolAssumption, FS_CardinalityType DEF PoolAssumption
<1>2. 0 \in -Cardinality(Ids) .. MaxWorkers
  BY <1>1
<1>3. QED
  BY <1>1, <1>2, PoolAssumption DEF PoolAssumption

LEMMA Counted ==
    ASSUME NEW S \in SUBSET Ids
    PROVE  IsFiniteSet(S) /\ Cardinality(S) \in Nat /\ Cardinality(S) <= Cardinality(Ids)
  BY PoolFacts, FS_Subset, FS_CardinalityType

LEMMA PoolInvInit == PoolInit => PoolInv
<1> SUFFICES ASSUME PoolInit PROVE PoolInv
  OBVIOUS
<1>1. PoolTypeOK
  BY PoolFacts DEF PoolInit, PoolTypeOK, PoolStages
<1>2. Balancing /\ Quiet /\ CleanStart
  BY DEF PoolInit, Balancing, Quiet, CleanStart
<1>3. QED
  BY <1>1, <1>2 DEF PoolInv

\* A start that gives up is not clean, and leaves nothing half done.
LEMMA GivenUp ==
    ASSUME PoolInv, GiveUpBalancing, UNCHANGED <<docker, containers>>
    PROVE  PoolInv'
<1>1. PoolTypeOK'
  BY PoolFacts DEF PoolInv, GiveUpBalancing, PoolTypeOK, PoolStages
<1>2. (Balancing /\ Quiet /\ CleanStart)'
  BY DEF GiveUpBalancing, Balancing, Quiet, CleanStart
<1>3. QED
  BY <1>1, <1>2 DEF PoolInv

LEMMA ListKeeps == ASSUME PoolInv, List PROVE PoolInv'
<1>1. /\ docker' = docker /\ created' = None /\ failed' = FALSE /\ stage' = "balance"
      /\ containers' \in [Ids -> {"idle", "error", None}]
      /\ need' = MaxWorkers - Cardinality(Existing)
  BY DEF PoolInv, List, Quiet
<1>2. Existing' = Existing /\ Existing \in SUBSET Ids
  BY <1>1 DEF Existing
<1>3. Registered' = Existing
  BY PoolFacts DEF List, Registered, Existing
<1>4. Cardinality(Existing) \in Nat /\ Cardinality(Existing) <= Cardinality(Ids)
  BY <1>2, Counted
<1>5. need' \in -Cardinality(Ids) .. MaxWorkers
  BY <1>1, <1>4, PoolFacts
<1>6. PoolTypeOK'
  BY <1>1, <1>5 DEF PoolInv, PoolTypeOK, PoolStages
<1>7. Unregistered' = {} /\ need' + Cardinality(Existing) = MaxWorkers
  BY <1>1, <1>4, PoolFacts DEF Unregistered
<1>8. (Balancing /\ Quiet /\ CleanStart)'
  BY <1>1, <1>2, <1>3, <1>7 DEF Balancing, Quiet, CleanStart
<1>9. QED
  BY <1>6, <1>8 DEF PoolInv

LEMMA CreateKeeps ==
    ASSUME PoolInv, Create
    PROVE  PoolInv' /\ Cardinality(Existing) < MaxWorkers
<1>1. /\ stage = "balance" /\ need > 0 /\ created = None /\ containers' = containers
      /\ Unregistered = {} /\ Registered = Existing /\ Existing \in SUBSET Ids
      /\ need + Cardinality(Existing) = MaxWorkers /\ need \in Int
  BY DEF PoolInv, Create, Balancing, Unregistered, PoolTypeOK, Existing
<1>2. Cardinality(Existing) < MaxWorkers
  BY <1>1, Counted, PoolFacts
<1>3. ASSUME NEW k \in Ids \ Existing, docker' = [docker EXCEPT ![k] = "created"], created' = k,
             UNCHANGED <<stage, need, failed>>
      PROVE  PoolInv'
  <2>1. PoolTypeOK'
    BY <1>1, <1>3 DEF PoolInv, PoolTypeOK
  <2>2. Existing' = Existing \cup {k} /\ Unregistered' = {k} /\ Existing' \ Unregistered' = Existing
    BY <1>1, <1>3, PoolFacts DEF PoolInv, PoolTypeOK, Existing, Unregistered
  <2>3. Registered' = Existing
    BY <1>1 DEF Registered
  <2>4. Balancing'
    BY <1>1, <1>3, <2>2, <2>3 DEF Balancing
  <2>5. (Quiet /\ CleanStart)'
    BY <1>1, <1>3 DEF PoolInv, Quiet, CleanStart
  <2>6. QED
    BY <2>1, <2>4, <2>5 DEF PoolInv
<1>4. CASE GiveUpBalancing /\ UNCHANGED docker
  BY <1>1, <1>2, <1>4, GivenUp
<1>5. QED
  BY <1>2, <1>3, <1>4 DEF Create

LEMMA StartKeeps ==
    ASSUME PoolInv, Start
    PROVE  PoolInv' /\ Existing' = Existing
<1>1. /\ stage = "balance" /\ created # None /\ created \in Ids /\ created \in Existing /\ need > 0
      /\ need \in Int /\ need <= MaxWorkers /\ Unregistered = {created}
      /\ Registered = Existing \ {created} /\ Existing \in SUBSET Ids
      /\ need + Cardinality(Existing \ {created}) = MaxWorkers
  BY PoolFacts DEF PoolInv, Start, Balancing, Unregistered, PoolTypeOK, Existing
<1>2. CASE /\ docker' = [docker EXCEPT ![created] = "running"]
           /\ containers' = [containers EXCEPT ![created] = "idle"]
           /\ need' = need - 1 /\ created' = None
           /\ UNCHANGED <<stage, failed>>
  <2>1. Existing' = Existing
    BY <1>1, <1>2 DEF PoolInv, PoolTypeOK, Existing
  <2>2. Registered' = Registered \cup {created}
    BY <1>1, <1>2, PoolFacts DEF PoolInv, PoolTypeOK, Registered
  <2>3. Registered' = Existing /\ Unregistered' = {} /\ Existing \ {} = Existing
    BY <1>1, <1>2, <2>2 DEF Unregistered
  <2>4. /\ Cardinality(Existing \ {created}) = Cardinality(Existing) - 1
        /\ Cardinality(Existing) \in Nat
    BY <1>1, Counted, FS_RemoveElement
  <2>5. need' + Cardinality(Existing) = MaxWorkers
    BY <1>1, <1>2, <2>4, PoolFacts
  <2>6. need' \in -Cardinality(Ids) .. MaxWorkers
    BY <1>1, <1>2, PoolFacts
  <2>7. PoolTypeOK'
    BY <1>1, <1>2, <2>6 DEF PoolInv, PoolTypeOK
  <2>8. Balancing'
    BY <1>1, <1>2, <2>1, <2>3, <2>5 DEF Balancing
  <2>9. (Quiet /\ CleanStart)'
    BY <1>1, <1>2 DEF PoolInv, Quiet, CleanStart
  <2>10. QED
    BY <2>1, <2>7, <2>8, <2>9 DEF PoolInv
<1>3. CASE GiveUpBalancing /\ UNCHANGED <<docker, containers>>
  BY <1>3, GivenUp DEF Existing
<1>4. QED
  BY <1>2, <1>3 DEF Start

LEMMA RemoveKeeps ==
    ASSUME PoolInv, Remove
    PROVE  PoolInv' /\ Existing' \subseteq Existing
<1>1. /\ stage = "balance" /\ need < 0 /\ created = None /\ need \in Int /\ need >= -Cardinality(Ids)
      /\ Unregistered = {} /\ Registered = Existing /\ Existing \in SUBSET Ids
      /\ need + Cardinality(Existing) = MaxWorkers
  <2>1. stage = "balance" /\ need < 0 /\ need \in -Cardinality(Ids) .. MaxWorkers
    BY DEF PoolInv, Remove, PoolTypeOK
  <2>2. need \in Int /\ need >= -Cardinality(Ids) /\ ~(need > 0)
    BY <2>1, PoolFacts
  <2>3. created = None
    BY <2>1, <2>2 DEF PoolInv, Balancing
  <2>4. Unregistered = {} /\ Existing \in SUBSET Ids /\ Existing \ {} = Existing
    BY <2>3 DEF Unregistered, Existing
  <2>5. QED
    BY <2>1, <2>2, <2>3, <2>4 DEF PoolInv, Balancing
<1>2. ASSUME NEW k \in Registered,
             docker' = [docker EXCEPT ![k] = "absent"], containers' = [containers EXCEPT ![k] = None],
             need' = need + 1, UNCHANGED <<stage, created, failed>>
      PROVE  PoolInv' /\ Existing' \subseteq Existing
  <2>1. k \in Ids /\ k \in Existing
    BY <1>1
  <2>2. Existing' = Existing \ {k} /\ Registered' = Existing \ {k}
    <3>1. Existing' = Existing \ {k}
      BY <1>2, <2>1 DEF PoolInv, PoolTypeOK, Existing
    <3>2. Registered' = Registered \ {k}
      BY <1>2, <2>1 DEF PoolInv, PoolTypeOK, Registered
    <3>3. QED
      BY <1>1, <3>1, <3>2
  <2>3. /\ Cardinality(Existing \ {k}) = Cardinality(Existing) - 1
        /\ Cardinality(Existing) \in Nat
    BY <1>1, <2>1, Counted, FS_RemoveElement
  <2>4. need' + Cardinality(Existing') = MaxWorkers
    BY <1>1, <1>2, <2>2, <2>3, PoolFacts
  <2>5. need' \in -Cardinality(Ids) .. MaxWorkers
    BY <1>1, <1>2, PoolFacts
  <2>6. PoolTypeOK'
    BY <1>2, <2>1, <2>5 DEF PoolInv, PoolTypeOK
  <2>7. Unregistered' = {}
    BY <1>1, <1>2 DEF Unregistered
  <2>8. Balancing'
    BY <1>1, <1>2, <2>2, <2>4, <2>7 DEF Balancing
  <2>9. (Quiet /\ CleanStart)'
    BY <1>1, <1>2 DEF PoolInv, Quiet, CleanStart
  <2>10. QED
    BY <2>2, <2>6, <2>8, <2>9 DEF PoolInv
<1>3. CASE GiveUpBalancing /\ UNCHANGED <<docker, containers>>
  BY <1>3, GivenUp DEF Existing
<1>4. QED
  BY <1>2, <1>3 DEF Remove

LEMMA ReadyKeeps == ASSUME PoolInv, Ready PROVE PoolInv' /\ Existing' = Existing
<1>1. /\ stage = "balance" /\ need = 0 /\ created = None /\ stage' = "ready"
      /\ UNCHANGED <<docker, containers, need, created, failed>>
  BY DEF Ready, PoolInv, Balancing
<1>2. Registered = Existing /\ Cardinality(Existing) = MaxWorkers
  <2>1. Unregistered = {} /\ Existing \in SUBSET Ids
    BY <1>1 DEF Unregistered, Existing
  <2>2. Registered = Existing /\ 0 + Cardinality(Existing) = MaxWorkers
    BY <1>1, <2>1 DEF PoolInv, Balancing
  <2>3. QED
    BY <2>1, <2>2, Counted
<1>3. Registered' = Registered /\ Existing' = Existing
  BY <1>1 DEF Registered, Existing
<1>4. CleanStart'
  BY <1>2, <1>3 DEF CleanStart
<1>5. PoolTypeOK' /\ Balancing' /\ Quiet'
  BY <1>1 DEF PoolInv, PoolTypeOK, PoolStages, Balancing, Quiet
<1>6. QED
  BY <1>3, <1>4, <1>5 DEF PoolInv

\* A process that ends, whatever way, leaves Docker as it is.
LEMMA ForgetKeeps ==
    ASSUME PoolInv, Forget, UNCHANGED docker PROVE PoolInv' /\ Existing' = Existing
<1>1. PoolTypeOK'
  BY PoolFacts DEF PoolInv, Forget, PoolTypeOK, PoolStages
<1>2. (Balancing /\ Quiet /\ CleanStart)'
  BY DEF Forget, Balancing, Quiet, CleanStart
<1>3. QED
  BY <1>1, <1>2 DEF PoolInv, Existing

LEMMA RestKeeps ==
    ASSUME PoolInv, UNCHANGED poolVars \/ Boot \/ (\E k \in Ids : Die(k))
    PROVE  PoolInv' /\ Existing' = Existing
<1>1. /\ UNCHANGED <<containers, need, created, failed>>
      /\ stage' = stage \/ (stage = "down" /\ stage' = "list")
      /\ docker' = docker \/ (\E k \in Ids : docker[k] = "running"
                                             /\ docker' = [docker EXCEPT ![k] = "exited"])
  BY DEF poolVars, Boot, Die
<1>2. PoolTypeOK'
  BY <1>1 DEF PoolInv, PoolTypeOK, PoolStages
<1>3. Existing' = Existing /\ Registered' = Registered /\ Unregistered' = Unregistered
  BY <1>1 DEF PoolInv, PoolTypeOK, Existing, Registered, Unregistered
<1>4. Balancing' /\ Quiet'
  BY <1>1, <1>3 DEF PoolInv, Balancing, Quiet
<1>5. CleanStart'
  BY <1>1, <1>3 DEF PoolInv, CleanStart
<1>6. QED
  BY <1>2, <1>3, <1>4, <1>5 DEF PoolInv

\* what a step of the server is to the containers
LEMMA PoolSteps ==
    ASSUME [Next]_vars
    PROVE  InitializePool \/ (Forget /\ UNCHANGED docker) \/ UNCHANGED poolVars \/ Boot
           \/ (\E k \in Ids : Die(k))
  BY DEF Next, Launch, Initialize, Serve, Request, Work, Signal, Stop, ShutdownTimeout, Crash,
         ContainerDies, End, vars

LEMMA PoolStep ==
    ASSUME PoolInv, [Next]_vars
    PROVE  PoolInv' /\ (Existing' \subseteq Existing \/ Cardinality(Existing) < MaxWorkers)
<1>1. CASE List \/ ListFails
  BY <1>1, ListKeeps, ForgetKeeps DEF List, ListFails, Existing
<1>2. CASE Create
  BY <1>2, CreateKeeps
<1>3. CASE Start \/ Ready
  BY <1>3, StartKeeps, ReadyKeeps
<1>4. CASE Remove
  BY <1>4, RemoveKeeps
<1>5. CASE (Forget /\ UNCHANGED docker) \/ UNCHANGED poolVars \/ Boot \/ (\E k \in Ids : Die(k))
  BY <1>5, ForgetKeeps, RestKeeps
<1>6. QED
  BY <1>1, <1>2, <1>3, <1>4, <1>5, PoolSteps DEF InitializePool

LEMMA PoolInvAlways == Spec => []PoolInv
<1>1. Init => PoolInv
  BY PoolInvInit DEF Init
<1>2. PoolInv /\ [Next]_vars => PoolInv'
  BY PoolStep
<1>3. QED
  BY <1>1, <1>2, PTL DEF Spec

\* A start without failures ends with MaxWorkers containers, all registered, whatever
\* earlier lives left behind.
THEOREM StartsClean == Spec => []CleanStart
<1>1. PoolInv => CleanStart
  BY DEF PoolInv
<1>2. QED
  BY <1>1, PoolInvAlways, PTL

\* Over any number of lives, a container is made only while there are fewer than MaxWorkers.
THEOREM NeverPilesUp == Spec => NoPileUp
<1>1. PoolInv /\ [Next]_vars =>
          [Cardinality(Existing') > Cardinality(Existing) => Cardinality(Existing) < MaxWorkers]_poolVars
  <2> SUFFICES ASSUME PoolInv, [Next]_vars, Cardinality(Existing') > Cardinality(Existing)
               PROVE  Cardinality(Existing) < MaxWorkers
    OBVIOUS
  <2>1. CASE Existing' \subseteq Existing
    <3>1. Existing \in SUBSET Ids /\ Existing' \in SUBSET Existing
      BY <2>1 DEF Existing
    <3>2. Cardinality(Existing') <= Cardinality(Existing)
      BY <3>1, Counted, FS_Subset
    <3>3. Cardinality(Existing) \in Nat /\ Cardinality(Existing') \in Nat
      BY <3>1, Counted
    <3>4. QED
      BY <3>2, <3>3
  <2>2. QED
    BY <2>1, PoolStep
<1>2. QED
  BY <1>1, PoolInvAlways, PTL DEF Spec, NoPileUp

-------------------------------------------------------------------------------
(* Types.  No room gets more managers than the bound, because creations that   *)
(* are under way are counted with those that are done.                         *)

Bounded == /\ IsFiniteSet(streams)
           /\ rooms[NewRoom] + creating <= MaxManagers

RegTyped == RegistryTypeOK /\ Bounded

Lives == /\ process \in {"down", "starting", "serving", "draining", "stopped"}
         /\ attempt \in 0 .. MaxAttempts

TypeInv == PoolInv /\ RoomInv /\ RegTyped /\ Lives

LEMMA RegistryFacts ==
    /\ DevRooms \subseteq RoomIds /\ NewRoom \in RoomIds
    /\ MaxManagers \in Nat \ {0} /\ MaxDeletes \in Nat /\ MaxStreams \in Nat
    /\ 0 \in 0 .. MaxManagers /\ 1 \in 0 .. MaxManagers /\ 0 \in 0 .. MaxDeletes
  BY RegistryAssumption DEF RegistryAssumption

LEMMA NoStreams == IsFiniteSet({}) /\ Cardinality({}) <= MaxStreams
  BY RegistryFacts, FS_EmptySet

LEMMA TypeInvInit == Init => TypeInv
<1> SUFFICES ASSUME Init PROVE TypeInv
  OBVIOUS
<1>1. PoolInv /\ RoomInv
  BY PoolInvInit, RoomInvInit DEF Init
<1>2. RegTyped
  BY RegistryFacts, NoStreams DEF Init, RegistryInit, RegTyped, RegistryTypeOK, Bounded
<1>3. Lives
  BY ServerAssumption DEF ServerAssumption, Init, Lives
<1>4. QED
  BY <1>1, <1>2, <1>3 DEF TypeInv

LEMMA RegForget == ASSUME RegTyped, ForgetRooms PROVE RegTyped'
  BY RegistryFacts, NoStreams DEF ForgetRooms, RegTyped, RegistryTypeOK, Bounded

LEMMA RegServe == ASSUME RegTyped, creating = 0, streams = {}, NewGlobalRooms PROVE RegTyped'
<1>1. /\ rooms' = [r \in RoomIds |-> IF r \in DevRooms THEN 1 ELSE 0]
      /\ UNCHANGED <<creating, deletes, streams, born, roomRows, occupied>>
  BY DEF NewGlobalRooms
<1>2. rooms' \in [RoomIds -> 0 .. MaxManagers] /\ rooms'[NewRoom] \in 0 .. MaxManagers
  BY <1>1, RegistryFacts
<1>3. rooms'[NewRoom] + creating' <= MaxManagers
  BY <1>1, <1>2, RegistryFacts
<1>4. QED
  BY <1>1, <1>2, <1>3 DEF RegTyped, RegistryTypeOK, Bounded

LEMMA RegInsert == ASSUME RegTyped, Insert PROVE RegTyped'
<1>1. /\ rooms[NewRoom] + creating < MaxManagers /\ creating' = creating + 1
      /\ roomRows' = roomRows \cup {NewRoom} /\ born' = born \cup {NewRoom}
      /\ UNCHANGED <<rooms, deletes, streams, occupied>>
  BY DEF Insert
<1>2. rooms[NewRoom] \in Nat /\ creating \in Nat
  BY RegistryFacts DEF RegTyped, RegistryTypeOK
<1>3. creating' \in 0 .. MaxManagers /\ rooms[NewRoom] + creating' <= MaxManagers
  BY <1>1, <1>2, RegistryFacts
<1>4. QED
  BY <1>1, <1>3, RegistryFacts DEF RegTyped, RegistryTypeOK, Bounded

LEMMA RegRegister == ASSUME RegTyped, Register PROVE RegTyped'
<1>1. /\ creating > 0 /\ creating' = creating - 1 /\ rooms' = [rooms EXCEPT ![NewRoom] = @ + 1]
      /\ UNCHANGED <<deletes, streams, born, roomRows, occupied>>
  BY DEF Register
<1>2. /\ rooms \in [RoomIds -> 0 .. MaxManagers] /\ rooms[NewRoom] \in Nat /\ creating \in Nat
      /\ rooms[NewRoom] + creating <= MaxManagers
  BY RegistryFacts DEF RegTyped, RegistryTypeOK, Bounded
<1>3. rooms[NewRoom] + 1 \in 0 .. MaxManagers /\ creating' \in 0 .. MaxManagers
  BY <1>1, <1>2, RegistryFacts
<1>4. rooms'[NewRoom] = rooms[NewRoom] + 1 /\ rooms' \in [RoomIds -> 0 .. MaxManagers]
  BY <1>1, <1>2, <1>3, RegistryFacts
<1>5. rooms'[NewRoom] + creating' <= MaxManagers
  BY <1>1, <1>2, <1>4, RegistryFacts
<1>6. QED
  BY <1>1, <1>3, <1>4, <1>5 DEF RegTyped, RegistryTypeOK, Bounded

LEMMA RegDelete == ASSUME RegTyped, NEW r \in RoomIds, Delete(r) PROVE RegTyped'
<1>1. deletes[r] + 1 \in 0 .. MaxDeletes
  BY RegistryFacts DEF RegTyped, RegistryTypeOK, Delete
<1>2. deletes' \in [RoomIds -> 0 .. MaxDeletes]
  BY <1>1 DEF RegTyped, RegistryTypeOK, Delete
<1>3. QED
  BY <1>2 DEF Delete, RegTyped, RegistryTypeOK, Bounded

LEMMA RegOpen == ASSUME RegTyped, NEW r \in RoomIds, Open(r) PROVE RegTyped'
<1> DEFINE new == [room |-> r, manager |-> rooms[r],
                   settled |-> r \in roomRows /\ (r = NewRoom => creating = 0)]
<1>1. /\ streams' = streams \cup {new} /\ Cardinality(streams) < MaxStreams
      /\ UNCHANGED <<rooms, creating, deletes, born, roomRows, occupied>> /\ rooms[r] # 0
  BY DEF Open
<1>2. rooms[r] \in 1 .. MaxManagers
  BY <1>1, RegistryFacts DEF RegTyped, RegistryTypeOK
<1>3. new \in Stream
  BY <1>2 DEF Stream
<1> HIDE DEF new
<1>4. /\ IsFiniteSet(streams') /\ Cardinality(streams') <= Cardinality(streams) + 1
      /\ Cardinality(streams) \in Nat
  <2>1. IsFiniteSet(streams)
    BY DEF RegTyped, Bounded
  <2>2. Cardinality(streams) \in Nat
    BY <2>1, FS_CardinalityType
  <2>3. /\ IsFiniteSet(streams \cup {new})
        /\ \/ Cardinality(streams \cup {new}) = Cardinality(streams)
           \/ Cardinality(streams \cup {new}) = Cardinality(streams) + 1
    BY <2>1, FS_AddElement
  <2>4. QED
    BY <1>1, <2>2, <2>3
<1>5. Cardinality(streams') <= MaxStreams
  <2>1. Cardinality(streams') \in Nat
    BY <1>4, FS_CardinalityType
  <2>2. QED
    BY <1>1, <1>4, <2>1, RegistryFacts
<1>6. streams' \subseteq Stream
  BY <1>1, <1>3 DEF RegTyped, RegistryTypeOK
<1>7. QED
  BY <1>1, <1>4, <1>5, <1>6 DEF RegTyped, RegistryTypeOK, Bounded

LEMMA RegClose == ASSUME RegTyped, Close PROVE RegTyped'
<1>1. /\ streams' \in SUBSET streams
      /\ UNCHANGED <<rooms, creating, deletes, born, roomRows, occupied>>
  BY DEF Close
<1>2. IsFiniteSet(streams') /\ Cardinality(streams') <= Cardinality(streams)
  BY <1>1, FS_Subset DEF RegTyped, Bounded
<1>3. Cardinality(streams) \in Nat /\ Cardinality(streams') \in Nat
  BY <1>2, FS_CardinalityType DEF RegTyped, Bounded
<1>4. Cardinality(streams') <= MaxStreams
  BY <1>2, <1>3, RegistryFacts DEF RegTyped, RegistryTypeOK
<1>5. QED
  BY <1>1, <1>2, <1>4 DEF RegTyped, RegistryTypeOK, Bounded

\* Two streams of a deleted room may become one, none become two.
LEMMA RegDeleteRow == ASSUME RegTyped, NEW r \in RoomIds, DeleteRow(r) PROVE RegTyped'
<1>1. deletes' \in [RoomIds -> 0 .. MaxDeletes]
  <2>1. deletes[r] - 1 \in 0 .. MaxDeletes
    BY RegistryFacts DEF RegTyped, RegistryTypeOK, DeleteRow
  <2>2. QED
    BY <2>1 DEF RegTyped, RegistryTypeOK, DeleteRow
<1>2. CASE r \in occupied
  BY <1>1, <1>2 DEF DeleteRow, RegTyped, RegistryTypeOK, Bounded
<1>3. CASE r \notin occupied
  <2> DEFINE f == [s \in streams |-> IF s.room = r THEN [s EXCEPT !.settled = FALSE] ELSE s]
  <2>1. /\ roomRows' = roomRows \ {r} /\ born' = born \ {r} /\ UNCHANGED <<rooms, creating, occupied>>
        /\ streams' = {IF s.room = r THEN [s EXCEPT !.settled = FALSE] ELSE s : s \in streams}
    BY <1>3 DEF DeleteRow, RemoveRow
  <2>2. streams' = {f[s] : s \in streams}
    BY <2>1
  <2>3. f \in [streams -> streams'] /\ \A t \in streams' : \E s \in streams : f[s] = t
    BY <2>1
  <2> HIDE DEF f
  <2>4. f \in Surjection(streams, streams')
    BY <2>3 DEF Surjection
  <2>5. IsFiniteSet(streams') /\ Cardinality(streams') <= Cardinality(streams)
    BY <2>4, FS_Surjection DEF RegTyped, Bounded
  <2>6. Cardinality(streams) \in Nat /\ Cardinality(streams') \in Nat
    BY <2>5, FS_CardinalityType DEF RegTyped, Bounded
  <2>7. Cardinality(streams') <= MaxStreams
    BY <2>5, <2>6, RegistryFacts DEF RegTyped, RegistryTypeOK
  <2>8. streams' \subseteq Stream
    <3>1. \A s \in streams : s \in Stream /\ [s EXCEPT !.settled = FALSE] \in Stream
      BY DEF RegTyped, RegistryTypeOK, Stream
    <3>2. QED
      BY <2>1, <3>1
  <2>9. QED
    BY <1>1, <1>3, <2>1, <2>5, <2>7, <2>8 DEF RegTyped, RegistryTypeOK, Bounded
<1>4. QED
  BY <1>2, <1>3

LEMMA TypeInvStep == TypeInv /\ [Next]_vars => TypeInv'
<1> SUFFICES ASSUME TypeInv, [Next]_vars PROVE TypeInv'
  OBVIOUS
<1>i. PoolInv /\ RoomInv /\ RegTyped /\ Lives
  BY DEF TypeInv
<1>1. PoolInv' /\ RoomInv'
  BY <1>i, PoolStep, RoomInvStep
<1>2. Lives'
  BY <1>i, ServerAssumption
     DEF ServerAssumption, Lives, Next, Launch, Initialize, Serve, Request, Work, Signal, Stop,
         ShutdownTimeout, Crash, ContainerDies, End, vars
<1>3. RegTyped'
  <2>1. CASE UNCHANGED registryVars
    BY <1>i, <2>1 DEF registryVars, memory, RegTyped, RegistryTypeOK, Bounded
  <2>2. CASE ForgetRooms
    BY <1>i, <2>2, RegForget
  <2>3. CASE Serve
    <3>1. creating = 0 /\ streams = {}
      BY <1>i, <2>3 DEF RoomInv, Blank, Up, Serve
    <3>2. QED
      BY <1>i, <2>3, <3>1, RegServe DEF Serve
  <2>4. CASE Request
    BY <1>i, <2>4, RegInsert, RegDelete, RegOpen DEF Request
  <2>5. CASE Register \/ Close
    BY <1>i, <2>5, RegRegister, RegClose
  <2>6. CASE \E r \in RoomIds : DeleteRow(r)
    BY <1>i, <2>6, RegDeleteRow
  <2>7. CASE \E r \in RoomIds : Occupy(r) \/ Vacate(r)
    BY <1>i, <2>7 DEF Occupy, Vacate, memory, RegTyped, RegistryTypeOK, Bounded
  <2>8. QED
    BY <2>1, <2>2, <2>3, <2>4, <2>5, <2>6, <2>7
       DEF Next, Launch, Initialize, Work, Signal, Stop, ShutdownTimeout, Crash, ContainerDies, End, vars
<1>4. QED
  BY <1>1, <1>2, <1>3 DEF TypeInv

\* What Docker, the tables and the process hold has the declared types over any number
\* of lives, and within the bounds.
THEOREM ServerTypeCorrect == Spec => []ServerTypeOK
<1>1. TypeInv => ServerTypeOK
  BY DEF TypeInv, PoolInv, RegTyped, Lives, ServerTypeOK
<1>2. QED
  BY <1>1, TypeInvInit, TypeInvStep, PTL DEF Spec

-------------------------------------------------------------------------------
(* The rows of earlier lives.  NewGlobalRooms makes managers for the rooms of  *)
(* development and not for the rows of the table, so a row that was inserted   *)
(* by an earlier life has none.                                                *)

\* no manager, hence no stream and no deletion; and for the id of new rooms, no creation
OutOfReach == \A r \in Orphans : rooms[r] = 0 /\ deletes[r] = 0 /\ (r = NewRoom => creating = 0)

LEMMA OrphanStep ==
    ASSUME TypeInv, OutOfReach, [Next]_vars PROVE OutOfReach' /\ StayBehind
<1>t. /\ rooms \in [RoomIds -> 0 .. MaxManagers] /\ deletes \in [RoomIds -> 0 .. MaxDeletes]
      /\ roomRows \subseteq RoomIds /\ born \subseteq roomRows /\ creating \in Nat
      /\ NewRoom \in RoomIds
  BY RegistryFacts DEF TypeInv, RegTyped, RegistryTypeOK
<1>o. \A r \in RoomIds : r \in Orphans => rooms[r] = 0 /\ deletes[r] = 0 /\ (r = NewRoom => creating = 0)
  BY DEF OutOfReach
<1>1. CASE UNCHANGED registryVars
  BY <1>1, <1>o, <1>t DEF registryVars, memory, Orphans, OutOfReach, StayBehind
<1>2. CASE ForgetRooms
  BY <1>2, <1>t DEF ForgetRooms, Orphans, OutOfReach, StayBehind
<1>3. CASE NewGlobalRooms
  BY <1>3, <1>o, <1>t DEF NewGlobalRooms, Orphans, OutOfReach, StayBehind
<1>4. CASE Insert
  BY <1>4, <1>o, <1>t DEF Insert, Orphans, OutOfReach, StayBehind
<1>5. CASE Register
  <2>1. NewRoom \notin Orphans /\ UNCHANGED <<deletes, born, roomRows, occupied>>
    BY <1>5, <1>o, <1>t DEF Register
  <2>2. \A r \in RoomIds : r # NewRoom => rooms'[r] = rooms[r]
    BY <1>5, <1>t DEF Register
  <2>3. Orphans' = Orphans
    BY <2>1 DEF Orphans
  <2>4. QED
    BY <1>o, <1>t, <2>1, <2>2, <2>3 DEF Orphans, OutOfReach, StayBehind
<1>6. ASSUME NEW r \in RoomIds, Delete(r) PROVE OutOfReach' /\ StayBehind
  <2>1. r \notin Orphans /\ UNCHANGED <<rooms, creating, born, roomRows, occupied>>
    BY <1>6, <1>o DEF Delete
  <2>2. \A q \in RoomIds : q # r => deletes'[q] = deletes[q]
    BY <1>6, <1>t DEF Delete
  <2>3. Orphans' = Orphans
    BY <2>1 DEF Orphans
  <2>4. QED
    BY <1>o, <1>t, <2>1, <2>2, <2>3 DEF Orphans, OutOfReach, StayBehind
<1>7. ASSUME NEW r \in RoomIds, DeleteRow(r) PROVE OutOfReach' /\ StayBehind
  <2>1. r \notin Orphans /\ UNCHANGED <<rooms, creating, occupied>>
    BY <1>7, <1>o, <1>t DEF DeleteRow
  <2>2. \A q \in RoomIds : q # r => deletes'[q] = deletes[q]
    BY <1>7, <1>t DEF DeleteRow
  <2>3. \/ roomRows' = roomRows /\ born' = born
        \/ roomRows' = roomRows \ {r} /\ born' = born \ {r}
    BY <1>7 DEF DeleteRow, RemoveRow
  <2>4. Orphans' = Orphans
    BY <2>1, <2>3 DEF Orphans
  <2>5. QED
    BY <1>o, <1>t, <2>1, <2>2, <2>4 DEF Orphans, OutOfReach, StayBehind
<1>8. CASE Close \/ \E r \in RoomIds : Open(r)
  BY <1>8, <1>o, <1>t DEF Close, Open, Orphans, OutOfReach, StayBehind
<1>9. ASSUME NEW r \in RoomIds, Occupy(r) \/ Vacate(r) PROVE OutOfReach' /\ StayBehind
  <2>1. r \notin Orphans /\ UNCHANGED <<memory, roomRows>>
    BY <1>9, <1>o DEF Occupy, Vacate
  <2>2. \A q \in RoomIds : q # r => (q \in occupied <=> q \in occupied')
    BY <1>9 DEF Occupy, Vacate
  <2>3. Orphans' = Orphans
    BY <2>1 DEF memory, Orphans
  <2>4. QED
    BY <1>o, <1>t, <2>1, <2>2, <2>3 DEF memory, Orphans, OutOfReach, StayBehind
<1>10. QED
  BY <1>1, <1>2, <1>3, <1>4, <1>5, <1>6, <1>7, <1>8, <1>9
     DEF Next, Launch, Initialize, Serve, Request, Work, Signal, Stop, ShutdownTimeout, Crash,
         ContainerDies, End, vars

\* A room whose row is from an earlier life is out of reach for good, over any number of
\* lives (room_manager.go:46-76): it has no manager and gets none, so it is neither
\* heard nor deleted, its members stay in it or out of it as they were, and while it has the
\* id of new rooms no room is made any more.
THEOREM OrphanedForGood == Spec => []OutOfReach /\ OrphanedRoomsStay
<1>1. Init => OutOfReach
  BY DEF Init, RegistryInit, Orphans, OutOfReach
<1>2. TypeInv /\ OutOfReach /\ [Next]_vars => OutOfReach' /\ StayBehind
  BY OrphanStep
<1>3. Spec => []TypeInv
  BY TypeInvInit, TypeInvStep, PTL DEF Spec
<1>4. QED
  BY <1>1, <1>2, <1>3, PTL DEF Spec, OrphanedRoomsStay

-------------------------------------------------------------------------------
(* What a container that does not run costs.  Run server_exited shows that *)
(* a start without failures may leave fewer than MaxWorkers containers     *)
(* that can take a job; here is by how many.                               *)

\* containers that exist and do not run: they stopped, or never started
Stopped == {k \in Ids : docker[k] \in {"created", "exited"}}

WorkersShort == stage = "ready" /\ ~failed => Cardinality(Usable) = MaxWorkers - Cardinality(Stopped)

\* What is registered is in the state that Docker had it in, and nothing is registered
\* between two lives, when containers stop.
AsListed ==
    /\ \A k \in Ids : /\ containers[k] = "idle" => docker[k] = "running"
                      /\ containers[k] = "error" => docker[k] \in {"created", "exited"}
    /\ process \in {"down", "stopped"} => \A k \in Ids : containers[k] = None

LEMMA InitializeListed ==
    ASSUME PoolInv, AsListed, Initialize PROVE AsListed'
<1>t. docker \in [Ids -> {"absent", "created", "running", "exited"}]
      /\ containers \in [Ids -> {"idle", "error", None}]
  BY DEF PoolInv, PoolTypeOK
<1>d. None \notin {"idle", "error"}
  BY PoolFacts
<1>p. process' = IF stage' = "down" THEN "down" ELSE "starting"
  BY DEF Initialize
<1>1. CASE List
  BY <1>1, <1>t, <1>d, <1>p DEF List, AsListed
<1>2. CASE ListFails
  BY <1>2, <1>d DEF ListFails, Forget, AsListed
<1>3. CASE Create
  <2>1. containers' = containers /\ Registered = Existing /\ stage' # "down"
    BY <1>3 DEF Create, GiveUpBalancing, PoolInv, Balancing, Unregistered
  <2>2. \A k \in Ids : docker[k] # "absent" => docker'[k] = docker[k]
    BY <1>3, <1>t DEF Create, Existing
  <2>3. \A k \in Ids : containers[k] # None => docker'[k] = docker[k]
    BY <2>1, <2>2 DEF Registered, Existing
  <2>4. QED
    BY <2>1, <2>3, <1>d, <1>p DEF AsListed
<1>4. CASE Start
  <2>1. created \in Ids /\ stage' # "down"
    BY <1>4 DEF Start, GiveUpBalancing, PoolInv, PoolTypeOK
  <2>2. \A k \in Ids : \/ docker'[k] = docker[k] /\ containers'[k] = containers[k]
                       \/ docker'[k] = "running" /\ containers'[k] = "idle"
    BY <1>4, <1>t, <2>1 DEF Start
  <2>3. QED
    BY <2>1, <2>2, <1>p DEF AsListed
<1>5. CASE Remove
  <2>1. stage' # "down"
    BY <1>5 DEF Remove, GiveUpBalancing
  <2>2. \A k \in Ids : \/ docker'[k] = docker[k] /\ containers'[k] = containers[k]
                       \/ containers'[k] = None
    BY <1>5, <1>t DEF Remove, Registered
  <2>3. QED
    BY <2>1, <2>2, <1>d, <1>p DEF AsListed
<1>6. CASE Ready
  BY <1>6, <1>p DEF Ready, AsListed
<1>7. QED
  BY <1>1, <1>2, <1>3, <1>4, <1>5, <1>6 DEF Initialize, InitializePool

LEMMA ListedStep == PoolInv /\ AsListed /\ [Next]_vars => AsListed'
<1> SUFFICES ASSUME PoolInv, AsListed, [Next]_vars PROVE AsListed'
  OBVIOUS
<1>1. CASE Launch
  BY <1>1 DEF Launch, Boot, AsListed
<1>2. CASE Initialize
  BY <1>2, InitializeListed
<1>3. CASE Serve \/ Request \/ Work \/ Signal
  BY <1>3 DEF Serve, Request, Work, Signal, poolVars, AsListed
<1>4. CASE Stop \/ ShutdownTimeout \/ Crash
  BY <1>4, PoolFacts DEF Stop, ShutdownTimeout, Crash, End, Forget, AsListed
<1>5. CASE ContainerDies
  BY <1>5, PoolFacts DEF ContainerDies, Die, AsListed
<1>6. CASE UNCHANGED vars
  BY <1>6 DEF vars, poolVars, AsListed
<1>7. QED
  BY <1>1, <1>2, <1>3, <1>4, <1>5, <1>6 DEF Next

\* After a start without failures the judge has as many containers that can take a job as
\* workers, less one for each container that does not run: InitializePool counts it as a
\* worker, and nothing starts it.  Only such a container keeps a worker from its own.
THEOREM StoppedCostWorkers == Spec => []WorkersShort /\ [](Stopped = {} => AllCanRun)
<1>1. Init => AsListed
  BY PoolFacts DEF Init, PoolInit, AsListed
<1>2. PoolInv /\ AsListed => WorkersShort
  <2> SUFFICES ASSUME PoolInv, AsListed, stage = "ready", ~failed
               PROVE  Cardinality(Usable) = MaxWorkers - Cardinality(Stopped)
    BY DEF WorkersShort
  <2>1. Cardinality(Registered) = MaxWorkers /\ Registered = Existing
    BY DEF PoolInv, CleanStart
  <2>2. Usable \in SUBSET Ids /\ Stopped \in SUBSET Ids
    BY DEF Usable, Stopped
  <2>3. Usable \cup Stopped = Registered /\ Usable \cap Stopped = {}
    BY <2>1, PoolFacts DEF PoolInv, PoolTypeOK, AsListed, Usable, Stopped, Registered, Existing
  <2>4. Cardinality(Usable \cup Stopped) = Cardinality(Usable) + Cardinality(Stopped)
    <3>1. /\ IsFiniteSet(Usable) /\ Cardinality(Usable) \in Nat
          /\ IsFiniteSet(Stopped) /\ Cardinality(Stopped) \in Nat
      BY <2>2, Counted
    <3>2. Cardinality(Usable \cup Stopped)
            = Cardinality(Usable) + Cardinality(Stopped) - Cardinality(Usable \cap Stopped)
      BY <3>1, FS_Union
    <3>3. Cardinality(Usable \cap Stopped) = 0
      BY <2>3, FS_EmptySet
    <3>4. QED
      BY <3>1, <3>2, <3>3
  <2>5. Cardinality(Usable) \in Nat /\ Cardinality(Stopped) \in Nat
    BY <2>2, Counted
  <2>6. Cardinality(Usable) + Cardinality(Stopped) = MaxWorkers
    BY <2>1, <2>3, <2>4
  <2>7. QED
    BY <2>5, <2>6
<1>3. PoolInv /\ WorkersShort => (Stopped = {} => AllCanRun)
  <2> SUFFICES ASSUME WorkersShort, Stopped = {}, stage = "ready", ~failed
               PROVE  Cardinality(Usable) = MaxWorkers
    BY DEF AllCanRun
  <2>1. Cardinality(Stopped) = 0
    BY FS_EmptySet
  <2>2. QED
    BY <2>1, PoolFacts DEF WorkersShort
<1>4. QED
  BY <1>1, <1>2, <1>3, ListedStep, PoolInvAlways, PTL DEF Spec

================================================================================
