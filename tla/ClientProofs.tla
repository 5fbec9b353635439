------------------------------ MODULE ClientProofs ------------------------------
(***************************************************************************)
(* Proofs about module Client, for any rooms and any number of submissions *)
(* and of timers.  The invariants are inductive with the types: each           *)
(* callback that takes away what a waiting page waits for either ends the  *)
(* wait or leaves something else pending.                                  *)
(***************************************************************************)
EXTENDS Client, FiniteSetTheorems, TLAPS

\* The page's variables keep their types in each of its callbacks.
LEMMA TypeStep == TypeOK /\ [Next]_vars => TypeOK'
  <1> SUFFICES ASSUME TypeOK, [Next]_vars PROVE TypeOK'
    OBVIOUS
  <1> USE ClientAssumption DEF ClientAssumption, TypeOK, page, button, banner, shown, timers,
                                server, PostStages
  <1>1. ASSUME NEW room \in Rooms \cup {None}, Select(room) PROVE TypeOK'
    BY <1>1 DEF Select
  <1>2. CASE Edit
    BY <1>2 DEF Edit, RemoveStatus
  <1>18. CASE SubmitNothing
    BY <1>18 DEF SubmitNothing
  <1>3. CASE Leave
    BY <1>3 DEF Leave
  <1>4. CASE Left
    BY <1>4 DEF Left
  <1>5. ASSUME NEW n \in Submissions, Submit(n) PROVE TypeOK'
    BY <1>5 DEF Submit
  <1>6. ASSUME NEW n \in Submissions, Take(n) PROVE TypeOK'
    BY <1>6 DEF Take
  <1>16. ASSUME NEW n \in Submissions, Refuse(n) PROVE TypeOK'
    BY <1>16 DEF Refuse
  <1>7. ASSUME NEW n \in Submissions, Submitted(n) PROVE TypeOK'
    BY <1>7 DEF Submitted
  <1>8. ASSUME NEW n \in Submissions, Failed(n) PROVE TypeOK'
    BY <1>8 DEF Failed, ClearTimeout, StopExecuting, RemoveStatus
  <1>9. ASSUME NEW n \in Submissions, Timeout(n) PROVE TypeOK'
    BY <1>9 DEF Timeout
  <1>10. ASSUME NEW n \in Submissions, Reset(n) PROVE TypeOK'
    BY <1>10 DEF Reset, StopExecuting, RemoveStatus
  <1>11. CASE Correct
    <2>1. clears' \in 0 .. MaxClears
      BY <1>11, SMT DEF Correct
    <2>2. judging' \subseteq Submissions /\ watches' \subseteq Submissions
      BY <1>11 DEF Correct, Verdict, ClearTimeout
    <2>3. UNCHANGED <<currentRoomId, source, banners, executionStatus, timeoutId, errorLog, post,
                      resets, leaving, handling>>
      BY <1>11 DEF Correct
    <2>4. isExecuting' = FALSE /\ enabled' = TRUE
      BY <1>11 DEF Correct, StopExecuting
    <2> QED
      BY <2>1, <2>2, <2>3, <2>4
  <1>12. CASE Wrong
    BY <1>12 DEF Wrong, Verdict, ClearTimeout, StopExecuting, RemoveStatus
  <1>17. CASE WrongUnreadable
    BY <1>17 DEF WrongUnreadable, Verdict, ClearTimeout, StopExecuting
  <1>13. CASE RoomDeleted
    BY <1>13 DEF RoomDeleted
  <1>14. CASE Clear
    <2>1. clears' \in 0 .. MaxClears
      BY <1>14, SMT DEF Clear
    <2>2. /\ executionStatus' = None /\ timeoutId' = None
          /\ banners' = banners \ {executionStatus}
      BY <1>14 DEF Clear, RemoveStatus
    <2>3. UNCHANGED <<currentRoomId, source, isExecuting, enabled, errorLog, post, watches, resets,
                      leaving, handling, judging>>
      BY <1>14 DEF Clear
    <2> QED
      BY <2>1, <2>2, <2>3
  <1>15. CASE UNCHANGED vars
    BY <1>15 DEF vars
  <1> QED
    BY <1>1, <1>2, <1>3, <1>4, <1>5, <1>6, <1>7, <1>8, <1>9, <1>10, <1>11, <1>12,
       <1>13, <1>14, <1>15, <1>16, <1>17, <1>18 DEF Next

\* The variables of the page keep their types, for every number of submissions.
THEOREM TypeCorrect == Spec => []TypeOK
  <1>1. Init => TypeOK
    <2> SUFFICES ASSUME Init PROVE TypeOK
      OBVIOUS
    <2>1. clears \in 0 .. MaxClears
      BY ClientAssumption, SMT DEF ClientAssumption, Init
    <2>2. post \in [Submissions -> PostStages]
      BY DEF Init, PostStages
    <2>3. isExecuting \in BOOLEAN /\ enabled \in BOOLEAN
      BY DEF Init
    <2> QED
      BY <2>1, <2>2, <2>3 DEF Init, TypeOK
  <1> QED
    BY <1>1, TypeStep, PTL DEF Spec

\* While the page is executing, a request or a timer is pending that will end it:
\* the callbacks that clear timers, and those that remove the banner with a timer's
\* id, never leave the button disabled with nothing to wait for.
THEOREM Armed == Spec => []AlwaysArmed
  <1>1. Init => AlwaysArmed
    BY DEF Init, AlwaysArmed
  <1>2. TypeOK /\ AlwaysArmed /\ [Next]_vars => AlwaysArmed'
    <2> SUFFICES ASSUME TypeOK, AlwaysArmed, [Next]_vars PROVE AlwaysArmed'
      OBVIOUS
    <2> USE DEF AlwaysArmed, InFlight, page, button, banner, shown, timers, server
    <2>1. ASSUME NEW room \in Rooms \cup {None}, Select(room) PROVE AlwaysArmed'
      BY <2>1 DEF Select
    <2>2. CASE Edit \/ SubmitNothing \/ Leave \/ Left \/ RoomDeleted \/ Clear
      BY <2>2 DEF Edit, SubmitNothing, Leave, Left, RoomDeleted, Clear
    <2>3. ASSUME NEW n \in Submissions, Submit(n) PROVE AlwaysArmed'
      <3>1. post'[n] \in {"sent", "accepted"}
        BY <2>3 DEF Submit, TypeOK
      <3> QED
        BY <3>1
    <2>9. ASSUME NEW n \in Submissions, Take(n) PROVE AlwaysArmed'
      <3>1. \A m \in Submissions : post[m] \in {"sent", "accepted"}
                                   => post'[m] \in {"sent", "accepted"}
        BY <2>9 DEF Take, TypeOK
      <3>2. UNCHANGED <<isExecuting, watches, resets>>
        BY <2>9 DEF Take
      <3> QED
        BY <3>1, <3>2
    <2>10. ASSUME NEW n \in Submissions, Refuse(n) PROVE AlwaysArmed'
      BY <2>10 DEF Refuse
    <2>4. ASSUME NEW n \in Submissions, Submitted(n) PROVE AlwaysArmed'
      <3>1. n \in watches'
        BY <2>4 DEF Submitted
      <3> QED
        BY <3>1
    <2>5. ASSUME NEW n \in Submissions, Timeout(n) PROVE AlwaysArmed'
      <3>1. isExecuting' => n \in resets'
        BY <2>5 DEF Timeout
      <3> QED
        BY <3>1
    <2>6. ASSUME NEW n \in Submissions, Failed(n) \/ Reset(n) PROVE AlwaysArmed'
      BY <2>6 DEF Failed, Reset, StopExecuting
    <2>7. CASE Correct \/ Wrong \/ WrongUnreadable
      BY <2>7 DEF Correct, Wrong, WrongUnreadable, StopExecuting
    <2>8. CASE UNCHANGED vars
      BY <2>8 DEF vars
    <2> QED
      BY <2>1, <2>2, <2>3, <2>4, <2>5, <2>6, <2>7, <2>8, <2>9, <2>10 DEF Next
  <1> QED
    BY <1>1, <1>2, TypeCorrect, PTL DEF Spec

-------------------------------------------------------------------------------
(* The elements that stay on the page. *)

\* An element is on the page only for a submission that was made.
BannersWereMade == \A n \in banners : post[n] # "new"

\* The elements on the page change in three ways: a submission adds one, the one that
\* is referred to is removed, or they stay.
LEMMA BannerStep ==
    TypeOK /\ BannersWereMade /\ [Next]_vars
    => \/ \E n \in Submissions : Submit(n)
       \/ RemoveStatus
       \/ UNCHANGED <<banners, executionStatus>>
  <1> SUFFICES ASSUME TypeOK, [Next]_vars
               PROVE \/ \E n \in Submissions : Submit(n)
                     \/ RemoveStatus
                     \/ UNCHANGED <<banners, executionStatus>>
    OBVIOUS
  <1> USE DEF banner, shown
  <1>1. ASSUME NEW room \in Rooms \cup {None}, Select(room)
        PROVE UNCHANGED <<banners, executionStatus>>
    BY <1>1 DEF Select
  <1>2. ASSUME NEW n \in Submissions, Take(n) \/ Refuse(n) \/ Submitted(n) \/ Timeout(n)
        PROVE UNCHANGED <<banners, executionStatus>>
    BY <1>2 DEF Take, Refuse, Submitted, Timeout
  <1>3. ASSUME NEW n \in Submissions, Failed(n) \/ Reset(n) PROVE RemoveStatus
    BY <1>3 DEF Failed, Reset
  <1>4. CASE SubmitNothing \/ Leave \/ Left \/ RoomDeleted \/ Correct \/ WrongUnreadable
    BY <1>4 DEF SubmitNothing, Leave, Left, RoomDeleted, Correct, WrongUnreadable
  <1>5. CASE Edit \/ Clear \/ Wrong
    BY <1>5 DEF Edit, Clear, Wrong
  <1>6. CASE UNCHANGED vars
    BY <1>6 DEF vars
  <1> QED
    BY <1>1, <1>2, <1>3, <1>4, <1>5, <1>6 DEF Next

\* A request that was made stays so.
LEMMA PostStep ==
    TypeOK /\ [Next]_vars => \A n \in Submissions : post[n] # "new" => post'[n] # "new"
  <1> SUFFICES ASSUME TypeOK, [Next]_vars
               PROVE \A n \in Submissions : post[n] # "new" => post'[n] # "new"
    OBVIOUS
  <1>t. post \in [Submissions -> PostStages]
    BY DEF TypeOK
  <1>1. ASSUME NEW room \in Rooms \cup {None}, Select(room) PROVE post' = post
    BY <1>1 DEF Select
  <1>2. ASSUME NEW m \in Submissions, Submit(m) \/ Take(m) \/ Submitted(m) \/ Failed(m)
        PROVE \A n \in Submissions : post[n] # "new" => post'[n] # "new"
    BY <1>2, <1>t DEF Submit, Take, Submitted, Failed
  <1>3. ASSUME NEW m \in Submissions, Refuse(m) \/ Timeout(m) \/ Reset(m) PROVE post' = post
    BY <1>3 DEF Refuse, Timeout, Reset
  <1>4. CASE \/ Edit \/ SubmitNothing \/ Leave \/ Left
             \/ Correct \/ Wrong \/ WrongUnreadable \/ RoomDeleted \/ Clear
    BY <1>4 DEF Edit, SubmitNothing, Leave, Left, Correct, Wrong, WrongUnreadable, RoomDeleted, Clear
  <1>5. CASE UNCHANGED vars
    BY <1>5 DEF vars
  <1> QED
    BY <1>1, <1>2, <1>3, <1>4, <1>5 DEF Next

LEMMA BannersMade == Spec => []BannersWereMade
  <1>1. Init => BannersWereMade
    BY DEF Init, BannersWereMade
  <1>2. TypeOK /\ BannersWereMade /\ [Next]_vars => BannersWereMade'
    <2> SUFFICES ASSUME TypeOK, BannersWereMade, [Next]_vars PROVE BannersWereMade'
      OBVIOUS
    <2> USE DEF BannersWereMade
    <2>t. banners \subseteq Submissions /\ post \in [Submissions -> PostStages]
      BY DEF TypeOK
    <2>1. ASSUME NEW n \in Submissions, Submit(n) PROVE BannersWereMade'
      <3>1. banners' = banners \cup {n} /\ post'[n] # "new"
        BY <2>1, <2>t DEF Submit
      <3> QED
        BY <3>1, <2>t, PostStep
    <2>2. CASE RemoveStatus \/ UNCHANGED <<banners, executionStatus>>
      BY <2>2, <2>t, PostStep DEF RemoveStatus
    <2> QED
      BY <2>1, <2>2, BannerStep
  <1> QED
    BY <1>1, <1>2, TypeCorrect, PTL DEF Spec

\* How an "Executing code" element stays on the page: the page ends a wait without
\* removing it, or having a timer that will, only on a wrong verdict that it does not
\* understand, and it loses its reference to an element only in a submission made
\* while a success is shown, or while an element was kept so.
THEOREM BannersStay == Spec => BannersStayOnlySo
  <1>1. TypeOK /\ BannersWereMade /\ [Next]_vars =>
          [/\ Stranded' => Stranded \/ errorLog' = "unreadable"
           /\ Orphans' # Orphans => clears > 0 \/ Stranded]_vars
    <2> SUFFICES ASSUME TypeOK, BannersWereMade, [Next]_vars
                 PROVE /\ Stranded' => Stranded \/ errorLog' = "unreadable"
                       /\ Orphans' # Orphans => clears > 0 \/ Stranded
      OBVIOUS
    <2>t. clears \in Nat /\ None \notin Submissions /\ banners \subseteq Submissions
      BY ClientAssumption DEF ClientAssumption, TypeOK, Submissions
    <2>1. Orphans' # Orphans => clears > 0 \/ Stranded
      <3>1. ASSUME NEW n \in Submissions, Submit(n), executionStatus = None
            PROVE Orphans' = Orphans
        <4>1. banners' = banners \cup {n} /\ executionStatus' = n /\ n \notin banners
          BY <3>1 DEF Submit, BannersWereMade
        <4> QED
          BY <3>1, <4>1, <2>t DEF Orphans
      <3>2. ASSUME NEW n \in Submissions, Submit(n), executionStatus # None
            PROVE clears > 0 \/ Stranded
        <4>1. ~isExecuting
          BY <3>2 DEF Submit
        <4> QED
          BY <3>2, <4>1, <2>t DEF Stranded
      <3>3. CASE RemoveStatus \/ UNCHANGED <<banners, executionStatus>>
        BY <3>3, <2>t DEF RemoveStatus, Orphans
      <3> QED
        BY <3>1, <3>2, <3>3, BannerStep
    <2>2. ASSUME Stranded', ~Stranded PROVE errorLog' = "unreadable"
      <3> USE DEF Stranded, page, button, banner, shown, timers
      <3>1. ASSUME NEW room \in Rooms \cup {None}, Select(room) PROVE FALSE
        BY <3>1, <2>2 DEF Select
      <3>2. ASSUME NEW n \in Submissions, Submit(n) PROVE FALSE
        BY <3>2, <2>2 DEF Submit
      <3>3. ASSUME NEW n \in Submissions, Take(n) \/ Refuse(n) \/ Submitted(n) \/ Timeout(n)
            PROVE FALSE
        BY <3>3, <2>2 DEF Take, Refuse, Submitted, Timeout
      <3>4. ASSUME NEW n \in Submissions, Failed(n) \/ Reset(n) PROVE FALSE
        BY <3>4, <2>2 DEF Failed, Reset, RemoveStatus
      <3>5. CASE Edit \/ Clear \/ Wrong
        BY <3>5, <2>2 DEF Edit, Clear, Wrong, RemoveStatus
      <3>6. CASE SubmitNothing \/ Leave \/ Left \/ RoomDeleted
        BY <3>6, <2>2 DEF SubmitNothing, Leave, Left, RoomDeleted
      <3>7. CASE Correct
        <4>1. executionStatus' = executionStatus
          BY <3>7 DEF Correct
        <4>2. executionStatus # None
          BY <4>1, <2>2
        <4>3. clears' = clears + 1
          BY <3>7, <4>2 DEF Correct
        <4> QED
          BY <4>3, <2>2, <2>t
      <3>8. CASE UNCHANGED vars
        BY <3>8, <2>2 DEF vars
      <3>9. CASE WrongUnreadable
        BY <3>9 DEF WrongUnreadable
      <3> QED
        BY <3>1, <3>2, <3>3, <3>4, <3>5, <3>6, <3>7, <3>8, <3>9 DEF Next
    <2> QED
      BY <2>1, <2>2
  <1>2. TypeOK /\ BannersWereMade /\ [Next]_vars =>
          [(Stranded' => Stranded \/ errorLog' = "unreadable")
           /\ (Orphans' # Orphans => clears > 0 \/ Stranded)]_vars
    BY <1>1
  <1> QED
    BY <1>2, TypeCorrect, BannersMade, PTL DEF Spec, BannersStayOnlySo

\* An element that the page lost its reference to stays for as long as the page is open.
THEOREM OrphansForGood == Spec => [][Orphans \subseteq Orphans']_vars
  <1>1. TypeOK /\ BannersWereMade /\ [Next]_vars => [Orphans \subseteq Orphans']_vars
    <2> SUFFICES ASSUME TypeOK, BannersWereMade, [Next]_vars PROVE Orphans \subseteq Orphans'
      OBVIOUS
    <2>1. ASSUME NEW n \in Submissions, Submit(n) PROVE Orphans \subseteq Orphans'
      <3>1. banners' = banners \cup {n} /\ executionStatus' = n /\ n \notin banners
        BY <2>1 DEF Submit, BannersWereMade
      <3> QED
        BY <3>1 DEF Orphans
    <2>2. CASE RemoveStatus \/ UNCHANGED <<banners, executionStatus>>
      <3>1. None \notin Submissions
        BY ClientAssumption DEF ClientAssumption, Submissions
      <3>2. banners \subseteq Submissions
        BY DEF TypeOK
      <3> QED
        BY <2>2, <3>1, <3>2 DEF RemoveStatus, Orphans
    <2> QED
      BY <2>1, <2>2, BannerStep
  <1> QED
    BY <1>1, TypeCorrect, BannersMade, PTL DEF Spec

-------------------------------------------------------------------------------
(* What lets the server have two submissions of a page to judge.  Run      *)
(* client_double shows that it may; here that nothing else than these      *)
(* four lets it:                                                           *)
(*   - an event of someone else's submission, or of the player's other     *)
(*     page, that ends the wait;                                           *)
(*   - a request that fails while its handler has yet to hand it over;     *)
(*   - one whose answer is lost, or late, with a submission to be judged;  *)
(*   - the 5-second timer, which does not ask whether the verdict is due.  *)

\* submissions that the server has to take or to judge
Underway == handling \cup judging

\* None of the four happens in a step.
Undisturbed ==
    /\ isExecuting /\ (Correct \/ Wrong \/ WrongUnreadable) => judging' # judging
    /\ \A n \in Submissions : Failed(n) \/ Reset(n) => Underway = {}

\* The page waits for the one submission underway, which is with a handler or judged.
OneUnderway ==
    /\ Underway # {} => isExecuting
    /\ \A m, n \in Underway : m = n
    /\ handling \cap judging = {}

LEMMA OneUnderwayStep ==
    TypeOK /\ OneUnderway /\ [Next /\ Undisturbed]_vars => OneUnderway'
  <1> SUFFICES ASSUME TypeOK, OneUnderway, [Next /\ Undisturbed]_vars PROVE OneUnderway'
    OBVIOUS
  <1> USE DEF OneUnderway, Underway, page, button, banner, shown, timers, server
  <1>1. ASSUME UNCHANGED <<isExecuting, handling, judging>> PROVE OneUnderway'
    BY <1>1
  <1>2. ASSUME NEW room \in Rooms \cup {None}, Select(room) PROVE OneUnderway'
    BY <1>2, <1>1 DEF Select
  <1>3. CASE Edit \/ SubmitNothing \/ Leave \/ Left \/ RoomDeleted \/ Clear
    BY <1>3, <1>1 DEF Edit, SubmitNothing, Leave, Left, RoomDeleted, Clear
  <1>4. ASSUME NEW n \in Submissions, Submit(n) PROVE OneUnderway'
    <2>1. Underway = {} /\ isExecuting' = TRUE /\ judging' = judging /\ handling' = handling \cup {n}
      BY <1>4 DEF Submit
    <2>2. handling' = {n} /\ judging' = {}
      BY <2>1
    <2> QED
      BY <2>1, <2>2
  <1>5. ASSUME NEW n \in Submissions, Take(n) PROVE OneUnderway'
    <2>1. /\ n \in handling /\ handling' = handling \ {n}
          /\ judging' = judging \cup {n} /\ isExecuting' = isExecuting
      BY <1>5 DEF Take
    <2>2. Underway' = Underway /\ handling' \cap judging' = {}
      BY <2>1
    <2> QED
      BY <2>1, <2>2
  <1>6. ASSUME NEW n \in Submissions, Refuse(n) PROVE OneUnderway'
    <2>1. handling' = handling \ {n} /\ judging' = judging /\ isExecuting' = isExecuting
      BY <1>6 DEF Refuse
    <2> QED
      BY <2>1
  <1>7. ASSUME NEW n \in Submissions, Submitted(n) \/ Timeout(n) PROVE OneUnderway'
    BY <1>7, <1>1 DEF Submitted, Timeout
  <1>8. ASSUME NEW n \in Submissions, Failed(n) \/ Reset(n), Undisturbed PROVE OneUnderway'
    <2>1. Underway = {}
      BY <1>8 DEF Undisturbed
    <2>2. handling' = handling /\ judging' = judging
      BY <1>8 DEF Failed, Reset
    <2> QED
      BY <2>1, <2>2
  <1>10. ASSUME Correct \/ Wrong \/ WrongUnreadable, Undisturbed PROVE OneUnderway'
    <2>1. /\ handling' = handling
          /\ judging' = judging \/ \E n \in judging : judging' = judging \ {n}
      BY <1>10 DEF Correct, Wrong, WrongUnreadable, Verdict
    <2>2. CASE judging' = judging
      <3>1. ~isExecuting /\ Underway = {}
        BY <1>10, <2>2 DEF Undisturbed
      <3> QED
        BY <2>1, <2>2, <3>1
    <2>3. ASSUME NEW n \in judging, judging' = judging \ {n} PROVE OneUnderway'
      <3>1. judging = {n} /\ handling = {}
        OBVIOUS
      <3>2. handling' = {} /\ judging' = {}
        BY <2>1, <2>3, <3>1
      <3> QED
        BY <3>2
    <2> QED
      BY <2>1, <2>2, <2>3
  <1>11. CASE UNCHANGED vars
    BY <1>11, <1>1 DEF vars
  <1> QED
    BY <1>2, <1>3, <1>4, <1>5, <1>6, <1>7, <1>8, <1>10, <1>11 DEF Next

\* A page whose waits end with its own verdicts, and whose requests fail and 5-second
\* timers fire only with nothing for the server to take or to judge, never gives it
\* two submissions to judge: the guard of submitSolution suffices then, whatever rooms
\* are selected, left and deleted meanwhile.
THEOREM OneAtATimeUndisturbed ==
    Spec /\ [][Undisturbed]_vars => []OneSubmissionAtATime
  <1>1. Init => OneUnderway
    BY DEF Init, OneUnderway, Underway
  <1>2. OneUnderway => OneSubmissionAtATime
    <2> SUFFICES ASSUME OneUnderway PROVE OneSubmissionAtATime
      OBVIOUS
    <2>1. CASE judging = {}
      BY <2>1, FS_EmptySet, SMT DEF OneSubmissionAtATime
    <2>2. ASSUME NEW n \in judging PROVE OneSubmissionAtATime
      <3>1. judging = {n}
        BY DEF OneUnderway, Underway
      <3>2. Cardinality(judging) = 1
        BY <3>1, FS_Singleton
      <3> QED
        BY <3>2 DEF OneSubmissionAtATime
    <2> QED
      BY <2>1, <2>2
  <1>3. TypeOK /\ OneUnderway /\ [Next]_vars /\ [Undisturbed]_vars => OneUnderway'
    BY OneUnderwayStep
  <1> QED
    BY <1>1, <1>2, <1>3, TypeCorrect, PTL DEF Spec

================================================================================
