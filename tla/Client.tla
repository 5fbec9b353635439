--------------------------------- MODULE Client ---------------------------------
(***************************************************************************)
(* One open page of frontend/app.js: the selected room and its event       *)
(* source, the submit button, the status banner, and the requests and      *)
(* timers that are pending.  A step is one callback of the browser's event *)
(* loop.  Timers are not timed: one may fire as soon as it is set, and in  *)
(* any order, which covers a page whose callbacks run late.                *)
(*                                                                         *)
(* The server is outside: it takes a submission or refuses it, perhaps     *)
(* never does either, and pushes events while a source is open.  A         *)
(* player's other pages and the other players cause events too.  The       *)
(* leaderboard's contents are left out.                                    *)
(***************************************************************************)
EXTENDS Naturals, FiniteSets

CONSTANTS Rooms,
          MaxSubmissions,  \* bound: submissions of the page
          MaxClears,       \* bound: 3-second timers pending at once
          None

ASSUME ClientAssumption == /\ MaxSubmissions \in Nat /\ MaxClears \in Nat
                           /\ None \notin Rooms /\ None \notin Nat

Submissions == 1 .. MaxSubmissions

VARIABLES currentRoomId,   \* the room selected
          source,          \* the room leaderboardEventSource is connected to
          isExecuting,
          enabled,         \* submitButton is not disabled
          banners,         \* submissions whose "Executing code" element is on the page
          executionStatus, \* the one of them that the page still refers to, or None
          timeoutId,       \* its field: the submission whose 30-second timer it names
          errorLog,        \* the box below the editor, when it is displayed
          post,            \* each submission's request, as the page knows it
          watches,         \* submissions whose 30-second timer is pending
          resets,          \* submissions whose 5-second timer is pending
          clears,          \* number of 3-second timers pending
          leaving,         \* the room named in a pending request to leave
          handling,        \* submissions a handler of the server has yet to hand over
          judging          \* submissions the server took and gave no verdict on yet

page == <<currentRoomId, source>>
button == <<isExecuting, enabled>>
banner == <<banners, executionStatus, timeoutId>>
shown == <<banner, errorLog>>
timers == <<watches, resets, clears>>
server == <<handling, judging>>
vars == <<page, button, shown, post, timers, leaving, server>>

PostStages == {"new", "sent", "accepted", "done"}

TypeOK == /\ currentRoomId \in Rooms \cup {None} /\ source \in Rooms \cup {None}
          /\ isExecuting \in BOOLEAN /\ enabled \in BOOLEAN
          /\ banners \subseteq Submissions /\ executionStatus \in banners \cup {None}
          /\ timeoutId \in Submissions \cup {None}
          /\ errorLog \in {"hidden", "log", "unreadable"}
          /\ post \in [Submissions -> PostStages]
          /\ watches \subseteq Submissions /\ resets \subseteq Submissions
          /\ clears \in 0 .. MaxClears
          /\ leaving \in Rooms \cup {None}
          /\ handling \subseteq Submissions /\ judging \subseteq Submissions

\* the editor has loaded and the button is disabled
Init == /\ currentRoomId = None /\ source = None
        /\ isExecuting = FALSE /\ enabled = FALSE
        /\ banners = {} /\ executionStatus = None /\ timeoutId = None
        /\ errorLog = "hidden"
        /\ post = [n \in Submissions |-> "new"]
        /\ watches = {} /\ resets = {} /\ clears = 0
        /\ leaving = None
        /\ handling = {} /\ judging = {}

-------------------------------------------------------------------------------
(* What callbacks have in common. *)

\* "Reset execution state"
StopExecuting == isExecuting' = FALSE /\ enabled' = TRUE

\* seeded bug: 0, which is an id like any other, for "no timer"
RemoveStatusKeepsId == /\ banners' = banners \ {executionStatus}
                       /\ executionStatus' = None /\ timeoutId' = 0

\* executionStatus.remove(), executionStatus = null, when there is one
RemoveStatus == /\ banners' = banners \ {executionStatus}
                /\ executionStatus' = None /\ timeoutId' = None

\* clearTimeout(executionStatus.timeoutId), when there is one
ClearTimeout == watches' = watches \ {timeoutId}

InFlight(n) == post[n] \in {"sent", "accepted"}

-------------------------------------------------------------------------------
(* The player. *)

\* the dropdown's change event; without a room the source stays open
Select(room) ==
    /\ room # currentRoomId
    /\ currentRoomId' = room
    /\ enabled' = (room # None)
    /\ source' = IF room = None THEN source ELSE room
    /\ UNCHANGED <<isExecuting, shown, post, timers, leaving, server>>

\* the editor's or the language selector's change event
Edit ==
    /\ executionStatus # None \/ errorLog # "hidden"
    /\ RemoveStatus
    /\ errorLog' = "hidden"
    /\ UNCHANGED <<page, button, post, timers, leaving, server>>

\* submitSolution up to its await; an element that is still there stays, and nothing
\* refers to it any more
Submit(n) ==
    /\ enabled /\ currentRoomId # None /\ ~isExecuting
    /\ post[n] = "new" /\ \A m \in 1 .. n - 1 : post[m] # "new"
    /\ isExecuting' = TRUE /\ enabled' = FALSE
    /\ banners' = banners \cup {n} /\ executionStatus' = n /\ timeoutId' = None
    /\ post' = [post EXCEPT ![n] = "sent"]
    /\ handling' = handling \cup {n}
    /\ errorLog' = "hidden"
    /\ UNCHANGED <<page, timers, leaving, judging>>

\* submitSolution without code
SubmitNothing ==
    /\ enabled /\ currentRoomId # None /\ ~isExecuting
    /\ errorLog' = "hidden"
    /\ UNCHANGED <<page, button, banner, post, timers, leaving, server>>

\* leaveRoom up to its await
Leave ==
    /\ currentRoomId # None /\ leaving = None
    /\ leaving' = currentRoomId
    /\ UNCHANGED <<page, button, shown, post, timers, server>>

-------------------------------------------------------------------------------
(* Requests and their answers. *)

\* The handler has sent the submission to the room's channel.  It waits there as long
\* as it takes, whether the page still waits for its answer or not.
Take(n) ==
    /\ n \in handling
    /\ handling' = handling \ {n}
    /\ judging' = judging \cup {n}
    /\ post' = IF post[n] = "sent" THEN [post EXCEPT ![n] = "accepted"] ELSE post
    /\ UNCHANGED <<page, button, shown, timers, leaving>>

\* The handler refuses the submission, or never gets it, or its process ends.
Refuse(n) ==
    /\ n \in handling
    /\ handling' = handling \ {n}
    /\ UNCHANGED <<page, button, shown, post, timers, leaving, judging>>

\* seeded bug: no timer without a banner to keep its id
SubmittedNoBanner(n) ==
    /\ post[n] = "accepted"
    /\ post' = [post EXCEPT ![n] = "done"]
    /\ watches' = IF executionStatus # None THEN watches \cup {n} ELSE watches
    /\ timeoutId' = IF executionStatus # None THEN n ELSE timeoutId
    /\ UNCHANGED <<page, button, banners, executionStatus, errorLog, resets, clears, leaving, server>>

\* the rest of submitSolution, when the answer is 202
Submitted(n) ==
    /\ post[n] = "accepted"
    /\ post' = [post EXCEPT ![n] = "done"]
    /\ watches' = watches \cup {n}
    /\ timeoutId' = IF executionStatus # None THEN n ELSE timeoutId
    /\ UNCHANGED <<page, button, banners, executionStatus, errorLog, resets, clears, leaving, server>>

\* its catch: the request was refused, or failed, wherever its handler is by then
Failed(n) ==
    /\ InFlight(n)
    /\ post' = [post EXCEPT ![n] = "done"]
    /\ ClearTimeout
    /\ StopExecuting
    /\ RemoveStatus
    /\ UNCHANGED <<page, errorLog, resets, clears, leaving, server>>

\* the rest of leaveRoom: whatever room is selected by now is deselected
Left ==
    /\ leaving # None
    /\ leaving' = None
    /\ \/ currentRoomId' = None /\ source' = None /\ enabled' = FALSE
       \/ UNCHANGED <<page, enabled>>
    /\ UNCHANGED <<isExecuting, shown, post, timers, server>>

-------------------------------------------------------------------------------
(* Events of the source.  A verdict is for a submission of this page or not. *)

Verdict == \/ \E n \in judging : judging' = judging \ {n}
           \/ UNCHANGED judging

\* seeded bug: the banner is not scheduled for removal
CorrectKeepsBanner ==
    /\ source # None
    /\ Verdict
    /\ ClearTimeout
    /\ StopExecuting
    /\ UNCHANGED <<page, shown, post, resets, clears, leaving, handling>>

\* CORRECT_SOLUTION_SUBMITTED, of any player in the room
Correct ==
    /\ source # None
    /\ Verdict
    /\ IF executionStatus # None THEN clears < MaxClears /\ clears' = clears + 1 ELSE UNCHANGED clears
    /\ ClearTimeout
    /\ StopExecuting
    /\ UNCHANGED <<page, shown, post, resets, leaving, handling>>

\* WRONG_SOLUTION_SUBMITTED, of a submission of this player
Wrong ==
    /\ source # None
    /\ Verdict
    /\ ClearTimeout
    /\ RemoveStatus
    /\ StopExecuting
    /\ errorLog' = "log"
    /\ UNCHANGED <<page, post, resets, clears, leaving, handling>>

\* its catch, "Failed to display error log.": the banner stays
WrongUnreadable ==
    /\ source # None
    /\ Verdict
    /\ ClearTimeout
    /\ StopExecuting
    /\ errorLog' = "unreadable"
    /\ UNCHANGED <<page, banner, post, resets, clears, leaving, handling>>

\* ROOM_DELETED: the source stays open
RoomDeleted ==
    /\ source # None
    /\ currentRoomId' = None /\ enabled' = FALSE
    /\ UNCHANGED <<source, isExecuting, shown, post, timers, leaving, server>>

-------------------------------------------------------------------------------
(* Timers. *)

\* seeded bug: a warning, and nothing else
TimeoutWarnsOnly(n) ==
    /\ n \in watches
    /\ watches' = watches \ {n}
    /\ UNCHANGED <<page, button, shown, post, resets, clears, leaving, server>>

\* 30 seconds after the answer
Timeout(n) ==
    /\ n \in watches
    /\ watches' = watches \ {n}
    /\ resets' = IF isExecuting THEN resets \cup {n} ELSE resets
    /\ UNCHANGED <<page, button, shown, post, clears, leaving, server>>

\* "Reset execution state after timeout"
Reset(n) ==
    /\ n \in resets
    /\ resets' = resets \ {n}
    /\ StopExecuting
    /\ RemoveStatus
    /\ UNCHANGED <<page, errorLog, post, watches, clears, leaving, server>>

\* 3 seconds after a success was shown
Clear ==
    /\ clears > 0
    /\ clears' = clears - 1
    /\ RemoveStatus
    /\ UNCHANGED <<page, errorLog, button, post, watches, resets, leaving, server>>

-------------------------------------------------------------------------------

Next == \/ \E room \in Rooms \cup {None} : Select(room)
        \/ Edit \/ SubmitNothing \/ Leave \/ Left
        \/ \E n \in Submissions : \/ Submit(n) \/ Take(n) \/ Refuse(n)
                                  \/ Submitted(n) \/ Failed(n)
                                  \/ Timeout(n) \/ Reset(n)
        \/ Correct \/ Wrong \/ WrongUnreadable \/ RoomDeleted \/ Clear

Spec == Init /\ [][Next]_vars

\* A request whose handler is done with it is answered, well or badly, and timers fire.
\* The player is free, no event need ever come, and no handler need ever be done: it
\* may wait for ever for room in the channel, and neither side has a timeout.
Fairness == \A n \in Submissions :
    /\ WF_vars(n \notin handling /\ (Submitted(n) \/ Failed(n)))
    /\ WF_vars(Timeout(n)) /\ WF_vars(Reset(n))

FairSpec == Spec /\ Fairness

-------------------------------------------------------------------------------
(* What holds. *)

\* While the page shows "Executing...", something is pending that will end it,
\* although timers are cleared from four places and the banner that holds a
\* timer's id may be gone by then: a request, or a timer of 30 or 5 seconds.
AlwaysArmed ==
    isExecuting => \/ \E n \in Submissions : InFlight(n)
                   \/ watches # {} \/ resets # {}

\* elements that nothing refers to, so that nothing ever removes them
Orphans == banners \ {executionStatus}

\* an element the page refers to, with nothing under way that would remove it
Stranded == executionStatus # None /\ ~isExecuting /\ clears = 0

\* How an "Executing code" element stays on the page, although a success, a wrong
\* verdict, a failed request and two timers each remove one: the page ends a wait
\* without that only when it does not understand a wrong verdict, and loses its
\* reference only to a submission made while it is still shown after a success
\* (app.js:225, 369), or while one was kept so.
BannersStayOnlySo ==
    [][/\ Stranded' => Stranded \/ errorLog' = "unreadable"
       /\ Orphans' # Orphans => clears > 0 \/ Stranded]_vars

\* "Timeout handling for long-running executions" (app.js:338): the button comes
\* back after each submission, with a verdict or without, if the server's handlers
\* come to an end.  A handler that waits for room in the channel of a wedged room does
\* not (solution.go:40), and the page waits with it.
ButtonComesBack == (\A n \in Submissions : n \in handling ~> n \notin handling)
                   => (isExecuting ~> ~isExecuting)

-------------------------------------------------------------------------------
(* What the documentation says and the code does not do. *)

\* app.js:336, "Execution state management (preventing multiple submissions)": the
\* server never has two submissions of a page to judge.
OneSubmissionAtATime == Cardinality(judging) <= 1
===============================================================================
