--------------------------------- MODULE Board ---------------------------------
(***************************************************************************)
(* The leaderboard that a page of frontend/app.js shows.  The page asks    *)
(* for the list when a room is selected, when a notice comes and after a   *)
(* submission; requests are read and answered in any order, or fail.       *)
(*                                                                         *)
(* The room Here is seen from this page: its list has a version, its Start *)
(* goroutines make new ones and hand a notice of each to a dispatch        *)
(* goroutine, and one handler serves the page's event source.  RoomManager *)
(* and EventStream have these parts in full.  Of the player's earlier      *)
(* connections, whose handlers may still run, only their number counts.    *)
(* The list of the other room, There, stays as it is and its events are    *)
(* left out.  The button and its timers are in module Client.              *)
(***************************************************************************)
EXTENDS Naturals, Sequences, SequencesExt

CONSTANTS Here, There, None,
          Starts,      \* Start goroutines of the room
          MaxVersion,  \* bound: versions of the list of Here
          MaxFetches,  \* bound: requests for lists pending at once
          MaxNotices,  \* bound: notices on their way to the page at once
          MaxGhosts    \* bound: earlier connections still served

ASSUME BoardAssumption ==
    /\ Here # There /\ None \notin {Here, There}
    /\ Starts \in Nat \ {0} /\ MaxVersion \in Nat /\ MaxFetches \in Nat \ {0}
    /\ MaxNotices \in Nat /\ MaxGhosts \in Nat

Rooms == {Here, There}

VARIABLES version,    \* of the list of Here: how often its rows have changed
          busy,       \* Start goroutines that have changed rows and not announced it
          outbox,     \* notices whose dispatch goroutine is yet to copy Listerners
          pushes,     \* sends it has started to the handler of the source
          handler,    \* where that handler is
          listening,  \* its channel is the player's entry in Listerners
          arrival,    \* how far the PlayerJoined is that it sends
          ghosts,     \* the player's earlier connections that are still served
          currentRoomId, source,
          inbox,      \* notices written to the source and not handled
          requests,   \* rooms whose list was asked for and is not read yet
          answers,    \* lists that were read and are not shown yet
          shown,      \* the list on the page, and its room
          orderly,    \* history: since the page last had no request pending, none
                      \* failed, and none was read or answered out of turn
          missed      \* history: the source was not sent a notice that the page
                      \* could not do without

\* A notice is a PLAYER_JOINED, PLAYER_LEFT or CORRECT_SOLUTION_SUBMITTED, at which
\* the page asks for the list.
stream == <<version, busy, outbox, pushes, handler, listening, arrival, ghosts, missed>>
fetching == <<requests, answers, orderly>>
selection == <<currentRoomId, source>>
vars == <<stream, fetching, selection, inbox, shown>>

Blank == [room |-> None, version |-> 0]
List == [room : Rooms \cup {None}, version : 0 .. MaxVersion]

\* no request for a list is pending
Quiet == requests = <<>> /\ answers = <<>>

\* the handler's stages, and those before it sends PlayerJoined
Stages == {"none", "dialed", "refused", "registered",
           "entering", "select", "notice", "verdict", "flushed"}
Unannounced == {"none", "dialed", "refused", "registered"}

\* notices on their way from the room to the page
InFlight == outbox + pushes + inbox + (IF handler = "notice" THEN 1 ELSE 0)

TypeOK ==
    /\ version \in 0 .. MaxVersion /\ busy \in 0 .. Starts
    /\ outbox \in Nat /\ pushes \in Nat /\ inbox \in Nat /\ InFlight <= MaxNotices
    /\ handler \in Stages
    /\ arrival \in {"none", "sent", "served", "announced", "failed"} /\ ghosts \in 0 .. MaxGhosts
    /\ listening \in BOOLEAN /\ orderly \in BOOLEAN /\ missed \in BOOLEAN
    /\ currentRoomId \in Rooms \cup {None} /\ source \in {Here, None}
    /\ source = None <=> handler = "none"
    /\ arrival = "served" => busy > 0
    /\ requests \in Seq(Rooms) /\ answers \in Seq(List)
    /\ Len(requests) + Len(answers) <= MaxFetches
    /\ shown \in List

Init == /\ version = 0 /\ busy = 0 /\ outbox = 0 /\ pushes = 0 /\ ghosts = 0
        /\ handler = "none" /\ listening = FALSE /\ arrival = "none" /\ missed = FALSE
        /\ requests = <<>> /\ answers = <<>> /\ orderly = TRUE
        /\ currentRoomId = None /\ source = None /\ inbox = 0 /\ shown = Blank

-------------------------------------------------------------------------------
(* The page. *)

\* fetchLeaderboard up to its await
Fetch(r) ==
    /\ Len(requests) + Len(answers) < MaxFetches
    /\ requests' = Append(requests, r)
    /\ orderly' = (orderly \/ Quiet)
    /\ UNCHANGED answers

\* The source is closed, if there is one: the page hears no more of it, and what
\* becomes of its handler no longer matters, except for the entry in Listerners.
GiveUpSource ==
    /\ ghosts' = IF handler \in {"none", "refused"} THEN ghosts ELSE ghosts + 1
    /\ ghosts' <= MaxGhosts
    /\ pushes' = 0 /\ inbox' = 0
    /\ listening' = FALSE /\ arrival' = "none" /\ missed' = FALSE
    /\ UNCHANGED <<version, busy, outbox>>

CloseSource == GiveUpSource /\ source' = None /\ handler' = "none"
ConnectToRoomEvents == GiveUpSource /\ source' = Here /\ handler' = "dialed"

\* the dropdown's change event
SelectHere ==
    /\ currentRoomId # Here
    /\ currentRoomId' = Here
    /\ Fetch(Here) /\ ConnectToRoomEvents
    /\ UNCHANGED shown

\* seeded bug: the source of the room before is not closed
SelectThereUnclosed ==
    /\ currentRoomId # There
    /\ currentRoomId' = There
    /\ Fetch(There)
    /\ UNCHANGED <<stream, source, inbox, shown>>

SelectThere ==
    /\ currentRoomId # There
    /\ currentRoomId' = There
    /\ Fetch(There) /\ CloseSource
    /\ UNCHANGED shown

\* The placeholder is chosen, or ROOM_DELETED heard: the list is cleared, and the
\* source stays open, so the next notice fills the list again.
SelectNone ==
    /\ currentRoomId' = None /\ shown' = Blank
    /\ UNCHANGED <<stream, source, inbox, fetching>>

\* The connection breaks, and the browser makes another, but not after an answer that
\* refused it.
Reconnect ==
    /\ source = Here /\ handler # "refused"
    /\ ConnectToRoomEvents
    /\ UNCHANGED <<currentRoomId, fetching, shown>>

\* handleLeaderboardUpdate
HandleLeaderboardUpdate ==
    /\ inbox > 0
    /\ inbox' = inbox - 1
    /\ Fetch(Here)
    /\ UNCHANGED <<stream, selection, shown>>

\* The timer that an earlier submission has set asks for the list of the room that is
\* selected by now.
Refresh ==
    /\ IF currentRoomId = None THEN shown' = Blank /\ UNCHANGED fetching
                               ELSE Fetch(currentRoomId) /\ UNCHANGED shown
    /\ UNCHANGED <<stream, selection, inbox>>

\* seeded bug: the source is forgotten and not closed
LeftUnclosed ==
    /\ currentRoomId' = None /\ source' = None /\ shown' = Blank
    /\ UNCHANGED <<stream, inbox, fetching>>

\* seeded bug: only the room that was left is deselected
LeftAnother ==
    /\ currentRoomId' \in {currentRoomId, None} /\ shown' = Blank
    /\ CloseSource
    /\ UNCHANGED fetching

\* The answer to an earlier leaveRoom comes.  A room selected since then is
\* deselected too.
Left ==
    /\ currentRoomId' = None /\ shown' = Blank
    /\ CloseSource
    /\ UNCHANGED fetching

\* GetLeaderboardHandler reads the list of one request, or fails
Read(i) ==
    /\ requests' = RemoveAt(requests, i)
    /\ \/ /\ answers' = Append(answers, [room |-> requests[i],
                                         version |-> IF requests[i] = Here THEN version ELSE 0])
          /\ orderly' = (orderly /\ i = 1)
       \/ answers' = Append(answers, Blank) /\ orderly' = FALSE
    /\ UNCHANGED <<stream, selection, inbox, shown>>

\* the rest of fetchLeaderboard, which clears the list after a failure
Show(i) ==
    /\ answers' = RemoveAt(answers, i)
    /\ shown' = answers[i]
    /\ orderly' = (orderly /\ i = 1)
    /\ UNCHANGED <<stream, selection, inbox, requests>>

PageStep == \/ SelectHere \/ SelectThere \/ SelectNone \/ Reconnect
            \/ HandleLeaderboardUpdate \/ Refresh \/ Left
            \/ \E i \in 1 .. Len(requests) : Read(i)
            \/ \E i \in 1 .. Len(answers) : Show(i)

-------------------------------------------------------------------------------
(* The room. *)

page == <<selection, fetching, shown>>
Later == {version, version + 1} \cap 0 .. MaxVersion

\* a process function changes the rows; the ranks and the notice follow
Change ==
    /\ busy < Starts /\ version < MaxVersion
    /\ version' = version + 1
    /\ busy' = busy + 1
    /\ UNCHANGED <<outbox, pushes, handler, listening, arrival, ghosts, missed, page, inbox>>

\* processPlayerJoined for the source's own player, who may be in the room already;
\* an error ends it without a notice (the primary key's, when two Start goroutines find
\* the player absent)
Arrive ==
    /\ busy < Starts /\ arrival = "sent"
    /\ \/ busy' = busy + 1 /\ version' \in Later /\ arrival' = "served"
       \/ UNCHANGED <<busy, version>> /\ arrival' = "failed"
    /\ UNCHANGED <<outbox, pushes, handler, listening, ghosts, missed, page, inbox>>

\* calculateLeaderboard, and the notice
Announce ==
    /\ InFlight < MaxNotices
    /\ version' \in Later
    /\ outbox' = outbox + 1
    /\ busy > 0 /\ busy' = busy - 1
    /\ \/ arrival = "served" /\ arrival' = "announced"
       \/ arrival # "served" /\ UNCHANGED arrival
       \/ busy > 1 /\ UNCHANGED arrival
    /\ UNCHANGED <<pushes, handler, listening, ghosts, missed, page, inbox>>

\* dispatchEvent copies Listerners
Snapshot ==
    /\ outbox > 0
    /\ outbox' = outbox - 1
    /\ pushes' = IF listening THEN pushes + 1 ELSE pushes
    /\ UNCHANGED <<version, busy, handler, listening, arrival, ghosts, missed, page, inbox>>

Push ==
    /\ pushes > 0 /\ handler = "select"
    /\ pushes' = pushes - 1
    /\ handler' = "notice"
    /\ UNCHANGED <<version, busy, outbox, listening, arrival, ghosts, missed, page, inbox>>

\* The handler receives a WRONG_SOLUTION_SUBMITTED, at which the page does not ask for
\* the list; there may be one on its way at any time.
PushVerdict ==
    /\ handler = "select"
    /\ handler' = "verdict"
    /\ UNCHANGED <<version, busy, outbox, pushes, listening, arrival, ghosts, missed, page, inbox>>

\* The page can do without a notice that is lost while the handler has yet to write
\* another, or while the room has yet to announce the page's own player.
Spared == handler \in {"registered", "notice"} \/ arrival \in {"sent", "served"}

Drop ==
    /\ pushes > 0 /\ handler # "select"
    /\ pushes' = pushes - 1
    /\ missed' = (missed \/ ~Spared)
    /\ UNCHANGED <<version, busy, outbox, handler, listening, arrival, ghosts, page, inbox>>

\* the handler of the source
Register ==
    /\ handler = "dialed"
    /\ handler' = "registered" /\ listening' = TRUE
    /\ UNCHANGED <<version, busy, outbox, pushes, arrival, ghosts, missed, page, inbox>>

\* the room has no manager, as after a restart of the server
Refuse ==
    /\ handler = "dialed"
    /\ handler' = "refused"
    /\ UNCHANGED <<version, busy, outbox, pushes, listening, arrival, ghosts, missed, page, inbox>>

\* seeded bug: the arrival is announced by the first connection of a player only
EnterSilently ==
    /\ handler = "registered"
    /\ handler' = "entering" /\ arrival' = "announced"
    /\ UNCHANGED <<version, busy, outbox, pushes, listening, ghosts, missed, page, inbox>>

\* the goroutine that sends PlayerJoined is started
Enter ==
    /\ handler = "registered"
    /\ handler' = "entering" /\ arrival' = "sent"
    /\ UNCHANGED <<version, busy, outbox, pushes, listening, ghosts, missed, page, inbox>>

Write ==
    /\ handler \in {"notice", "verdict"}
    /\ handler' = "flushed"
    /\ inbox' = IF handler = "notice" THEN inbox + 1 ELSE inbox
    /\ UNCHANGED <<version, busy, outbox, pushes, listening, arrival, ghosts, missed, page>>

\* the select is reached, for the first time or again
Loop ==
    /\ handler \in {"entering", "flushed"}
    /\ handler' = "select"
    /\ UNCHANGED <<version, busy, outbox, pushes, listening, arrival, ghosts, missed, page, inbox>>

\* the handler of an earlier connection registers late, or ends and deletes the
\* player's entry
GhostSteps ==
    /\ ghosts > 0
    /\ listening' = FALSE
    /\ ghosts' \in {ghosts - 1, ghosts}
    /\ UNCHANGED <<version, busy, outbox, pushes, handler, arrival, missed, page, inbox>>

RoomStep == \/ Change \/ Arrive \/ Announce \/ Snapshot \/ Push \/ PushVerdict \/ Drop
            \/ Register \/ Refuse \/ Enter \/ Write \/ Loop \/ GhostSteps

Next == PageStep \/ RoomStep

Spec == Init /\ [][Next]_vars

-------------------------------------------------------------------------------
(* What holds. *)

\* the page listens, and no arrival of its own, change, notice or request is under way
Settled ==
    /\ currentRoomId = Here /\ source = Here
    /\ handler = "select" /\ listening /\ arrival \notin {"sent", "served"}
    /\ Quiet /\ inbox = 0
    /\ busy = 0 /\ outbox + pushes = 0

\* A page that is settled shows the list as it is, although it asks for it before
\* it can hear of changes (app.js:598-600) and though notices get lost: its own
\* arrival makes it ask again, and a notice lost while another is written is made
\* up for by the request which the other causes.  What leaves an old list on the
\* page is one of these: a request that failed or came out of turn; an arrival of its
\* own that failed, so that nothing makes it ask again (room_manager.go:392-404); and,
\* once its arrival is announced, a notice lost while the handler is on its way to the
\* select, for the first time or again, or writes a verdict (room_manager.go:149-158).
SettledBoardIsCurrent ==
    Settled /\ orderly /\ arrival # "failed" /\ ~missed => shown = [room |-> Here, version |-> version]

\* Without requests pending the page shows a list of the room selected, unless one
\* failed or came out of turn: no notice or timer brings back the list of a room
\* that was left, and no late answer to leaveRoom leaves another room's (app.js:568).
BoardIsOfSelection ==
    currentRoomId # None /\ Quiet /\ orderly => shown.room = currentRoomId

\* A room that is selected has an event source, if perhaps a refused one: when the
\* answer to leaveRoom comes late and closes the source of a room selected meanwhile,
\* it deselects that room.
SelectedHereIsHeard == currentRoomId = Here => source = Here
===============================================================================
