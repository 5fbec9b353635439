------------------------------ MODULE BoardProofs ------------------------------
(***************************************************************************)
(* Proofs about module Board, for any number of Start goroutines, versions *)
(* of the list, requests, notices and lingering connections.               *)
(*                                                                         *)
(* Why a settled page shows the list as it is: unless it has the newest    *)
(* list, or asked for it last, something is on its way that will make it   *)
(* ask: a change not announced yet, a notice to be copied, pushed, written *)
(* or heard, or its own arrival.                                           *)
(***************************************************************************)
EXTENDS Board, SequenceTheorems, TLAPS

\* What is left of a sequence when one entry is removed.
LEMMA Removed ==
    ASSUME NEW S, NEW s \in Seq(S), NEW i \in 1 .. Len(s)
    PROVE  /\ RemoveAt(s, i) \in Seq(S)
           /\ Len(RemoveAt(s, i)) = Len(s) - 1
           /\ i = 1 /\ Len(s) > 1 => RemoveAt(s, i)[Len(s) - 1] = s[Len(s)]
<1>1. /\ SubSeq(s, 1, i - 1) \in Seq(S)
      /\ Len(SubSeq(s, 1, i - 1)) = i - 1
  <2>1. \A j \in 1 .. i - 1 : s[j] \in S
    BY ElementOfSeq
  <2>2. QED
    BY <2>1, SubSeqProperties
<1>2. /\ SubSeq(s, i + 1, Len(s)) \in Seq(S)
      /\ Len(SubSeq(s, i + 1, Len(s))) = Len(s) - i
      /\ \A j \in 1 .. Len(s) - i : SubSeq(s, i + 1, Len(s))[j] = s[j + i]
  <2>1. \A j \in i + 1 .. Len(s) : s[j] \in S
    BY ElementOfSeq
  <2>2. QED
    BY <2>1, SubSeqProperties
<1> DEFINE front == SubSeq(s, 1, i - 1)
           back == SubSeq(s, i + 1, Len(s))
<1> HIDE DEF front, back
<1>3. /\ RemoveAt(s, i) = front \o back
      /\ front \in Seq(S) /\ Len(front) = i - 1
      /\ back \in Seq(S) /\ Len(back) = Len(s) - i
      /\ \A j \in 1 .. Len(s) - i : back[j] = s[j + i]
  BY <1>1, <1>2 DEF RemoveAt, front, back
<1>4. /\ front \o back \in Seq(S)
      /\ Len(front \o back) = Len(s) - 1
      /\ \A j \in 1 .. Len(s) - 1 : (front \o back)[j] = IF j <= i - 1 THEN front[j] ELSE back[j - (i - 1)]
  <2>1. Len(s) \in Nat /\ i - 1 \in Nat /\ Len(s) - i \in Nat
    BY LenProperties
  <2>2. /\ front \o back \in Seq(S)
        /\ Len(front \o back) = Len(front) + Len(back)
        /\ \A j \in 1 .. Len(front) + Len(back) :
               (front \o back)[j] = IF j <= Len(front) THEN front[j] ELSE back[j - Len(front)]
    BY <1>3, ConcatProperties
  <2>3. Len(front) = i - 1 /\ Len(front) + Len(back) = Len(s) - 1
    BY <1>3, <2>1
  <2>4. QED
    BY <2>2, <2>3
<1>5. i = 1 /\ Len(s) > 1 => (front \o back)[Len(s) - 1] = s[Len(s)]
  <2>1. Len(s) \in Nat
    BY LenProperties
  <2>2. QED
    BY <1>3, <1>4, <2>1
<1>6. QED
  BY <1>3, <1>4, <1>5

-------------------------------------------------------------------------------
(* Type correctness. *)

\* A request for a list keeps the page's requests and answers in order.
LEMMA FetchTyped ==
    ASSUME TypeOK, NEW r \in Rooms, Fetch(r)
    PROVE  /\ requests' \in Seq(Rooms) /\ answers' \in Seq(List)
           /\ Len(requests') + Len(answers') <= MaxFetches
           /\ orderly' \in BOOLEAN
           /\ Len(requests') = Len(requests) + 1
           /\ requests'[Len(requests')] = r
<1>1. requests \in Seq(Rooms) /\ answers \in Seq(List) /\ orderly \in BOOLEAN
  BY DEF TypeOK
<1>2. /\ Len(requests) \in Nat /\ Len(answers) \in Nat
      /\ Len(requests) + Len(answers) < MaxFetches
      /\ requests' = Append(requests, r) /\ answers' = answers
      /\ orderly' \in BOOLEAN
  BY <1>1, LenProperties DEF Fetch
<1>3. /\ Append(requests, r) \in Seq(Rooms)
      /\ Len(Append(requests, r)) = Len(requests) + 1
      /\ Append(requests, r)[Len(requests) + 1] = r
  BY <1>1, AppendProperties
<1>4. QED
  BY <1>1, <1>2, <1>3, BoardAssumption DEF BoardAssumption

\* Closing a source leaves the counters and the flags typed.
LEMMA GiveUpTyped ==
    ASSUME TypeOK, GiveUpSource, handler' \in {"none", "dialed"}
    PROVE  /\ version' \in 0 .. MaxVersion /\ busy' \in 0 .. Starts
           /\ outbox' \in Nat /\ pushes' \in Nat /\ inbox' \in Nat /\ InFlight' <= MaxNotices
           /\ arrival' = "none" /\ ghosts' \in 0 .. MaxGhosts
           /\ listening' = FALSE /\ missed' = FALSE
<1>1. listening' = FALSE /\ missed' = FALSE
  BY DEF GiveUpSource
<1>2. QED
  BY <1>1, BoardAssumption DEF BoardAssumption, TypeOK, GiveUpSource, InFlight

LEMMA TypeInit == Init => TypeOK
<1> SUFFICES ASSUME Init PROVE TypeOK
  OBVIOUS
<1>1. requests \in Seq(Rooms) /\ answers \in Seq(List) /\ Len(requests) + Len(answers) <= MaxFetches
  BY BoardAssumption DEF Init, BoardAssumption
<1>2. listening \in BOOLEAN /\ missed \in BOOLEAN /\ orderly \in BOOLEAN
  BY DEF Init
<1>3. shown \in List
  BY BoardAssumption DEF Init, BoardAssumption, List, Blank
<1>4. InFlight <= MaxNotices
  BY BoardAssumption DEF Init, BoardAssumption, InFlight
<1>5. QED
  BY <1>1, <1>2, <1>3, <1>4, BoardAssumption DEF Init, BoardAssumption, TypeOK, Stages

\* The parts of the type invariant that the room's steps can touch.
Flags == listening \in BOOLEAN /\ missed \in BOOLEAN /\ orderly \in BOOLEAN

RoomTyped ==
    /\ version \in 0 .. MaxVersion /\ busy \in 0 .. Starts
    /\ outbox \in Nat /\ pushes \in Nat /\ inbox \in Nat /\ InFlight <= MaxNotices
    /\ handler \in Stages
    /\ arrival \in {"none", "sent", "served", "announced", "failed"} /\ ghosts \in 0 .. MaxGhosts
    /\ source = None <=> handler = "none"
    /\ arrival = "served" => busy > 0

\* and those that only the page's steps can
PageTyped ==
    /\ requests \in Seq(Rooms) /\ answers \in Seq(List)
    /\ Len(requests) + Len(answers) <= MaxFetches
    /\ shown \in List /\ currentRoomId \in Rooms \cup {None} /\ source \in {Here, None}

LEMMA TypeParts == TypeOK => RoomTyped /\ Flags /\ PageTyped
  BY DEF TypeOK, RoomTyped, Flags, PageTyped

LEMMA TypePartsNext == RoomTyped' /\ Flags' /\ PageTyped' => TypeOK'
  BY DEF TypeOK, RoomTyped, Flags, PageTyped

LEMMA RoomStepTyped == TypeOK /\ RoomStep => TypeOK'
<1> SUFFICES ASSUME TypeOK, RoomStep PROVE TypeOK'
  OBVIOUS
<1>0. RoomTyped /\ Flags
  BY DEF TypeOK, RoomTyped, Flags
<1>p. UNCHANGED <<currentRoomId, source, requests, answers, orderly, shown>>
  BY DEF RoomStep, Change, Arrive, Announce, Snapshot, Push, PushVerdict, Drop, Register, Refuse,
         Enter, Write, Loop, GhostSteps, page, selection, fetching
<1>f. Flags'
  BY <1>0, <1>p DEF Flags, RoomStep, Change, Arrive, Announce, Snapshot, Push, PushVerdict, Drop,
              Register, Refuse, Enter, Write, Loop, GhostSteps
<1> USE BoardAssumption DEF BoardAssumption, RoomTyped, Stages, InFlight
<1>1. ASSUME Change PROVE RoomTyped'
  BY <1>0, <1>p, <1>1 DEF Change
<1>2. ASSUME Arrive PROVE RoomTyped'
  BY <1>0, <1>p, <1>2 DEF Arrive, Later
<1>3. ASSUME Announce PROVE RoomTyped'
  BY <1>0, <1>p, <1>3 DEF Announce, Later
<1>4. ASSUME Snapshot \/ Push \/ PushVerdict PROVE RoomTyped'
  BY <1>0, <1>p, <1>4 DEF Snapshot, Push, PushVerdict
<1>5. ASSUME Drop \/ Register \/ Refuse \/ Enter PROVE RoomTyped'
  BY <1>0, <1>p, <1>5 DEF Drop, Register, Refuse, Enter
<1>6. ASSUME Write \/ Loop PROVE RoomTyped'
  BY <1>0, <1>p, <1>6 DEF Write, Loop
<1>7. ASSUME GhostSteps PROVE RoomTyped'
  BY <1>0, <1>p, <1>7 DEF GhostSteps
<1>8. RoomTyped'
  BY <1>1, <1>2, <1>3, <1>4, <1>5, <1>6, <1>7 DEF RoomStep
<1>9. PageTyped'
  BY <1>p DEF TypeOK, PageTyped
<1>10. QED
  BY <1>f, <1>8, <1>9, TypePartsNext

LEMMA PageStepTyped == TypeOK /\ PageStep => TypeOK'
<1> SUFFICES ASSUME TypeOK, PageStep PROVE TypeOK'
  OBVIOUS
<1>0. RoomTyped /\ Flags /\ PageTyped
  BY TypeParts
<1>h. Here \in Rooms /\ There \in Rooms /\ Blank \in List
  BY BoardAssumption DEF BoardAssumption, Rooms, List, Blank
<1>s. ASSUME UNCHANGED stream, UNCHANGED <<source, inbox>>, orderly' \in BOOLEAN
      PROVE  RoomTyped' /\ Flags'
  <2>1. UNCHANGED <<version, busy, outbox, pushes, handler, arrival, ghosts, source, inbox>>
    BY <1>s DEF stream
  <2>2. RoomTyped'
    BY <1>0, <2>1 DEF RoomTyped, InFlight
  <2>3. Flags'
    BY <1>0, <1>s DEF Flags, stream
  <2>4. QED
    BY <2>2, <2>3
<1>g. ASSUME CloseSource \/ ConnectToRoomEvents, orderly' \in BOOLEAN
      PROVE  RoomTyped' /\ Flags'
  <2>1. /\ GiveUpSource
        /\ handler' \in {"none", "dialed"}
        /\ source' = None <=> handler' = "none"
    BY <1>g, BoardAssumption DEF CloseSource, ConnectToRoomEvents, BoardAssumption
  <2>2. RoomTyped'
    BY <2>1, GiveUpTyped, BoardAssumption DEF RoomTyped, Stages, BoardAssumption
  <2>3. Flags'
    BY <1>g, <2>1, GiveUpTyped DEF Flags
  <2>4. QED
    BY <2>1, <2>2, <2>3
<1>f. ASSUME NEW r \in Rooms, Fetch(r), UNCHANGED shown,
             currentRoomId' \in Rooms \cup {None}, source' \in {Here, None}
      PROVE  PageTyped' /\ orderly' \in BOOLEAN
  BY <1>0, <1>f, FetchTyped DEF PageTyped
<1>o. ASSUME UNCHANGED fetching PROVE orderly' \in BOOLEAN /\ UNCHANGED <<requests, answers>>
  BY <1>0, <1>o DEF Flags, fetching
<1>1. CASE SelectHere
  <2>1. Fetch(Here) /\ UNCHANGED shown /\ currentRoomId' = Here /\ ConnectToRoomEvents
    BY <1>1 DEF SelectHere
  <2>2. source' \in {Here, None}
    BY <2>1 DEF ConnectToRoomEvents
  <2>3. PageTyped' /\ orderly' \in BOOLEAN
    BY <1>h, <1>f, <2>1, <2>2
  <2>4. QED
    BY <1>g, <2>1, <2>3, TypePartsNext
<1>2. CASE SelectThere
  <2>1. Fetch(There) /\ UNCHANGED shown /\ currentRoomId' = There /\ CloseSource
    BY <1>2 DEF SelectThere
  <2>2. source' \in {Here, None}
    BY <2>1 DEF CloseSource
  <2>3. PageTyped' /\ orderly' \in BOOLEAN
    BY <1>h, <1>f, <2>1, <2>2
  <2>4. QED
    BY <1>g, <2>1, <2>3, TypePartsNext
<1>3. CASE SelectNone
  <2>1. /\ UNCHANGED stream /\ UNCHANGED <<source, inbox>> /\ UNCHANGED fetching
        /\ currentRoomId' = None /\ shown' = Blank
    BY <1>3 DEF SelectNone
  <2>2. PageTyped'
    BY <1>0, <1>h, <1>o, <2>1 DEF PageTyped
  <2>3. QED
    BY <1>s, <1>o, <2>1, <2>2, TypePartsNext
<1>4. CASE Reconnect
  <2>1. UNCHANGED fetching /\ ConnectToRoomEvents /\ UNCHANGED <<currentRoomId, shown>>
    BY <1>4 DEF Reconnect
  <2>2. PageTyped'
    BY <1>0, <1>o, <2>1 DEF PageTyped, ConnectToRoomEvents
  <2>3. QED
    BY <1>g, <1>o, <2>1, <2>2, TypePartsNext
<1>5. CASE HandleLeaderboardUpdate
  <2>1. /\ UNCHANGED <<version, busy, outbox, pushes, handler, arrival, ghosts, source>>
        /\ inbox > 0 /\ inbox' = inbox - 1
        /\ UNCHANGED <<listening, missed>> /\ UNCHANGED <<currentRoomId, shown>> /\ Fetch(Here)
    BY <1>5 DEF HandleLeaderboardUpdate, stream, selection
  <2>2. RoomTyped'
    BY <1>0, <2>1, BoardAssumption DEF RoomTyped, InFlight, BoardAssumption
  <2>3. PageTyped' /\ orderly' \in BOOLEAN
    <3>1. currentRoomId' \in Rooms \cup {None} /\ source' \in {Here, None}
      BY <1>0, <2>1 DEF PageTyped
    <3>2. QED
      BY <1>f, <1>h, <2>1, <3>1
  <2>4. Flags'
    BY <1>0, <2>1, <2>3 DEF Flags
  <2>5. QED
    BY <2>2, <2>3, <2>4, TypePartsNext
<1>6. CASE Refresh
  <2>1. UNCHANGED stream /\ UNCHANGED <<source, inbox>> /\ UNCHANGED currentRoomId
    BY <1>6 DEF Refresh, selection
  <2>2. CASE currentRoomId = None
    <3>1. UNCHANGED fetching /\ shown' = Blank
      BY <1>6, <2>2 DEF Refresh
    <3>2. PageTyped'
      BY <1>0, <1>h, <1>o, <2>1, <3>1 DEF PageTyped
    <3>3. QED
      BY <1>s, <1>o, <2>1, <3>1, <3>2, TypePartsNext
  <2>3. CASE currentRoomId # None
    <3>1. currentRoomId \in Rooms /\ source \in {Here, None}
      BY <1>0, <2>3 DEF PageTyped
    <3>2. Fetch(currentRoomId) /\ UNCHANGED shown
      BY <1>6, <2>3 DEF Refresh
    <3>3. PageTyped' /\ orderly' \in BOOLEAN
      BY <1>f, <2>1, <3>1, <3>2
    <3>4. QED
      BY <1>s, <2>1, <3>3, TypePartsNext
  <2>4. QED
    BY <2>2, <2>3
<1>7. CASE Left
  <2>1. UNCHANGED fetching /\ CloseSource /\ currentRoomId' = None /\ shown' = Blank
    BY <1>7 DEF Left
  <2>2. PageTyped'
    BY <1>0, <1>h, <1>o, <2>1 DEF PageTyped, CloseSource
  <2>3. QED
    BY <1>g, <1>o, <2>1, <2>2, TypePartsNext
<1>8. ASSUME NEW i \in 1 .. Len(requests), Read(i) PROVE TypeOK'
  <2>1. UNCHANGED stream /\ UNCHANGED <<source, inbox>> /\ UNCHANGED <<currentRoomId, shown>>
    BY <1>8 DEF Read, selection
  <2>2. requests[i] \in Rooms
    BY <1>0, ElementOfSeq DEF PageTyped
  <2>3. PICK a \in List : answers' = Append(answers, a)
    <3>1. [room |-> requests[i], version |-> IF requests[i] = Here THEN version ELSE 0] \in List
      BY <1>0, <2>2, BoardAssumption DEF RoomTyped, List, BoardAssumption
    <3>2. QED
      BY <1>8, <1>h, <3>1 DEF Read
  <2>4. answers' \in Seq(List) /\ Len(answers') = Len(answers) + 1
    BY <1>0, <2>3, AppendProperties DEF PageTyped
  <2>5. requests' \in Seq(Rooms) /\ Len(requests') = Len(requests) - 1
    BY <1>0, <1>8, Removed DEF Read, PageTyped
  <2>6. Len(requests') + Len(answers') <= MaxFetches
    BY <1>0, <2>4, <2>5, LenProperties, BoardAssumption DEF PageTyped, BoardAssumption
  <2>7. orderly' \in BOOLEAN
    BY <1>0, <1>8 DEF Read, Flags
  <2>8. PageTyped'
    BY <1>0, <2>1, <2>4, <2>5, <2>6 DEF PageTyped
  <2>9. QED
    BY <1>s, <2>1, <2>7, <2>8, TypePartsNext
<1>9. ASSUME NEW i \in 1 .. Len(answers), Show(i) PROVE TypeOK'
  <2>1. UNCHANGED stream /\ UNCHANGED <<source, inbox>> /\ UNCHANGED <<currentRoomId, requests>>
    BY <1>9 DEF Show, selection
  <2>2. shown' \in List
    BY <1>0, <1>9, ElementOfSeq DEF Show, PageTyped
  <2>3. answers' \in Seq(List) /\ Len(answers') = Len(answers) - 1
    BY <1>0, <1>9, Removed DEF Show, PageTyped
  <2>4. Len(requests') + Len(answers') <= MaxFetches
    BY <1>0, <2>1, <2>3, LenProperties, BoardAssumption DEF PageTyped, BoardAssumption
  <2>5. orderly' \in BOOLEAN
    BY <1>0, <1>9 DEF Show, Flags
  <2>6. PageTyped'
    BY <1>0, <2>1, <2>2, <2>3, <2>4 DEF PageTyped
  <2>7. QED
    BY <1>s, <2>1, <2>5, <2>6, TypePartsNext
<1>10. QED
  BY <1>1, <1>2, <1>3, <1>4, <1>5, <1>6, <1>7, <1>8, <1>9 DEF PageStep

LEMMA TypeStep == TypeOK /\ [Next]_vars => TypeOK'
<1> SUFFICES ASSUME TypeOK, [Next]_vars PROVE TypeOK'
  OBVIOUS
<1>1. CASE UNCHANGED vars
  <2>1. RoomTyped /\ Flags /\ PageTyped
    BY TypeParts
  <2>2. RoomTyped' /\ PageTyped'
    BY <1>1, <2>1 DEF RoomTyped, PageTyped, InFlight, vars, stream, fetching, selection
  <2>3. Flags'
    BY <1>1, <2>1 DEF Flags, vars, stream, fetching
  <2>4. QED
    BY <2>2, <2>3, TypePartsNext
<1>2. QED
  BY <1>1, RoomStepTyped, PageStepTyped DEF Next

\* The page, its requests and the handler of its source have the declared types, the
\* bounds are kept, and an event source is there exactly when its handler is.
THEOREM TypeCorrect == Spec => []TypeOK
  BY TypeInit, TypeStep, PTL DEF Spec

-------------------------------------------------------------------------------
(* Which list the page will show when no request is left, and of which room. *)

Newest == IF answers # <<>> THEN answers[Len(answers)] ELSE shown
LatestRoom == IF requests # <<>> THEN requests[Len(requests)] ELSE Newest.room

LEMMA FetchAsks ==
    ASSUME TypeOK, NEW r \in Rooms, Fetch(r)
    PROVE  requests' # <<>> /\ LatestRoom' = r
<1>1. requests' \in Seq(Rooms) /\ Len(requests') = Len(requests) + 1 /\ requests'[Len(requests')] = r
  BY FetchTyped
<1>2. requests' # <<>>
  BY <1>1, LenProperties, EmptySeq DEF TypeOK
<1>3. QED
  BY <1>1, <1>2 DEF LatestRoom

LEMMA OneOrMore == \A n \in Nat : n >= 1 => n = 1 \/ n > 1
  OBVIOUS

\* A read in its turn leaves the latest request the latest, or answers it.
LEMMA ReadKeeps ==
    ASSUME TypeOK, NEW i \in 1 .. Len(requests), Read(i), orderly'
    PROVE  /\ orderly /\ LatestRoom' = LatestRoom
           /\ requests' = <<>> /\ LatestRoom = Here => Newest'.version = version
<1> DEFINE a == [room |-> requests[i], version |-> IF requests[i] = Here THEN version ELSE 0]
<1>1. \/ orderly' = FALSE
      \/ answers' = Append(answers, a) /\ orderly' = (orderly /\ i = 1)
  BY DEF Read
<1>2. answers' = Append(answers, a) /\ orderly /\ i = 1
  BY <1>1
<1>3. requests' = RemoveAt(requests, i)
  BY DEF Read
<1>4. /\ requests \in Seq(Rooms) /\ answers \in Seq(List)
      /\ Len(requests) \in Nat /\ Len(answers) \in Nat /\ Len(requests) >= 1
  BY LenProperties DEF TypeOK
<1>5. a \in List
  <2>1. requests[i] \in Rooms /\ version \in 0 .. MaxVersion
    BY <1>4, ElementOfSeq DEF TypeOK
  <2>2. QED
    BY <2>1, BoardAssumption DEF List, BoardAssumption
<1> HIDE DEF a
<1>6. /\ requests' \in Seq(Rooms) /\ Len(requests') = Len(requests) - 1
      /\ Len(requests) > 1 => requests'[Len(requests')] = requests[Len(requests)]
  BY <1>2, <1>3, <1>4, Removed
<1>7. Newest' = a
  <2>1. answers' # <<>> /\ answers'[Len(answers')] = a
    BY <1>2, <1>4, <1>5, AppendProperties
  <2>2. QED
    BY <2>1 DEF Newest
<1>8. LatestRoom = requests[Len(requests)]
  BY <1>4 DEF LatestRoom
<1>9. CASE Len(requests) > 1
  <2>1. requests' # <<>>
    BY <1>4, <1>6, <1>9, EmptySeq
  <2>2. LatestRoom' = requests'[Len(requests')]
    BY <2>1 DEF LatestRoom
  <2>3. QED
    BY <1>2, <1>6, <1>8, <1>9, <2>1, <2>2
<1>10. CASE Len(requests) = 1
  <2>1. requests' = <<>>
    BY <1>4, <1>6, <1>10, EmptySeq
  <2>2. LatestRoom' = a.room
    BY <1>7, <2>1 DEF LatestRoom
  <2>3. LatestRoom = a.room
    BY <1>2, <1>8, <1>10 DEF a
  <2>4. LatestRoom = Here => a.version = version
    BY <1>2, <1>8, <1>10 DEF a
  <2>5. QED
    BY <1>2, <1>7, <2>2, <2>3, <2>4
<1>11. Len(requests) = 1 \/ Len(requests) > 1
  BY <1>4, OneOrMore
<1>12. QED
  BY <1>9, <1>10, <1>11

\* A list shown in its turn was the newest, or leaves the newest among the answers.
LEMMA ShowKeeps ==
    ASSUME TypeOK, NEW i \in 1 .. Len(answers), Show(i), orderly'
    PROVE  orderly /\ requests' = requests /\ Newest' = Newest /\ LatestRoom' = LatestRoom
<1>1. orderly /\ i = 1
  BY DEF Show
<1>2. requests' = requests /\ answers' = RemoveAt(answers, i) /\ shown' = answers[i]
  BY DEF Show
<1>3. answers \in Seq(List) /\ Len(answers) \in Nat /\ Len(answers) >= 1
  BY LenProperties DEF TypeOK
<1>4. /\ answers' \in Seq(List) /\ Len(answers') = Len(answers) - 1
      /\ Len(answers) > 1 => answers'[Len(answers')] = answers[Len(answers)]
  BY <1>1, <1>2, <1>3, Removed
<1>5. Newest = answers[Len(answers)]
  BY <1>3 DEF Newest
<1>6. CASE Len(answers) > 1
  <2>1. answers' # <<>>
    BY <1>3, <1>4, <1>6, EmptySeq
  <2>2. Newest' = Newest
    BY <1>4, <1>5, <1>6, <2>1 DEF Newest
  <2>3. QED
    BY <1>1, <1>2, <2>2 DEF LatestRoom
<1>7. CASE Len(answers) = 1
  <2>1. answers' = <<>>
    BY <1>3, <1>4, <1>7, EmptySeq
  <2>2. Newest' = Newest
    BY <1>1, <1>2, <1>5, <1>7, <2>1 DEF Newest
  <2>3. QED
    BY <1>1, <1>2, <2>2 DEF LatestRoom
<1>8. Len(answers) = 1 \/ Len(answers) > 1
  BY <1>3, OneOrMore
<1>9. QED
  BY <1>6, <1>7, <1>8

-------------------------------------------------------------------------------
(* The selection, the source, and the room asked for last. *)

\* The source is open for Here only, and closed while There is selected, so that only
\* Here's notices are heard, and never in There.
Heard ==
    /\ currentRoomId = Here => source = Here
    /\ source = Here => currentRoomId # There
    /\ inbox > 0 => source = Here

\* The page asked last for the room selected.
Asked == orderly /\ currentRoomId # None => LatestRoom = currentRoomId

LEMMA HeardStep == TypeOK /\ Heard /\ [Next]_vars => Heard'
<1> SUFFICES ASSUME TypeOK, Heard, [Next]_vars PROVE Heard'
  OBVIOUS
<1> USE BoardAssumption DEF BoardAssumption, Heard
<1>t. inbox \in Nat /\ source \in {Here, None} /\ (source = None <=> handler = "none")
  BY DEF TypeOK
<1>1. CASE UNCHANGED <<currentRoomId, source, inbox>>
  BY <1>1
<1>2. CASE RoomStep
  <2>1. UNCHANGED <<currentRoomId, source>>
    BY <1>2 DEF RoomStep, Change, Arrive, Announce, Snapshot, Push, PushVerdict, Drop,
                Register, Refuse, Enter, Write, Loop, GhostSteps, page, selection
  <2>2. UNCHANGED inbox \/ Write
    BY <1>2 DEF RoomStep, Change, Arrive, Announce, Snapshot, Push, PushVerdict, Drop,
                Register, Refuse, Enter, Loop, GhostSteps
  <2>3. CASE Write
    BY <1>t, <2>1, <2>3 DEF Write
  <2>4. QED
    BY <1>1, <2>1, <2>2, <2>3
<1>3. CASE SelectHere \/ SelectThere \/ Left
  BY <1>t, <1>3 DEF SelectHere, SelectThere, Left, ConnectToRoomEvents, CloseSource, GiveUpSource
<1>4. CASE SelectNone \/ Reconnect \/ HandleLeaderboardUpdate \/ Refresh
  BY <1>t, <1>4 DEF SelectNone, Reconnect, HandleLeaderboardUpdate, Refresh, ConnectToRoomEvents,
                    GiveUpSource, selection
<1>5. CASE (\E i \in 1 .. Len(requests) : Read(i)) \/ (\E i \in 1 .. Len(answers) : Show(i))
  <2>1. UNCHANGED <<currentRoomId, source, inbox>>
    BY <1>5 DEF Read, Show, selection
  <2>2. QED
    BY <1>1, <2>1
<1>6. CASE UNCHANGED vars
  <2>1. UNCHANGED <<currentRoomId, source, inbox>>
    BY <1>6 DEF vars, selection
  <2>2. QED
    BY <1>1, <2>1
<1>7. QED
  BY <1>2, <1>3, <1>4, <1>5, <1>6 DEF Next, PageStep

\* Steps that leave the selection and the fetches alone leave Asked alone.
LEMMA AskedKept ==
    ASSUME Asked, UNCHANGED <<currentRoomId, requests, answers, orderly, shown>>
    PROVE  Asked' /\ Newest' = Newest /\ LatestRoom' = LatestRoom
<1>1. Newest' = Newest /\ LatestRoom' = LatestRoom
  BY DEF Newest, LatestRoom
<1>2. QED
  BY <1>1 DEF Asked

LEMMA AskedStep == TypeOK /\ Heard /\ Asked /\ [Next]_vars => Asked'
<1> SUFFICES ASSUME TypeOK, Heard, Asked, [Next]_vars PROVE Asked'
  OBVIOUS
<1>h. /\ Here \in Rooms /\ There \in Rooms /\ None \notin Rooms
      /\ currentRoomId \in Rooms \cup {None}
  BY BoardAssumption DEF BoardAssumption, Rooms, TypeOK
<1>1. CASE UNCHANGED vars \/ RoomStep \/ Reconnect
  <2>1. UNCHANGED <<currentRoomId, requests, answers, orderly, shown>>
    BY <1>1 DEF vars, RoomStep, Change, Arrive, Announce, Snapshot, Push, PushVerdict, Drop,
                Register, Refuse, Enter, Write, Loop, GhostSteps, page, selection, fetching, Reconnect
  <2>2. QED
    BY <2>1, AskedKept
<1>2. CASE SelectHere \/ SelectThere
  <2>1. PICK r \in Rooms : Fetch(r) /\ currentRoomId' = r
    BY <1>2, <1>h DEF SelectHere, SelectThere
  <2>2. QED
    BY <2>1, FetchAsks DEF Asked
<1>3. CASE SelectNone \/ Left
  BY <1>3 DEF SelectNone, Left, Asked
<1>4. CASE HandleLeaderboardUpdate
  <2>1. Fetch(Here) /\ currentRoomId' = currentRoomId
    BY <1>4 DEF HandleLeaderboardUpdate, selection
  <2>2. currentRoomId \in {Here, None}
    BY <1>4, <1>h DEF HandleLeaderboardUpdate, Heard, Rooms
  <2>3. QED
    BY <1>h, <2>1, <2>2, FetchAsks DEF Asked
<1>5. CASE Refresh
  <2>1. currentRoomId' = currentRoomId
    BY <1>5 DEF Refresh, selection
  <2>2. CASE currentRoomId = None
    BY <2>1, <2>2 DEF Asked
  <2>3. CASE currentRoomId # None
    <3>1. currentRoomId \in Rooms /\ Fetch(currentRoomId)
      BY <1>5, <1>h, <2>3 DEF Refresh
    <3>2. QED
      BY <2>1, <3>1, FetchAsks DEF Asked
  <2>4. QED
    BY <2>2, <2>3
<1>6. ASSUME NEW i \in 1 .. Len(requests), Read(i) PROVE Asked'
  <2>1. currentRoomId' = currentRoomId
    BY <1>6 DEF Read, selection
  <2>2. QED
    BY <1>6, <2>1, ReadKeeps DEF Asked
<1>7. ASSUME NEW i \in 1 .. Len(answers), Show(i) PROVE Asked'
  <2>1. currentRoomId' = currentRoomId
    BY <1>7 DEF Show, selection
  <2>2. QED
    BY <1>7, <2>1, ShowKeeps DEF Asked
<1>8. QED
  BY <1>1, <1>2, <1>3, <1>4, <1>5, <1>6, <1>7 DEF Next, PageStep

SelectionInv == TypeOK /\ Heard /\ Asked

LEMMA SelectionInvariant == Spec => []SelectionInv
<1>1. Init => SelectionInv
  BY TypeInit, BoardAssumption DEF Init, SelectionInv, Heard, Asked, BoardAssumption
<1>2. SelectionInv /\ [Next]_vars => SelectionInv'
  BY TypeStep, HeardStep, AskedStep DEF SelectionInv
<1>3. QED
  BY <1>1, <1>2, PTL DEF Spec

\* A room that is selected has its event source open.
THEOREM SelectedHeard == Spec => []SelectedHereIsHeard
<1>1. SelectionInv => SelectedHereIsHeard
  BY DEF SelectionInv, Heard, SelectedHereIsHeard
<1>2. QED
  BY <1>1, SelectionInvariant, PTL

\* Without requests pending the page shows a list of the room selected, unless one
\* failed or came out of turn.
THEOREM BoardOfSelection == Spec => []BoardIsOfSelection
<1>1. SelectionInv => BoardIsOfSelection
  BY DEF SelectionInv, Asked, BoardIsOfSelection, Quiet, LatestRoom, Newest
<1>2. QED
  BY <1>1, SelectionInvariant, PTL

-------------------------------------------------------------------------------
(* Unless the newest list is the list as it is, something will make the page ask. *)

\* The handler sends its player's arrival before it reaches its select.
ComesAnnounced == handler \in Unannounced <=> arrival = "none"

\* A change is yet to be announced, or a notice is on its way, or the page's own
\* arrival, of which the room tells everybody, is still to come.
Coming ==
    \/ busy > 0 \/ outbox > 0 \/ pushes > 0 \/ handler = "notice" \/ inbox > 0
    \/ ~listening \/ arrival \in {"none", "sent", "served"}

Pending ==
    orderly /\ ~missed /\ arrival # "failed" /\ currentRoomId = Here =>
        requests # <<>> \/ Coming \/ Newest.version = version

BoardInv == SelectionInv /\ ComesAnnounced /\ Pending

LEMMA ComesAnnouncedStep == TypeOK /\ ComesAnnounced /\ [Next]_vars => ComesAnnounced'
<1> SUFFICES ASSUME TypeOK, ComesAnnounced, [Next]_vars PROVE ComesAnnounced'
  OBVIOUS
<1>1. CASE UNCHANGED <<handler, arrival>>
  BY <1>1 DEF ComesAnnounced
<1>2. CASE Change \/ Snapshot \/ Drop \/ GhostSteps
  <2>1. UNCHANGED <<handler, arrival>>
    BY <1>2 DEF Change, Snapshot, Drop, GhostSteps
  <2>2. QED
    BY <1>1, <2>1
<1> USE DEF Unannounced
<1>3. CASE Arrive \/ Announce
  BY <1>3 DEF Arrive, Announce, ComesAnnounced
<1>4. CASE Push \/ PushVerdict \/ Register \/ Refuse \/ Enter \/ Write \/ Loop
  BY <1>4 DEF Push, PushVerdict, Register, Refuse, Enter, Write, Loop, ComesAnnounced
<1>5. CASE SelectHere \/ SelectThere \/ Reconnect \/ Left
  BY <1>5 DEF SelectHere, SelectThere, Reconnect, Left, ConnectToRoomEvents, CloseSource,
              GiveUpSource, ComesAnnounced
<1>6. CASE UNCHANGED vars \/ SelectNone \/ HandleLeaderboardUpdate \/ Refresh
  <2>1. UNCHANGED <<handler, arrival>>
    BY <1>6 DEF vars, stream, SelectNone, HandleLeaderboardUpdate, Refresh
  <2>2. QED
    BY <1>1, <2>1
<1>7. CASE (\E i \in 1 .. Len(requests) : Read(i)) \/ (\E i \in 1 .. Len(answers) : Show(i))
  <2>1. UNCHANGED <<handler, arrival>>
    BY <1>7 DEF Read, Show, stream
  <2>2. QED
    BY <1>1, <2>1
<1>8. QED
  BY <1>2, <1>3, <1>4, <1>5, <1>6, <1>7 DEF Next, PageStep, RoomStep

\* A step of the room that changes the list or uses up a notice leaves something else
\* to come.
LEMMA RoomStepComing ==
    ASSUME TypeOK, ComesAnnounced, RoomStep, ~missed', arrival' # "failed"
    PROVE  /\ ~missed /\ arrival # "failed"
           /\ Coming' \/ (~Coming /\ version' = version)
<1>t. /\ busy \in Nat /\ outbox \in Nat /\ pushes \in Nat /\ inbox \in Nat
      /\ arrival = "served" => busy > 0
  BY BoardAssumption DEF TypeOK, BoardAssumption
<1>a. arrival # "failed"
  BY DEF RoomStep, Change, Arrive, Announce, Snapshot, Push, PushVerdict, Drop, Register, Refuse,
         Enter, Write, Loop, GhostSteps, ComesAnnounced, Unannounced
<1> SUFFICES ~missed /\ (Coming' \/ (~Coming /\ version' = version))
  BY <1>a
<1>1. CASE Change
  <2>1. busy' > 0
    BY <1>t, <1>1 DEF Change
  <2>2. QED
    BY <1>1, <2>1 DEF Change, Coming
<1>2. CASE Arrive
  <2>1. busy' > 0
    BY <1>t, <1>2 DEF Arrive
  <2>2. QED
    BY <1>2, <2>1 DEF Arrive, Coming
<1>3. CASE Announce
  <2>1. outbox' > 0
    BY <1>t, <1>3 DEF Announce
  <2>2. QED
    BY <1>3, <2>1 DEF Announce, Coming
<1>4. CASE Snapshot
  <2>1. listening => pushes' > 0
    BY <1>t, <1>4 DEF Snapshot
  <2>2. UNCHANGED listening /\ UNCHANGED missed
    BY <1>4 DEF Snapshot
  <2>3. QED
    BY <2>1, <2>2 DEF Coming
<1>5. CASE Push
  BY <1>5 DEF Push, Coming
<1>6. CASE PushVerdict \/ Loop
  <2>1. /\ UNCHANGED <<version, busy, outbox, pushes, inbox, arrival>>
        /\ handler # "notice" /\ handler' # "notice"
    BY <1>6 DEF PushVerdict, Loop
  <2>2. UNCHANGED listening /\ UNCHANGED missed
    BY <1>6 DEF PushVerdict, Loop
  <2>3. Coming' <=> Coming
    BY <2>1, <2>2 DEF Coming
  <2>4. QED
    BY <2>1, <2>2, <2>3
<1>7. CASE Drop
  <2>1. ~missed /\ Spared
    BY <1>7 DEF Drop
  <2>2. handler' = "notice" \/ arrival' \in {"none", "sent", "served"}
    BY <1>7, <2>1 DEF Drop, Spared, ComesAnnounced, Unannounced
  <2>3. QED
    BY <2>1, <2>2 DEF Coming
<1>8. CASE Register \/ Refuse
  <2>1. arrival' = "none" /\ UNCHANGED missed
    BY <1>8 DEF Register, Refuse, ComesAnnounced, Unannounced
  <2>2. QED
    BY <2>1 DEF Coming
<1>9. CASE Enter
  BY <1>9 DEF Enter, Coming
<1>10. CASE Write
  <2>1. handler = "notice" => inbox' > 0
    BY <1>t, <1>10 DEF Write
  <2>2. /\ UNCHANGED <<version, busy, outbox, pushes, arrival>> /\ handler' # "notice"
        /\ handler # "notice" => inbox' = inbox
    BY <1>10 DEF Write
  <2>3. UNCHANGED listening /\ UNCHANGED missed
    BY <1>10 DEF Write
  <2>4. Coming' \/ ~Coming
    BY <2>1, <2>2, <2>3 DEF Coming
  <2>5. QED
    BY <2>2, <2>3, <2>4
<1>11. CASE GhostSteps
  BY <1>11 DEF GhostSteps, Coming
<1>12. QED
  BY <1>1, <1>2, <1>3, <1>4, <1>5, <1>6, <1>7, <1>8, <1>9, <1>10, <1>11 DEF RoomStep

LEMMA PendingStep == BoardInv /\ [Next]_vars => Pending'
<1> SUFFICES ASSUME BoardInv, [Next]_vars, orderly', ~missed', arrival' # "failed",
                    currentRoomId' = Here
             PROVE  requests' # <<>> \/ Coming' \/ Newest'.version = version'
  BY DEF Pending
<1>i. TypeOK /\ Heard /\ Asked /\ ComesAnnounced /\ Pending
  BY DEF BoardInv, SelectionInv
<1>h. Here \in Rooms /\ Here # None /\ Here # There
  BY BoardAssumption DEF BoardAssumption, Rooms
<1>1. CASE UNCHANGED <<version, busy, outbox, pushes, handler, arrival, inbox>>
           /\ UNCHANGED listening /\ UNCHANGED missed /\ orderly /\ currentRoomId = Here
           /\ (requests' # <<>> \/ (requests' = requests /\ Newest' = Newest))
  <2>1. Coming' <=> Coming
    BY <1>1 DEF Coming
  <2>2. QED
    BY <1>1, <1>i, <2>1 DEF Pending
<1>2. CASE RoomStep
  <2>1. UNCHANGED <<currentRoomId, requests, answers, orderly, shown>>
    BY <1>2 DEF RoomStep, Change, Arrive, Announce, Snapshot, Push, PushVerdict, Drop,
                Register, Refuse, Enter, Write, Loop, GhostSteps, page, selection, fetching
  <2>2. Newest' = Newest /\ requests' = requests /\ orderly /\ currentRoomId = Here
    BY <1>i, <2>1, AskedKept
  <2>3. /\ ~missed /\ arrival # "failed"
        /\ Coming' \/ (~Coming /\ version' = version)
    BY <1>2, <1>i, RoomStepComing
  <2>4. QED
    BY <1>i, <2>2, <2>3 DEF Pending
<1>3. CASE SelectHere \/ Reconnect
  <2>1. arrival' = "none"
    BY <1>3 DEF SelectHere, Reconnect, ConnectToRoomEvents, GiveUpSource
  <2>2. QED
    BY <2>1 DEF Coming
<1>4. CASE SelectThere \/ SelectNone \/ Left
  BY <1>4, <1>h DEF SelectThere, SelectNone, Left
<1>5. CASE HandleLeaderboardUpdate
  <2>1. Fetch(Here)
    BY <1>5 DEF HandleLeaderboardUpdate
  <2>2. QED
    BY <1>i, <1>h, <2>1, FetchAsks
<1>6. CASE Refresh
  <2>1. currentRoomId = Here
    BY <1>6 DEF Refresh, selection
  <2>2. Fetch(Here)
    BY <1>6, <1>h, <2>1 DEF Refresh
  <2>3. QED
    BY <1>i, <1>h, <2>2, FetchAsks
<1>7. ASSUME NEW i \in 1 .. Len(requests), Read(i)
      PROVE  requests' # <<>> \/ Newest'.version = version'
  <2>1. currentRoomId = Here /\ version' = version
    BY <1>7 DEF Read, selection, stream
  <2>2. orderly /\ (requests' = <<>> /\ LatestRoom = Here => Newest'.version = version)
    BY <1>7, <1>i, ReadKeeps
  <2>3. LatestRoom = Here
    BY <1>i, <1>h, <2>1, <2>2 DEF Asked
  <2>4. QED
    BY <2>1, <2>2, <2>3
<1>8. ASSUME NEW i \in 1 .. Len(answers), Show(i)
      PROVE  requests' # <<>> \/ Coming' \/ Newest'.version = version'
  <2>1. /\ UNCHANGED <<version, busy, outbox, pushes, handler, arrival, inbox>>
        /\ UNCHANGED listening /\ UNCHANGED missed /\ currentRoomId = Here
    BY <1>8 DEF Show, selection, stream
  <2>2. orderly /\ requests' = requests /\ Newest' = Newest
    BY <1>8, <1>i, ShowKeeps
  <2>3. QED
    BY <1>1, <2>1, <2>2
<1>9. CASE UNCHANGED vars
  <2>1. /\ UNCHANGED <<version, busy, outbox, pushes, handler, arrival, inbox>>
        /\ UNCHANGED listening /\ UNCHANGED missed
        /\ UNCHANGED <<currentRoomId, requests, answers, orderly, shown>>
    BY <1>9 DEF vars, stream, fetching, selection
  <2>2. orderly /\ currentRoomId = Here /\ requests' = requests /\ Newest' = Newest
    BY <2>1, <1>i, AskedKept
  <2>3. QED
    BY <1>1, <2>1, <2>2
<1>10. QED
  BY <1>2, <1>3, <1>4, <1>5, <1>6, <1>7, <1>8, <1>9 DEF Next, PageStep

\* Once nothing is under way, a page that listens shows the list as it is, unless a
\* request failed or came out of turn, the room's processing of its own arrival failed,
\* or the handler missed a notice that nothing made up for.
THEOREM SettledBoard == Spec => []SettledBoardIsCurrent
<1>1. Init => BoardInv
  <2>1. Init => SelectionInv
    BY TypeInit, BoardAssumption DEF Init, SelectionInv, Heard, Asked, BoardAssumption
  <2>2. Init => ComesAnnounced /\ Pending
    BY BoardAssumption DEF Init, ComesAnnounced, Unannounced, Pending, BoardAssumption
  <2>3. QED
    BY <2>1, <2>2 DEF BoardInv
<1>2. BoardInv /\ [Next]_vars => BoardInv'
  BY TypeStep, HeardStep, AskedStep, ComesAnnouncedStep, PendingStep DEF BoardInv, SelectionInv
<1>3. BoardInv => SettledBoardIsCurrent
  <2> SUFFICES ASSUME BoardInv, Settled, orderly, arrival # "failed", ~missed
               PROVE  shown = [room |-> Here, version |-> version]
    BY DEF SettledBoardIsCurrent
  <2>1. Quiet /\ currentRoomId = Here /\ Here # None
    BY BoardAssumption DEF Settled, BoardAssumption
  <2>2. Newest = shown /\ LatestRoom = shown.room
    BY <2>1 DEF Newest, LatestRoom, Quiet
  <2>3. shown.room = Here
    BY <2>1, <2>2 DEF BoardInv, SelectionInv, Asked
  <2>4. ~Coming
    <3>1. ~(busy > 0) /\ ~(inbox > 0) /\ ~(outbox > 0) /\ ~(pushes > 0)
      BY DEF Settled, BoardInv, SelectionInv, TypeOK
    <3>2. listening /\ handler = "select" /\ arrival \notin {"none", "sent", "served"}
      BY DEF Settled, BoardInv, ComesAnnounced, Unannounced
    <3>3. QED
      BY <3>1, <3>2 DEF Coming
  <2>5. shown.version = version
    BY <2>1, <2>2, <2>4 DEF BoardInv, Pending, Quiet
  <2>6. shown \in List
    BY DEF BoardInv, SelectionInv, TypeOK
  <2>7. QED
    BY <2>3, <2>5, <2>6 DEF List
<1>4. QED
  BY <1>1, <1>2, <1>3, PTL DEF Spec

===============================================================================
