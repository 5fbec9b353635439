----------------------------- MODULE MCRoomManager -----------------------------
(* Instances of RoomManager for TLC: small sets of requests, named in the .cfg. *)
EXTENDS RoomRefinement

CONSTANTS a, b   \* players

Req(k, p, n) == [kind |-> k, player |-> p, id |-> n]

\* one player comes and goes, two submit, the room is deleted
ComeAndGo == {Req("join", a, 1), Req("left", a, 2), Req("submit", a, 3),
              Req("submit", b, 4), Req("delete", a, 5)}

\* one player comes twice, submits, and goes
TwoTabs == {Req("join", a, 1), Req("join", a, 2), Req("submit", a, 3), Req("left", a, 4)}

\* a submission while others use the room
Busy == {Req("submit", a, 1), Req("join", a, 2), Req("join", b, 3)}

NoUnknown == {}

NoRows == {}

\* a row just made when the life ended, not ranked yet
Unranked == {[score |-> 12, place |-> 10]}
===============================================================================
