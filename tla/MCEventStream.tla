----------------------------- MODULE MCEventStream -----------------------------
(* Instances of EventStream for TLC: which connections there are.  *)
EXTENDS EventStream

CONSTANTS a, b   \* players

Connection(p, n) == [player |-> p, no |-> n]

\* one player connects twice: a reconnect, or two tabs at once
Twice == {Connection(a, 1), Connection(a, 2)}

TwiceRequests == UNION {{Joined(k), Left(k)} : k \in Twice}

NoUnknown == {}
NoRows == {}
===============================================================================
