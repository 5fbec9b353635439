------------------------------- MODULE MCClient -------------------------------
(* Instances of Client for TLC; the constants are in the .cfg. *)
EXTENDS Client
===============================================================================
