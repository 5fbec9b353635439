------------------------------- MODULE MCServer -------------------------------
(* Instances of Server for TLC; the constants are in the .cfg. *)
EXTENDS Server
===============================================================================
