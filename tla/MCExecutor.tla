------------------------------ MODULE MCExecutor ------------------------------
(* Instances of Executor and of its refinement for TLC; the constants are given *)
(* in the .cfg files.                                                           *)
EXTENDS ExecutorRefinement
===============================================================================
