------------------------------ MODULE MCTaskRuns ------------------------------
(***************************************************************************)
(* Instances of TaskRuns for TLC.                                          *)
(***************************************************************************)
EXTENDS TaskRuns
===============================================================================
