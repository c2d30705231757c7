----------------------------- MODULE MCSupervisor -----------------------------
(***************************************************************************)
(* Instances of Supervisor for TLC.                                        *)
(***************************************************************************)
EXTENDS Supervisor, TLC

Symmetry == Permutations(Threads)
===============================================================================
