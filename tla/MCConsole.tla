------------------------------ MODULE MCConsole -------------------------------
(***************************************************************************)
(* Instances of Console for TLC.                                           *)
(***************************************************************************)
EXTENDS Console, TLC

CONSTANTS s1, s2

\* Two sockets across a restart of the supervisor; one socket while records are
\* dropped; two sockets, and one, while the access changes.
TheSizes == {
  [sockets |-> {s1, s2}, runs |-> 2, records |-> 1, changes |-> 0],
  [sockets |-> {s1, s2}, runs |-> 1, records |-> 3, changes |-> 0],
  [sockets |-> {s1},     runs |-> 2, records |-> 3, changes |-> 0],
  [sockets |-> {s1, s2}, runs |-> 1, records |-> 0, changes |-> 1],
  [sockets |-> {s1},     runs |-> 1, records |-> 1, changes |-> 2]}
===============================================================================
