---------------------------- MODULE AtomicReplace ----------------------------
(***************************************************************************)
(* What a restore promises about a bot's data, without requests, locks or  *)
(* renames.  The data is replaced as a whole, by the contents of an        *)
(* archive that was verified; while what it replaced is kept, the          *)
(* replacement can be undone, to exactly that; once it is no longer kept   *)
(* the replacement settles, and only then can a failure lose the data.     *)
(* Backups.tla is shown to implement this module.                          *)
(***************************************************************************)
CONSTANTS Contents, Absent, Damaged

VARIABLES
  data,      \* what the bot's data directory holds, or will once put back
  kept,      \* what a replacement under way would be undone to
  archived,  \* the contents of every archive that was ever verified
  phase      \* of a replacement: "whole" when there is none

replaceVars == <<data, kept, archived, phase>>

Init ==
  /\ data \in Contents
  /\ kept = Absent
  /\ archived = {}
  /\ phase = "whole"

\* The bot, or an editor, changes its own data.
Write ==
  /\ data # Absent
  /\ data' \in Contents
  /\ UNCHANGED <<kept, archived, phase>>

Archive ==
  /\ \E c \in Contents : archived' = archived \cup {c}
  /\ UNCHANGED <<data, kept, phase>>

Replace ==
  /\ phase = "whole"
  /\ data # Absent
  /\ data' \in archived
  /\ kept' = data
  /\ phase' = "replaced"
  /\ UNCHANGED archived

Undo ==
  /\ phase = "replaced"
  /\ data' = kept
  /\ kept' = Absent
  /\ phase' = "whole"
  /\ UNCHANGED archived

\* Removing what was kept starts, and stops halfway.
Spoil ==
  /\ phase = "replaced"
  /\ kept' = Damaged
  /\ UNCHANGED <<data, archived, phase>>

Settle ==
  /\ phase = "replaced"
  /\ kept' = Absent
  /\ phase' = "settled"
  /\ UNCHANGED <<data, archived>>

\* The replacement stands, recorded as such or not.
Stand ==
  /\ phase # "whole"
  /\ kept' = Absent
  /\ phase' = "whole"
  /\ UNCHANGED <<data, archived>>

\* A failure after the replacement settled: there is nothing to undo it to.
Lose ==
  /\ phase = "settled"
  /\ data' = Absent
  /\ phase' = "whole"
  /\ UNCHANGED <<kept, archived>>

Next ==
  Write \/ Archive \/ Replace \/ Undo \/ Spoil \/ Settle \/ Stand \/ Lose

Spec == Init /\ [][Next]_replaceVars
===============================================================================
