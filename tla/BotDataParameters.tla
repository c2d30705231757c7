---------------------------- MODULE BotDataParameters --------------------------
\* What the modules of a bot's data are parameterised by.
EXTENDS Integers

CONSTANTS
  Jobs,        \* concurrent requests of the dashboard
  NoJob,       \* nobody; as an author of data, the bot itself
  Absent,      \* no directory, no archive
  Mixed,       \* what a copy that straddled a write holds
  Damaged,     \* what a removal that stopped halfway leaves
  Limit,       \* backup_retention_manual
  MaxRows,     \* bound: backups ever begun
  MaxVersion,  \* bound: writes to the data, of Backups
  Leaked,      \* holder of a workflow lock that is never released
  MaxWrites    \* bound: contents of the data, of Workflows

ASSUME NoJobAssumption  == NoJob \notin Jobs
ASSUME LimitAssumption  == Limit \in Nat \ {0}
ASSUME BoundAssumption  == MaxRows \in Nat /\ MaxVersion \in Nat /\ MaxWrites \in Nat
ASSUME NamesAssumption  ==
  /\ Absent \notin 0 .. MaxVersion \cup {Mixed, Damaged}
  /\ Mixed \notin 0 .. MaxVersion
  /\ Damaged \notin 0 .. MaxVersion
ASSUME LeakedAssumption == Leaked \notin Jobs \cup {NoJob}
===============================================================================
