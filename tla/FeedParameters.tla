----------------------------- MODULE FeedParameters ----------------------------
\* What the modules of a bot's feeds are parameterised by.
EXTENDS Integers

CONSTANTS
  Guilds,
  Stale,         \* age from which a guild's row is stale; a snapshot is refused at twice that
  MaxFlight,     \* bound: snapshots under way
  StaleAfter,    \* telemetry_stale_after_seconds
  MaxInstances   \* bound: instances of the bot

ASSUME StaleAssumption == Stale \in Nat /\ StaleAfter \in Nat
ASSUME BoundAssumption == MaxFlight \in Nat /\ MaxInstances \in Nat \ {0}
===============================================================================
