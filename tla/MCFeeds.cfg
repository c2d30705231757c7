SPECIFICATION MCSpec
CONSTANTS
  Guilds = {"g"}
  Stale = 0
  MaxFlight = 2
  MaxInstances = 2
  StaleAfter = 1
INVARIANTS
  ActivityAddsUp
  CurrentIsRecent
PROPERTIES
  Refreshed
  AvailableWasAlive
  Sampled
  Forgotten
CHECK_DEADLOCK FALSE
