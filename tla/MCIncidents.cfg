\* Three events in three instants, delivered in any order and more than once.
SPECIFICATION Spec
CONSTANTS
  Sessions = {s1, s2}
  Wired = {"crashed", "disconnected", "failed", "task", "ready", "heartbeat"}
  Window = 1
  Delay = 1
  MaxClock = 2
  MaxEvents = 3
  MaxOperations = 1
SYMMETRY Symmetry
INVARIANTS
  DeliveredOnce
  LoopIsThreeCrashes
PROPERTIES
  HistoryStays
CHECK_DEADLOCK FALSE
