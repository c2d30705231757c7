SPECIFICATION Spec
CONSTANTS
  s1 = s1
  s2 = s2
  Sockets = {s1, s2}
  Keys = {"bot.view", "console.view"}
  Buffer = 2
  Limit = 1
  Queue = 1
  PerUser = 2
  Sizes <- TheSizes
INVARIANTS NothingMissed InOrder 
PROPERTIES AccessEnforced CatchesUp
CHECK_DEADLOCK FALSE
