SPECIFICATION Spec
CONSTANTS
  Timeout = 0
  Skew = 1
  MinInterval = 0
  Events = {}
  Wishes = {"on", "off"}
  Polled = FALSE
  MaxFlight = 2
INVARIANTS TruthfulUnlessRaced GateFromLaunch
PROPERTIES GateFollowsPolicy
CHECK_DEADLOCK FALSE
