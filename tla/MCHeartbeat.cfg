SPECIFICATION Spec
CONSTANTS
  Timeout = 0
  Skew = 1
  MinInterval = 0
  Events = {"down", "ready"}
  Wishes = {}
  Polled = TRUE
  MaxFlight = 1
PROPERTIES OnlineIsRecent
CHECK_DEADLOCK FALSE
