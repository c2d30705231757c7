\* Once the policy stays, answers that keep arriving make all agree.
SPECIFICATION Spec
CONSTANTS
  Timeout = 0
  Skew = 1
  MinInterval = 0
  Events = {}
  Wishes = {"on", "off"}
  Polled = FALSE
  MaxFlight = 1
PROPERTIES Converges
CHECK_DEADLOCK FALSE
