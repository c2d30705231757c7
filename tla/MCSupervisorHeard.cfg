\* README: a fresh current-instance heartbeat restores online state.
SPECIFICATION Spec
CONSTANTS
  Threads = {t1, t2}
  NoThread = NoThread
  MaxGen = 2
SYMMETRY Symmetry
INVARIANTS
  CurrentInstanceHeard
