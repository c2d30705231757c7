\* Two threads whose requests overlap; the task comes and goes.
SPECIFICATION Spec
CONSTANTS
  t1 = t1
  t2 = t2
  Threads = {t1, t2}
  Fits = {"ok", "gone"}
SYMMETRY Symmetry
PROPERTIES
  ReconcileHeals
  ConfigureAllOrNothing
CHECK_DEADLOCK FALSE
