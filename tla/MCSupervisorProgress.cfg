\* Operations end and reconciliation converges while the status is polled: two
\* threads, one generation (no symmetry: a liveness run).
SPECIFICATION PolledSpec
CONSTANTS
  Threads = {t1, t2}
  NoThread = NoThread
  MaxGen = 1
PROPERTIES
  LockReleased
  DeadIsNoticed
  LiveIsAdopted
