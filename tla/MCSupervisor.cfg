\* Two server threads, two generations: every pair of concurrent requests.
SPECIFICATION Spec
CONSTANTS
  Threads = {t1, t2}
  NoThread = NoThread
  MaxGen = 2
SYMMETRY Symmetry
INVARIANTS
  NoSupersededProcess
  SupersededNotExpected
PROPERTIES
  IntentByOperation
  SignalOnlyWithdrawn
  ImplementsLifecycle
