\* Two runs, manual or scheduled, of a task that forbids overlap, under fairness.
SPECIFICATION FairSpec
CONSTANTS
  ForbidOverlap = TRUE
  MaxRuns = 2
INVARIANTS
  NoOverlap
  KeyAccounted
  CompletedIsRecorded
PROPERTIES
  EndIsFinal
  RunEnds
  OperationSettles
