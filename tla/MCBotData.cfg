\* Two requests: among three backups of which retention keeps one, one write; of
\* workflows, three contents of the data.
SPECIFICATION MCSpec
CONSTANTS
  Jobs = {j1, j2}
  NoJob = NoJob
  Absent = Absent
  Mixed = Mixed
  Damaged = Damaged
  Limit = 1
  MaxRows = 3
  MaxVersion = 1
  Leaked = Leaked
  MaxWrites = 2
SYMMETRY Symmetry
INVARIANTS
  AbsenceIsRecoverable
PROPERTIES
  PreservesNewest
  ImplementsReplace
  NoLostUpdate
  RestartsOnlyValid
  OperationTruthful
CHECK_DEADLOCK FALSE
