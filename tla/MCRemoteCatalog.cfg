CONSTANTS
  Calls = {k1}
  MaxIncarnation = 2
  MaxChanges = 2
  MaxFailures = 1
SPECIFICATION FairSpec
INVARIANTS
  SnapshotIsTrue
PROPERTIES
  OneIncarnation
  DisposedIsFinal
  WaitsSettle
CHECK_DEADLOCK FALSE
