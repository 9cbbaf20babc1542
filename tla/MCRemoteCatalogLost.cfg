CONSTANTS
  Calls = {k1}
  MaxIncarnation = 1
  MaxChanges = 2
  MaxFailures = 1
SPECIFICATION Spec
INVARIANT
  InvalidationForcesRead
CHECK_DEADLOCK FALSE
