CONSTANTS
  Work = {w1, w2}
  Cleanup = {c1, c2, c3}
  Setup = Setup
SPECIFICATION FairSpec
INVARIANTS
  QuiescentCleanup
  CleanupOrder
  TerminalStatus
PROPERTIES
  AbortIsAFence
  FailureIsAttributed
  CallsSettle
  ImplementsGeneration
