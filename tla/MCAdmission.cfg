CONSTANTS
  Key <- MCKey
  Requests <- MCRequests
  Replaces <- MCReplaces
  Composition <- MCComposition
SPECIFICATION FairSpec
INVARIANTS
  OneOwner
  AcyclicNowAndThen
  DisposedIsEmpty
PROPERTIES
  StartsSettle
  ImplementsRegistry
CHECK_DEADLOCK FALSE
