CONSTANTS
  host = host
  plugin = plugin
  successor = successor
  service = service
  action = action
  offer = offer
  cap = cap
  Installation <- PairInstallation
  Contribution <- PairContribution
  Parts <- PairParts
  Capability = {cap}
  Provides <- PairProvides
  Requires <- PairRequires
  Disposable = {host}
  MaxCalls = 1
  OpenWindows = {"observation", "reaction", "report"}
SPECIFICATION FairSpec
INVARIANTS
  TypeOK
  CaughtUp
PROPERTIES
  StopsSettle
CHECK_DEADLOCK FALSE
