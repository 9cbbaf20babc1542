CONSTANTS
  host = host
  plugin = plugin
  successor = successor
  service = service
  action = action
  offer = offer
  cap = cap
  Installation <- TurnInstallation
  Contribution <- TurnContribution
  Parts <- TurnParts
  Capability = {cap}
  Provides <- TurnProvides
  Requires <- TurnRequires
  Disposable = {host}
  MaxCalls = 1
  OpenWindows = {}
SPECIFICATION Spec
INVARIANTS
  SuccessorWaits
  OneGeneration
  IdleHoldsNothing
  BlockedKeepsReservation
PROPERTIES
  DependentsFirst
  BlockedIsFinal
CHECK_DEADLOCK FALSE
