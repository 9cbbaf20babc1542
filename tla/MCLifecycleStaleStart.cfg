CONSTANTS
  host = host
  plugin = plugin
  successor = successor
  service = service
  action = action
  offer = offer
  cap = cap
  Installation <- AloneInstallation
  Contribution <- AloneContribution
  Parts <- AloneParts
  Capability = {cap}
  Provides <- AloneProvides
  Requires <- AloneRequires
  Disposable = {plugin}
  MaxCalls = 3
  OpenWindows = {"observation"}
SPECIFICATION Spec
INVARIANT
  OneGeneration
CHECK_DEADLOCK FALSE
