CONSTANTS
  k1 = k1
  k2 = k2
  Keys = {k1, k2}
  MaxMounts <- MCMaxMounts
  Inspector = k1
  Servers = {s, t}
  Publishers = {p, q}
  MaxAttempts = 3
  LastServer = 3
  MaxViews = 4
  MaxPublication = 3
  InspectorCalls = {x, y, z}
SPECIFICATION Spec
INVARIANTS
  OneViewPerEntry
  PageFollows
  PublishedIsWhole
  OneHostProvider
  ViewIsCurrent
  MarkerIsTrue
  RulesOwned
CHECK_DEADLOCK FALSE
