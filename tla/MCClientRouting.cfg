CONSTANTS
  Connections <- MCConnections
  Providers <- MCProviders
  ProviderOf <- MCProviderOf
  Directives <- MCDirectives
  Calls = {c1}
  Casts = {b1}
  MaxAttachments = 3
  MaxChanges = 1
SPECIFICATION MCSpec
INVARIANTS
  SubscriptionsOwned
  BroadcastIsComplete
PROPERTIES
  NeverRerouted
  NoLateValue
  CallsSettle
CHECK_DEADLOCK FALSE
