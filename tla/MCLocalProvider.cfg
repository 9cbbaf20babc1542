CONSTANTS
  Calls = {k1}
  MaxGeneration = 2
  Listeners = {a, b}
  Installations = {"service", "action"}
  MaxDepth = 3
SPECIFICATION Spec
SYMMETRY
  AnyListener
INVARIANTS
  CatalogIsCurrent
  ServiceOutlivesUse
PROPERTIES
  BlameIsRight
CHECK_DEADLOCK FALSE
