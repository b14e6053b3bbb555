SPECIFICATION Spec
CONSTANTS
  LastDay = 2
  MaxCrashes = 0
  MaxRebuilds = 1
INVARIANTS
  RebuildKeepsInbound
