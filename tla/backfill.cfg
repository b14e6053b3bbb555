SPECIFICATION Spec
CONSTANTS
  early = early
  late = late
  Serials <- MCSerials
  Launch <- MCLaunch
  Land <- MCLand
  Capacity = 1
  Silent = 1
  Lost = 1
  Stale = 2
  HoldMax = 1
  MaxTime = 4
  MaxRestarts = 1
INVARIANTS
  TypeOK
  OneFetchEach
  GhostsAreReleased
PROPERTIES
  RebuildKeepsHeard
  SweepWaitsForHistory
\* the clock stops at MaxTime
CHECK_DEADLOCK FALSE
