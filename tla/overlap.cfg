SPECIFICATION Spec
CONSTANTS
  early = early
  late = late
  Serials <- MCSerials
  Launch <- MCLaunch
  Land <- MCLand
  Capacity = 1
  Silent = 1
  Lost = 1
  Stale = 2
  HoldMax = 1
  MaxTime = 4
  MaxRestarts = 0
PROPERTIES
  HeardMeanwhileIsKept
CHECK_DEADLOCK FALSE
