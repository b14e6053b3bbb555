SPECIFICATION Spec
CONSTANTS
  Alts <- MCAlts
  Grounds <- MCGrounds
  BurstDrop = 0
  BurstConsecutive = 2
  MinGain = 1
  MinAirborne = 2
  RevertClimb = 0
  FloatMin = 2
  FloatWindow = 1
  LandedBand = 0
  LowBand = 1
  NewAscentClimb = 1
  NewAscentConsecutive = 2
  RedescentDrop = 0
  RedescentConsecutive = 2
  GlitchAcceptAfter = 1
  LandedTimeout = 1
  DescentLost = 2
  AscentLost = 3
  Stale = 4
  MaxRestarts = 1
INVARIANTS
  TypeOK
  FallsFromHigh
  BurstRecordedRight
  CloseOutsAreUndone
PROPERTIES
  TouchdownIsFinal
  ReopeningIsSustained
  SilentFlightCloses
  FollowsLifecycle
