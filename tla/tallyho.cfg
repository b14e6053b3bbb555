SPECIFICATION Spec
CONSTANTS
  LastDay = 2
  MaxCrashes = 2
  MaxRebuilds = 2
INVARIANTS
  TypeOK
  FlightsAgree
  LandingsAreRetracted
  TruthIsOwn
  InboundGetsLanded
  InboundOncePerKey
