SPECIFICATION Spec
CONSTANTS
  Period = 6
  Early = 4
  Late = 4
  Latency = 4
  Cadence = 6
  Keep = 0
  MaxFxx = 12
  CacheMax = 6
  Cap = 17
INVARIANT TightPair
