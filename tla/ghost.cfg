SPECIFICATION Spec
CONSTANTS
  LastDay = 1
  MaxCrashes = 1
  MaxRebuilds = 0
INVARIANTS
  ResumedExpiredNeverRecorded
