SPECIFICATION PipelineSpec
CONSTANTS
  s1 = s1
  s2 = s2
  Serials = {s1, s2}
  Keys <- MCKeys
  Times <- MCTimes
  Hold = 1
  Ttl = 2
  MaxCalls = 5
  QueueMax = 6
  Batch = 2
  Shed = 4
  Others = {0, 1}
  Timeout = 4
  TickEvery = 2
  Base = 1
  MaxDelay = 2
  MaxAttempt = 1
  Top = 3
  Bursts = {3, 10}
  Grounds = {0, 1}
  Rates = {1, 2}
  Speeds = {1, 2}
  MaxSteps = 9
  ClimbPoints = 2
  FallPoints = 3
  Coverage = 50
  Members = 4
  Interval = 2
  Views = {"map", "flights", "accuracy", "history", "alerts"}
  Versions = {"v1"}
  MaxFetches = 2
  MaxWrites = 3
SYMMETRY MCSymmetry
INVARIANTS
  PipelineTypeOK
  EmittedInOrder
  RepeatsOnlyPastTtl
  RefusedOnlyBeyondHold
  HeldIsRecent
  NotSilencedByBacklog
  PublishedIsSound
  PageCatchesUp
\* the frames end at the bound MaxCalls
CHECK_DEADLOCK FALSE
