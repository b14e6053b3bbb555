SPECIFICATION Spec
CONSTANTS
  near = near
  far = far
  watcher = watcher
  Subs <- MCSubs
  Muted = {watcher}
  Home <- MCHome
  Radius = 2
  Points <- MCPoints
  UpdateMove = 2
  Throttle = 2
  MaxTime = 2
  MaxCrashes = 0
INVARIANTS
  ClearingResendsNothing
