CONSTANTS
  StopCancels = FALSE
  Distances <- MCDistances
  Degrees <- MCDegrees
  Backlog = 2
SPECIFICATION Spec
INVARIANTS
  ResetRespected
