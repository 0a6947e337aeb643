CONSTANTS
  StopCancels = FALSE
  Backlog = 3
SPECIFICATION FairSpec
INVARIANTS
  NavigatingIsServed OrientingIsServed MovingIsServed
PROPERTIES
  KeepsMoving
CHECK_DEADLOCK FALSE
