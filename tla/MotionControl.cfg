CONSTANTS
  StopCancels = FALSE
  Distances <- MCDistances
  Degrees <- MCDegrees
  Backlog = 2
SPECIFICATION FairSpec
INVARIANTS
  FrameIntegrity WheelsMatchState StartingIsServed TimerOfMotion
PROPERTIES
  MotionEnds ImplementsService
