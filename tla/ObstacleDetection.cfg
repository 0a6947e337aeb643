CONSTANTS
  StopCancels = FALSE
  Readings = {10, 20, 40}
  Distances = {15, 30}
  Periods = {0, 100}
  DataPoints = {5, 10}
SPECIFICATION FairSpec
INVARIANTS
  MapFits ReadingsInDirection
PROPERTIES
  ImplementsService
CHECK_DEADLOCK FALSE
