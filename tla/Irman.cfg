SPECIFICATION Spec
CONSTANTS
  MaxCommands = 4
INVARIANTS TurningIsWatched TimerServesWheels
PROPERTIES EdgeStopsRobot CommandsTakeEffect AlertEnds
CHECK_DEADLOCK FALSE
