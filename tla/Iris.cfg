SPECIFICATION Spec
CONSTANTS
  NUM__OF_CHANNELS = 2
  BITS = 2
  MAX_BUFFER_LEN = 4
  MaxReports = 3
  MaxFaults = 2
INVARIANTS FramesStayWhole
PROPERTIES ReportsGetOut
CHECK_DEADLOCK FALSE
