SPECIFICATION AlertSpec
CONSTANTS
  MAXREGMOD = 2
  MaxAlerts = 2
  MaxChanges = 2
  MaxInputs = 3
  Asked = {"MOTOR_FULL_REVERSE", "LFT_STOP", "neither"}
INVARIANTS RestMeansReady 
PROPERTIES AlertStopsSpeed
CHECK_DEADLOCK FALSE
