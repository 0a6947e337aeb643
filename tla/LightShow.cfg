CONSTANTS
  Asks <- MCAsks
  MaxAsks = 2
  MaxTimeouts = 1
SPECIFICATION ShowSpec
INVARIANTS OneDecklight HeadlightsAgree
CHECK_DEADLOCK FALSE
