CONSTANTS
  StopCancels = FALSE
  Clients = {nav, orient}
  MaxCnt = 4
  StartBytes = {}
  MaxLost = 3
  MaxRow = 1
SPECIFICATION FairSpec
INVARIANTS
  LocationIsWhole RequestsAreServed SamplesAreCounted
PROPERTIES
  RequestsAreTold
