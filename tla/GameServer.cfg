SPECIFICATION Spec
CONSTANTS
  Clients = {anna, bert}
  NoClient = NoClient
  MAX_NUM_RAGOBOTS = 1
  MAX_NUM_TAGS = 2
  MaxTags = 3
  MaxClicks = 2
INVARIANTS OneSteerer OnlyFirstHintIsMistaken
PROPERTIES MovesInOrder ClicksArePassedOn FreeRobotIsGiven
CHECK_DEADLOCK FALSE
