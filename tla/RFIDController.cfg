CONSTANTS
  StopCancels = FALSE
  NumTags = {1, 2, 6}
  TagsInField = 6
SPECIFICATION FairSpec
INVARIANTS
  AnswersMatch ReaderIsExpected TagsCountedOnce
PROPERTIES
  CommandsEnd
CHECK_DEADLOCK FALSE
