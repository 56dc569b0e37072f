SPECIFICATION FairSpec
CONSTANTS
  MaxTexts = 3
  MaxMishaps = 1
  ReopenWhileDirty = FALSE
 
PROPERTIES DraftIsKept DraftGetsSaved
CHECK_DEADLOCK FALSE
