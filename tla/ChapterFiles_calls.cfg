SPECIFICATION FairSpec
CONSTANTS
  Chapters = {1}
  Titles = {1, 2}
  Sessions = {s1, s2}
  Words <- MCWords
  MaxTexts = 3
  MaxCalls = 2
INVARIANTS TypeOK NoSavedTextLost NoWordCountedTwice 
PROPERTIES PipelineKeepsSaves 
CHECK_DEADLOCK FALSE
