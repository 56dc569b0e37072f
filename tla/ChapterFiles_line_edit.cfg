SPECIFICATION Spec
CONSTANTS
  Chapters = {1}
  Titles = {1}
  Sessions = {s1, s2}
  Words <- MCWords
  MaxTexts = 3
  MaxCalls = 3
PROPERTY LineEditKeepsSaves
CHECK_DEADLOCK FALSE
