SPECIFICATION FairSpec
CONSTANTS
  Chapters = {1}
  VersionsOf <- PairVersionsOf
  Events <- PairEvents
  ChapterOf <- PairChapterOf
  SlotOf <- PairSlotOf
  ValueOf <- PairValueOf
  Risky = {}
  Readings <- PairReadings
  Manuals = {}
  AuthorWrites <- WayAuthorWrites
  Tasks = {t1, t2}
  Overlapping = TRUE
  Reverting = FALSE
  Retirable = {}
  MaxRevision = 3
  InOrder = TRUE
  MaxForced = 0
PROPERTIES SavedChaptersAreSettled
CHECK_DEADLOCK FALSE
