SPECIFICATION Spec
CONSTANTS
  Chapters = {1, 2}
  VersionsOf <- WayVersionsOf
  Events <- WayEvents
  ChapterOf <- WayChapterOf
  SlotOf <- WaySlotOf
  ValueOf <- WayValueOf
  Risky <- WayRisky
  Readings <- WayReadings
  Manuals = {"m1"}
  AuthorWrites <- WayAuthorWrites
  Tasks = {t1}
  Overlapping = FALSE
  Reverting = FALSE
  Retirable = {"oath"}
  MaxRevision = 3
  InOrder = TRUE
  MaxForced = 1
INVARIANTS TypeOK NoStaleFacts NoHoles NoMemoryOfDiscardedChapters 
PROPERTIES AuthorsFactsStand 
CHECK_DEADLOCK FALSE
