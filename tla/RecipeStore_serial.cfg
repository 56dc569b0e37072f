SPECIFICATION Spec
CONSTANTS
    Ids = {"a", "b"}
    NoId = "none"
    Pages = {p1}
    Tools = {t1, t2}
    MaxEdits = 2
    MaxRevision = 3
    OverlappingSaves = FALSE
    ReloadWhileDirty = FALSE
    ReusedIds = FALSE
INVARIANTS
    TypeOK
    NoSavedEditLost
PROPERTIES
    NarratorLeavesPublishedAlone
CHECK_DEADLOCK FALSE
