SPECIFICATION FairSpec
CONSTANTS
    Books = {b1, b2}
    Keys = {k1}
    Tasks = {t1, t2}
    Operations = {o1, o2}
    None = None
    Legacy = Legacy
    Broken = Broken
    MaxMishaps = 2
    OverlappingWork = FALSE
    RowRemovalFails = FALSE
    BackfillFails = FALSE
INVARIANTS OneProjectPerBook NothingLeftBehind OldBooksOnlyByClaim
PROPERTIES ReadyOnlyWhenComplete ImplementsShelf EveryBookGetsReady DeletionEnds
CHECK_DEADLOCK FALSE
