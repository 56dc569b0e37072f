SPECIFICATION Spec
CONSTANTS
    t0 = t0
    t1 = t1
    t2 = t2
    t3 = t3
    p0 = p0
    p1 = p1
    p2 = p2
    Tasks <- FourTasks
    Processes = {p0, p1, p2}
    Process <- TwoAndTwo
    None = None
    Blank = Blank
    MaxAttempts = 2
    CrashWhileWriting = TRUE
    OverlappingReclaims = FALSE
INVARIANTS
    MutualExclusion
CHECK_DEADLOCK FALSE
