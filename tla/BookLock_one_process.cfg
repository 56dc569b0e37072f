SPECIFICATION Spec
CONSTANTS
    t0 = t0
    t1 = t1
    t2 = t2
    t3 = t3
    p0 = p0
    p1 = p1
    p2 = p2
    Tasks <- ThreeTasks
    Processes = {p0, p1, p2}
    Process <- OneProcess
    None = None
    Blank = Blank
    MaxAttempts = 3
    CrashWhileWriting = FALSE
    OverlappingReclaims = TRUE

    
PROPERTIES
    RefusedForACause
CHECK_DEADLOCK FALSE
