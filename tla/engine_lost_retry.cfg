CONSTANTS
    a = a
    b = b
    c = c
    d = d
    Task = {a, b, c, d}
    Deps <- Diamond
    RetryNum <- RepeatB
    Light <- NoLights
    Scanned = {}
    MayBeMissed = {"lost"}
    AutoRetry = 0
    CancelAll = TRUE
    CancelTypes = {}
    JobsMayDie = {}
    PrepMayFail = FALSE
    DbMayFail = FALSE
SPECIFICATION BFairSpec
CHECK_DEADLOCK FALSE
PROPERTY RetryIsMade
