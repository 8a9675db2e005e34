CONSTANTS
    a = a
    b = b
    c = c
    d = d
    Task = {a, b, c, d}
    Deps <- Diamond
    RetryNum <- Breaks
    Light <- LightB
    Scanned = {b, c}
    MayBeMissed = {"lost"}
    AutoRetry = 2
    CancelAll = TRUE
    CancelTypes = {"stop"}
    JobsMayDie = {}
    PrepMayFail = TRUE
    DbMayFail = TRUE
SPECIFICATION BSpec
CHECK_DEADLOCK FALSE
INVARIANTS ResidualTasksEnough AttemptsBounded
PROPERTY NothingLeftBehind
