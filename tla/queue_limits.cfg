CONSTANTS
    w1 = w1
    w2 = w2
    w3 = w3
    h1 = h1
    h2 = h2
    Wf = {w1, w2, w3}
    Sync = {w1}
    Thread = {h1, h2}
    FarmSize = 1
    QueueSize = 1
    Timeout = 0
    MaxClock = 1
    InitMayFail = TRUE
    Cancellable = {w1, w2}
SPECIFICATION Spec
CHECK_DEADLOCK FALSE
SYMMETRY ThreadSymmetry
INVARIANTS FarmNeverExceeded FreedIsUnlisted
