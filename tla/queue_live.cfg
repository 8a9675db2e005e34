CONSTANTS
    w1 = w1
    w2 = w2
    w3 = w3
    h1 = h1
    h2 = h2
    Wf = {w1, w2, w3}
    Sync = {w1, w2}
    Thread = {h1, h2}
    FarmSize = 1
    QueueSize = 0
    Timeout = 0
    MaxClock = 0
    InitMayFail = FALSE
    Cancellable = {}
SPECIFICATION FairSpec
CHECK_DEADLOCK FALSE
PROPERTIES QueuedBehindRunningIsStarted AdmittedClientAnswered
