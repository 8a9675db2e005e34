CONSTANTS
    a = a
    b = b
    c = c
    d = d
    Task = {a, b, c, d}
    Deps <- Diamond
    RetryNum <- EveryOnError
    Light <- LightB
    Scanned = {b}
    MayBeMissed = {"lost"}
    AutoRetry = 1
    CancelAll = FALSE
    CancelTypes = {"kill", "abort"}
    JobsMayDie = {"running"}
    PrepMayFail = FALSE
    DbMayFail = FALSE
SPECIFICATION BFairSpec
INVARIANTS AttemptsBounded DependencesHold ResidualDepsExact ResidualTasksExact CompletedMeansDone OneAttemptAtATime LightTasksExact
PROPERTIES EndedStaysEnded EventuallyOver ImplementsTaskGraph
