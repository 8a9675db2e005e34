CONSTANTS
    r1 = r1
    r2 = r2
    r3 = r3
    r4 = r4
    s1 = s1
    s2 = s2
    h1 = h1
    h2 = h2
    h3 = h3
    w1 = w1
    w2 = w2
    Request = {r1, r2, r3, r4, s1, s2}
    TaskOf <- Scanner
    Thread = {h1, h2, h3}
    Batch <- Batches
    Workflow = {w1, w2}
    Of <- Owners
    Ncores <- Cores
    Known = {r2}
    Unserved = {r3}
    TaskLimit = 1
    CoreLimit = 3
SPECIFICATION FairSpec
CHECK_DEADLOCK FALSE
PROPERTY PlaceIsGot
INVARIANTS TypeOK CountersWithinLimits PlacesAccounted CoresAccounted SleepsForGoodReason
