CONSTANTS
    w1 = w1
    w2 = w2
    Waiter = {w1, w2}
    job = job
    Job = job
    Setups <- Pairs
    MaxInput <- Commands
SPECIFICATION FairSpec
CHECK_DEADLOCK FALSE
INVARIANTS SleepersCounted SleeperKeepsWorkflow CompletedForAReason AbortObeyed EndedOnce NobodyLeftWaiting
PROPERTIES Reclaimed WaitEnds
