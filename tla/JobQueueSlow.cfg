SPECIFICATION FairSpec
CONSTANTS
    Workers = {w1, w2}
    Jobs = {1, 2}
    NoWorker = NoWorker
    NoJob = NoJob
    BatchSize = 2
    MaxAttempts = 1
    MaxFaults = 1
    SlowBatches = TRUE
INVARIANTS AttemptsIdentifyClaim AttemptBudget
PROPERTY LifecycleSettles
