SPECIFICATION Spec
CONSTANTS
    Workers = {w1, w2}
    Jobs = {1, 2}
    NoWorker = NoWorker
    NoJob = NoJob
    BatchSize = 2
    MaxAttempts = 2
    MaxFaults = 1
    SlowBatches = FALSE
PROPERTY NoClaimAfterShutdown
