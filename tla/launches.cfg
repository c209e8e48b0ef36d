\* Two people launch in one project; commits, enqueues and resources may fail.
SPECIFICATION FairSpec
CONSTANTS
    Runs = {r1, r2}
    Workers = {w1, w2}
    Handlers = {h1, h2}
    NoRun = NoRun
    NoWorker = NoWorker
    Deps <- Chain
    Kind <- ChainKind
    Conditional = {}
    Requests = {"launch"}
    Faults = {"commit", "enqueue", "resources"}
    Sweeping = FALSE
    WaveConcurrency = 2
    MaxNodeAttempts = 1
    MaxGatePasses = 2
    MaxRetries = 0
INVARIANTS OneRunPerProject
PROPERTIES LockReturns
CHECK_DEADLOCK FALSE
