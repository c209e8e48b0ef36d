\* A resumed run loses its lock to the executor that parked it.
SPECIFICATION Spec
CONSTANTS
    Runs = {r1, r2}
    Workers = {w1, w2}
    Handlers = {h1}
    NoRun = NoRun
    NoWorker = NoWorker
    Deps <- Gated
    Kind <- GatedKind
    Conditional = {}
    Requests = {"launch", "decide"}
    Faults = {}
    Sweeping = FALSE
    WaveConcurrency = 2
    MaxNodeAttempts = 1
    MaxGatePasses = 2
    MaxRetries = 0
INVARIANTS OneRunPerProject
CHECK_DEADLOCK FALSE
