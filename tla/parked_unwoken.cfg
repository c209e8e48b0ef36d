\* An approval loads the run, the run parks, the approval commits: nobody wakes it.
SPECIFICATION Spec
CONSTANTS
    Runs = {r1}
    Workers = {w1}
    Handlers = {h1}
    NoRun = NoRun
    NoWorker = NoWorker
    Deps <- Gated
    Kind <- GatedKind
    Conditional = {}
    Requests = {"launch", "decide"}
    Faults = {}
    Sweeping = FALSE
    WaveConcurrency = 2
    MaxNodeAttempts = 1
    MaxGatePasses = 2
    MaxRetries = 0
INVARIANTS ParkedIsWaiting
CHECK_DEADLOCK FALSE
