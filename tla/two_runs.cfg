\* Two runs of one project and two job slots; a run gives the lock back while it
\* waits for its gate, and a run that ended is retried.
SPECIFICATION Spec
CONSTANTS
    Runs = {r1, r2}
    Workers = {w1, w2}
    Handlers = {h1}
    NoRun = NoRun
    NoWorker = NoWorker
    Deps <- OneGate
    Kind <- OneGateKind
    Conditional = {}
    Requests = {"launch", "decide", "retry"}
    Faults = {}
    Sweeping = FALSE
    WaveConcurrency = 2
    MaxNodeAttempts = 1
    MaxGatePasses = 1
    MaxRetries = 1
SYMMETRY Interchangeable
INVARIANTS LockHasOwner QueuedHasJob
PROPERTIES NoLiveRowFailed EndIsFinal
CHECK_DEADLOCK FALSE
