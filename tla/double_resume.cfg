\* Two gates of a parked run approved together: the run is queued twice, and the
\* second executor fails what the first has in flight.
SPECIFICATION Spec
CONSTANTS
    Runs = {r1}
    Workers = {w1, w2}
    Handlers = {h1, h2}
    NoRun = NoRun
    NoWorker = NoWorker
    Deps <- TwoGates
    Kind <- TwoGatesKind
    Conditional = {}
    Requests = {"launch", "decide"}
    Faults = {}
    Sweeping = FALSE
    WaveConcurrency = 2
    MaxNodeAttempts = 1
    MaxGatePasses = 2
    MaxRetries = 0
PROPERTIES NoLiveRowFailed
CHECK_DEADLOCK FALSE
