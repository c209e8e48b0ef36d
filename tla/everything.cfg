\* Every request and every failure at once, on a run that is one gate.
SPECIFICATION Spec
CONSTANTS
    Runs = {r1}
    Workers = {w1}
    Handlers = {h1}
    NoRun = NoRun
    NoWorker = NoWorker
    Deps <- OneGate
    Kind <- OneGateKind
    Conditional = {}
    Requests = {"launch", "cancel", "retry", "decide", "task"}
    Faults = {"worker_crash", "reaper_crash", "api_crash", "commit", "enqueue", "lock_ttl", "resources"}
    Sweeping = TRUE
    WaveConcurrency = 2
    MaxNodeAttempts = 1
    MaxGatePasses = 1
    MaxRetries = 1
INVARIANTS TypeOK
PROPERTIES AnswersStand NoRework GatesKept
CHECK_DEADLOCK FALSE
