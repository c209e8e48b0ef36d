\* A run cancelled at its gate and retried ends succeeded, the gate unanswered.
SPECIFICATION Spec
CONSTANTS
    Runs = {r1}
    Workers = {w1}
    Handlers = {h1, h2}
    NoRun = NoRun
    NoWorker = NoWorker
    Deps <- Gated
    Kind <- GatedKind
    Conditional = {}
    Requests = {"launch", "cancel", "retry", "decide"}
    Faults = {}
    Sweeping = FALSE
    WaveConcurrency = 2
    MaxNodeAttempts = 1
    MaxGatePasses = 4
    MaxRetries = 1
INVARIANTS PassesAdvance
CHECK_DEADLOCK FALSE
