\* Launch, cancel, retry-failed and decisions, one request at a time, interleaved
\* with an executor that tries every node twice and makes two passes.
SPECIFICATION Spec
CONSTANTS
    Runs = {r1}
    Workers = {w1}
    Handlers = {h1}
    NoRun = NoRun
    NoWorker = NoWorker
    Deps <- Gated
    Kind <- GatedKind
    Conditional = {}
    Requests = {"launch", "cancel", "retry", "decide"}
    Faults = {}
    Sweeping = FALSE
    WaveConcurrency = 2
    MaxNodeAttempts = 2
    MaxGatePasses = 2
    MaxRetries = 1
INVARIANTS LockHasOwner QueuedHasJob
PROPERTIES NoRework GatesKept
CHECK_DEADLOCK FALSE
