\* Two people retry one run at the same time; a worker may die and two may execute
\* the run, the reaper sweeps.
SPECIFICATION Spec
CONSTANTS
    Runs = {r1}
    Workers = {w1, w2}
    Handlers = {h1, h2}
    NoRun = NoRun
    NoWorker = NoWorker
    Deps <- OneGate
    Kind <- OneGateKind
    Conditional = {}
    Requests = {"launch", "retry"}
    Faults = {"worker_crash"}
    Sweeping = TRUE
    WaveConcurrency = 2
    MaxNodeAttempts = 1
    MaxGatePasses = 1
    MaxRetries = 2
SYMMETRY Interchangeable
INVARIANTS QuestionIsBacked
CHECK_DEADLOCK FALSE
