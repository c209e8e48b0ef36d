\* A worker may die anywhere, nodes are tried twice and a person may cancel; the
\* reaper ends what is left.
SPECIFICATION FairSpec
CONSTANTS
    Runs = {r1}
    Workers = {w1, w2}
    Handlers = {h1}
    NoRun = NoRun
    NoWorker = NoWorker
    Deps <- Chain
    Kind <- ChainKind
    Conditional = {}
    Requests = {"launch", "cancel"}
    Faults = {"worker_crash"}
    Sweeping = TRUE
    WaveConcurrency = 2
    MaxNodeAttempts = 2
    MaxGatePasses = 2
    MaxRetries = 0
PROPERTIES Settles
CHECK_DEADLOCK FALSE
