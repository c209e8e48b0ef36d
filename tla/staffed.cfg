\* Two gates, a clearance and an attestation that may find nothing to attest; one
\* person at a time answers, at any moment.
SPECIFICATION FairSpec
CONSTANTS
    Runs = {r1}
    Workers = {w1}
    Handlers = {h1}
    NoRun = NoRun
    NoWorker = NoWorker
    Deps <- Staffed
    Kind <- StaffedKind
    Conditional = {"u"}
    Requests = {"launch", "decide", "task"}
    Faults = {}
    Sweeping = FALSE
    WaveConcurrency = 2
    MaxNodeAttempts = 1
    MaxGatePasses = 2
    MaxRetries = 0
INVARIANTS InputsFirst QuestionHasProposal SuccessIsComplete
PROPERTIES Settles
CHECK_DEADLOCK FALSE
