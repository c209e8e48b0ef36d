----------------------------- MODULE RunLifecycle -----------------------------
(***************************************************************************)
(* One project's runs: the executors, the requests, the decisions and the   *)
(* reaper over the shared state, with the properties of the composition.    *)
(***************************************************************************)
EXTENDS WaveExecutor, Decisions, Reaper

vars == <<status, started, rows, asks, tasks, jobs, lock, cancel, beat,
          exec, api, retries, reaper>>

Init == StateInit /\ ExecInit /\ ControlInit /\ ReaperInit

Work(w) == WorkerStep(w) /\ UNCHANGED <<api, retries, reaper>>

\* The next step of a request in progress, however it turns out.
Serve(h) == (ControlStep(h) \/ DecisionStep(h)) /\ UNCHANGED <<exec, reaper>>

Sweep == ReaperStep /\ UNCHANGED <<exec, api, retries>>

Expiry(r) == BeatExpires(r) /\ UNCHANGED <<api, retries, reaper>>

\* What nobody can be relied on to do, or not to do.
Surprise ==
    \/ \E h \in Handlers :
          (ControlRequest(h) \/ DecisionRequest(h) \/ ApiCrash(h)) /\ UNCHANGED <<exec, reaper>>
    \/ \E r \in Runs, n \in Nodes : SubmitTask(r, n) /\ UNCHANGED <<exec, reaper>>
    \/ \E w \in Workers : WorkerCrash(w) /\ UNCHANGED <<api, retries, reaper>>
    \/ LockExpires /\ UNCHANGED <<api, retries, reaper>>
    \/ ReaperCrash /\ UNCHANGED <<exec, api, retries>>

Next ==
    \/ \E w \in Workers : Work(w)
    \/ \E h \in Handlers : Serve(h)
    \/ \E r \in Runs : Expiry(r)
    \/ Sweep
    \/ Surprise

Spec == Init /\ [][Next]_vars

\* The event loops of the worker and of the API keep running what they started,
\* a key nobody refreshes expires, and the sweep is a cron job. Requests,
\* answers and failures are nobody's duty.
FairSpec ==
    /\ Spec
    /\ \A w \in Workers : WF_vars(Work(w))
    /\ \A h \in Handlers : WF_vars(Serve(h))
    /\ \A r \in Runs : WF_vars(Expiry(r))
    /\ WF_vars(Sweep)

TypeOK == StateTypeOK /\ ExecTypeOK /\ ControlTypeOK /\ ReaperTypeOK

-----------------------------------------------------------------------------

(* What must hold whatever people, crashes and the clock do                 *)

Gates == {n \in Nodes : Kind[n] = "gate"}

\* An approval is answered once: nothing that happens later, a second approver,
\* an expiry, a retry or the reaper, changes or removes an answer or a closure
\* (the UPDATE ... WHERE status = 'pending' of approvals.decide and
\* expire_pending).
AnswersStand ==
    [][\A r \in Runs, n \in Nodes : \A i \in DOMAIN asks[r][n] :
          asks[r][n][i] # "pending" =>
              i \in DOMAIN asks'[r][n] /\ asks'[r][n][i] = asks[r][n][i]]_vars

\* No question is open without a proposal that was put with it, whoever else
\* executes, retries or sweeps the run: an attempt of the gate is awaiting the
\* answer (_open_gate commits the two together, and neither a dying executor nor
\* one that loses the race for the question leaves one behind).
QuestionIsBacked ==
    \A r \in Runs, n \in Nodes : Pending(r, n) =>
        \E a \in DOMAIN rows[r][n] : rows[r][n][a].status = "awaiting_approval"

\* A node is attempted only after everything it depends on has succeeded, and
\* none of these is ever taken back, whichever pass, retry or executor attempts
\* it (_run_waves, record_skipped, reset_failed).
InputsFirst ==
    \A r \in Runs, n \in Nodes :
        Latest(r, n) \notin {"absent", "skipped"} =>
            \A m \in Deps[n] : Latest(r, m) = "succeeded"

\* A node that succeeded is never attempted again and never loses its success:
\* resume and retry-failed cost only what did not succeed (reset_failed).
NoRework ==
    [][\A r \in Runs, n \in Nodes :
          Latest(r, n) = "succeeded" =>
              Latest(r, n)' = "succeeded" /\ DOMAIN rows[r][n]' \subseteq DOMAIN rows[r][n]]_vars

\* While a question is open, the gate's newest attempt is the proposal that the
\* approver sees (_open_gate commits both together).
QuestionHasProposal ==
    \A r \in Runs, n \in Nodes : Pending(r, n) => Latest(r, n) = "awaiting_approval"

\* A worker calls a run succeeded only when every selected node succeeded; the
\* one way round is the backstop of _run_waves, a run whose people answered
\* faster than it parked in every pass that one execute() makes.
SuccessIsComplete ==
    \A w \in Workers : exec[w].outcome = "succeeded" =>
        \/ \A n \in Nodes : Latest(exec[w].run, n) = "succeeded"
        \/ exec[w].pass = MaxGatePasses

\* The gates of every run keep the promise of GateProtocol: no gate without a
\* person's yes, no yes that is lost, no answer given twice.
Promise == INSTANCE GateProtocol WITH
    Gates <- Gates,
    Optional <- Conditional \cap Gates,
    question <- [r \in Runs |-> [g \in Gates |->
                    IF asks[r][g] = <<>> THEN "none" ELSE Last(asks[r][g])]],
    done <- [r \in Runs |-> [g \in Gates |-> Latest(r, g) = "succeeded"]]

GatesKept == Promise!Spec

-----------------------------------------------------------------------------
(* The lock and the queue                                                   *)

\* Worker w is between the first beat and the end of the wave loop of run r.
Executing(w, r) ==
    /\ exec[w].run = r
    /\ exec[w].pc \in {"pass", "between", "wave", "over_budget", "parking", "park_tasks"}

\* One run per project at a time (RunLock).
OneRunPerProject ==
    \A v, w \in Workers, q, r \in Runs : Executing(v, q) /\ Executing(w, r) => q = r

\* The lock is never held for nothing: somebody is still going to give it back,
\* a request in progress, a waiting job, a worker or the sweep.
LockHasOwner ==
    lock # NoRun => \/ \E h \in Handlers : api[h].run = lock
                    \/ jobs[lock] > 0
                    \/ \E w \in Workers : exec[w].run = lock
                    \/ reaper.run = lock

\* A queued run has a job that will start it, or a request about to enqueue it.
QueuedHasJob ==
    \A r \in Runs : status[r] = "queued" =>
        \/ jobs[r] > 0
        \/ \E h \in Handlers : api[h].run = r
        \/ \E w \in Workers : exec[w].run = r

\* A node in flight in a live worker is failed by nobody else: the rows that
\* fail_stale_running sweeps up belong to workers that are gone.
NoLiveRowFailed ==
    [][\A r \in Runs, n \in Nodes : \A a \in DOMAIN rows[r][n] \cap DOMAIN rows[r][n]' :
          /\ rows[r][n][a].status = "running" /\ rows[r][n][a].by # NoWorker
          /\ rows[r][n][a].status' = "failed"
          => rows[r][n][a].by' = NoWorker]_vars

\* What ended stays ended, unless somebody retries it.
EndIsFinal ==
    [][\A r \in Runs :
          status[r] \in Terminal /\ status'[r] # status[r] =>
              status'[r] = "queued" /\ \E h \in Handlers : api[h].pc = "requeue" /\ api[h].run = r]_vars

-----------------------------------------------------------------------------
(* What must happen in the end                                              *)

\* Every run leaves the queue and the worker: it ends, or it waits for a person.
Settles ==
    \A r \in Runs : status[r] \in {"queued", "running"} ~> status[r] \notin {"queued", "running"}

\* The project becomes free again.
LockReturns == lock # NoRun ~> lock = NoRun

-----------------------------------------------------------------------------
(* What a comment or a document of the repository says, and the code does   *)
(* not do: a configuration of its own refutes each.                         *)

\* orchestrator/approvals.py:11-18: the row lock orders parking and deciding,
\* so no run is parked with every question answered and every task closed and
\* nobody to wake it.
ParkedIsWaiting ==
    \A r \in Runs : status[r] \in {"awaiting_approval", "awaiting_human_task"} =>
        \/ \E n \in Nodes : Pending(r, n) \/ Outstanding(r, n)
        \/ \E h \in Handlers : api[h].run = r

\* orchestrator/executor.py:124-126: each pass over the waves strictly advances,
\* so the passes of one execute() cannot run out before people were asked as
\* often.
PassesAdvance ==
    \A w \in Workers : exec[w].outcome = "succeeded" =>
        \/ \A n \in Nodes : Latest(exec[w].run, n) = "succeeded"
        \/ \E n \in Nodes : Len(asks[exec[w].run][n]) >= MaxGatePasses

=============================================================================
