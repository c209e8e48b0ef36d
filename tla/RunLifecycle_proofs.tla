------------------------- MODULE RunLifecycle_proofs -------------------------
(***************************************************************************)
(* What holds of every project, whatever its pipeline, its workers and its  *)
(* requests: every question of every gate is one row that is answered once; *)
(* as long as no process dies and no enqueue is refused, a queued run is on *)
(* its way to a worker and a lock that is held is on its way back; as long  *)
(* as people take turns, no run has two workers at work on it, and what     *)
(* ended stays ended; and as long as no run has two workers at work on it,  *)
(* a node is attempted after what it depends on, never again once it        *)
(* succeeded, and the gates keep their promise.                             *)
(***************************************************************************)
EXTENDS RunTypes_proofs

-----------------------------------------------------------------------------
(* The questions of the gates                                               *)

\* The questions are typed in every state.
THEOREM QuestionsTyped == Spec => []AskTypes
<1>1. Init => AskTypes
  BY DEF Init, StateInit, AskTypes
<1>2. AskTypes /\ [Next]_vars => AskTypes'
  BY EveryStepAsks, GateSteps
<1>3. QED
  BY <1>1, <1>2, PTL DEF Spec

\* An approval is answered once, for every pipeline and any number of runs,
\* workers, requests and failures.
THEOREM AnswersAreFinal == Spec => AnswersStand
<1>1. AskTypes /\ [Next]_vars =>
        \A r \in Runs, n \in Nodes : \A i \in DOMAIN asks[r][n] :
          asks[r][n][i] # "pending" =>
              i \in DOMAIN asks'[r][n] /\ asks'[r][n][i] = asks[r][n][i]
  <2> SUFFICES ASSUME AskTypes, [Next]_vars, NEW r \in Runs, NEW n \in Nodes,
                      NEW i \in DOMAIN asks[r][n], asks[r][n][i] # "pending"
               PROVE  i \in DOMAIN asks'[r][n] /\ asks'[r][n][i] = asks[r][n][i]
    OBVIOUS
  <2>1. AskTypes' /\ OneGateStep(asks[r][n], asks'[r][n])
    BY EveryStepAsks, GateSteps
  <2>2. asks[r][n] \in Seq(AskStatus) /\ asks'[r][n] \in Seq(AskStatus)
    BY <2>1 DEF AskTypes
  <2>3. Len(asks[r][n]) <= Len(asks'[r][n])
    BY <2>1 DEF OneGateStep, Grows
  <2>4. QED
    BY <2>1, <2>2, <2>3 DEF OneGateStep, Grows
<1>2. QED
  BY <1>1, QuestionsTyped, PTL DEF Spec, AnswersStand

\* A gate has at most one open question, the newest: the index
\* uq_approval_pending_per_gate refuses the INSERT of another (OpenGate,
\* GateTaken).
OneOpenQuestion ==
    \A r \in Runs, n \in Nodes : \A i \in DOMAIN asks[r][n] :
        asks[r][n][i] = "pending" => i = Len(asks[r][n])

\* Every step keeps it: what the proofs below need of the questions of a gate.
LEMMA NewestStaysOpen ==
    ASSUME AskTypes, OneOpenQuestion, [Next]_vars
    PROVE  OneOpenQuestion'
<1> SUFFICES ASSUME NEW r \in Runs, NEW n \in Nodes
             PROVE  OnlyNewestOpen(asks'[r][n])
  BY DEF OneOpenQuestion, OnlyNewestOpen
<1>1. OneGateStep(asks[r][n], asks'[r][n])
  BY EveryStepAsks, GateSteps
<1>2. OnlyNewestOpen(asks[r][n])
  BY DEF OneOpenQuestion, OnlyNewestOpen
<1>3. QED
  BY <1>1, <1>2 DEF OneGateStep

-----------------------------------------------------------------------------
(* How a request moves                                                      *)

\* What the other requests do is their own.
Apart(h) == \A g \in Handlers \ {h} : api'[g] = api[g]

\* A step of one request leaves the others where they are.
LEMMA RequestsMoveAlone ==
    ASSUME IInv, NEW h \in Handlers,
           ControlStep(h) \/ DecisionStep(h) \/ ControlRequest(h) \/ DecisionRequest(h)
              \/ ApiCrash(h)
    PROVE  Apart(h)
<1>t. api \in [Handlers -> Handler]
  BY SMTT(30) DEF IInv, TypeOK, ControlTypeOK
<1> USE <1>t DEF Apart, To, Done
<1>1. CASE ControlStep(h)
  BY <1>1 DEF ControlStep, LaunchCommit, LaunchCommitFails, LaunchEnqueue, LaunchFails,
     CancelFlag, CancelFinish, CancelSkip, CloseQuestions, ReleaseLock, RetryLock,
     RetryReset, RetryClear, Requeue, Enqueue, EnqueueFails
<1>2. CASE DecisionStep(h)
  BY <1>2, Zenon DEF DecisionStep, Decide, DecideConflict, ResumeLock, RejectSkip, RejectFinish, Clear
<1>3. CASE ControlRequest(h)
  BY <1>3, Zenon DEF ControlRequest, LaunchLock, CancelLoad, RetryLoad, Load
<1>4. CASE DecisionRequest(h)
  BY <1>4 DEF DecisionRequest, DecideLoad, ClearLoad
<1>5. CASE ApiCrash(h)
  BY <1>5 DEF ApiCrash
<1>6. QED
  BY <1>1, <1>2, <1>3, <1>4, <1>5

-----------------------------------------------------------------------------
(* A queued run is on its way to a worker                                   *)

\* Request h is going to put run r in the queue.
Enqueues(h, r) == api[h].run = r /\ api[h].pc \in {"launch_enqueue", "enqueue"}

\* Worker w took the run out of the queue and has not said so yet; it will,
\* unless it loaded a run that was already running.
Starts(w, r) ==
    /\ exec[w].run = r
    /\ \/ exec[w].pc = "aborting"
       \/ exec[w].pc \in {"loaded", "swept"} /\ exec[w].seen # "running"

Carried ==
    \A r \in Runs : status[r] = "queued" =>
        \/ jobs[r] > 0
        \/ \E h \in Handlers : Enqueues(h, r)
        \/ \E w \in Workers : Starts(w, r)

\* No process dies and no enqueue is refused.
NobodyDies == Faults \cap {"worker_crash", "api_crash", "enqueue"} = {}

\* A step that queues no run and takes nobody off the job keeps them carried.
LEMMA StillCarried ==
    ASSUME Carried,
           \A r \in Runs : status'[r] = "queued" => status[r] = "queued",
           jobs' = jobs,
           \A h \in Handlers, r \in Runs : Enqueues(h, r) => Enqueues(h, r)',
           \A w \in Workers, r \in Runs :
              status'[r] = "queued" /\ Starts(w, r) => Starts(w, r)'
    PROVE  Carried'
BY DEF Carried

\* A step of a worker leaves no queued run without somebody who carries it.
LEMMA WorkerCarries ==
    ASSUME IInv, Carried, NEW w \in Workers, Work(w)
    PROVE  Carried'
<1>t. /\ exec \in [Workers -> Job] /\ status \in [Runs -> RunStatus] /\ jobs \in [Runs -> Nat]
      /\ exec[w].pc # "idle" => exec[w].run \in Runs
  BY DEF IInv, TypeOK, ExecTypeOK, StateTypeOK, Seated
<1>a. Alone(w) /\ UNCHANGED api
  BY WorkerMoves DEF Work
<1>h. \A h \in Handlers, r \in Runs : Enqueues(h, r) => Enqueues(h, r)'
  BY <1>a DEF Enqueues
<1>o. \A v \in Workers \ {w}, r \in Runs : Starts(v, r) => Starts(v, r)'
  BY <1>a DEF Alone, Starts
<1>1. ASSUME NEW r \in Runs, Dequeue(w, r)
      PROVE  Carried'
  <2> SUFFICES ASSUME NEW q \in Runs, status'[q] = "queued"
               PROVE  \/ jobs'[q] > 0
                      \/ \E h \in Handlers : Enqueues(h, q)'
                      \/ \E v \in Workers : Starts(v, q)'
    BY DEF Carried
  <2>1. status[q] = "queued"
    BY <1>1 DEF Dequeue
  <2>2. CASE q = r
    BY <1>1, <1>t, <2>1, <2>2 DEF Dequeue, Starts, Terminal, Job
  <2>3. CASE q # r
    <3>1. jobs'[q] = jobs[q]
      BY <1>1, <1>t, <2>3 DEF Dequeue
    <3>2. ~Starts(w, q)
      BY <1>1 DEF Dequeue, Starts
    <3>3. QED
      BY <1>h, <1>o, <2>1, <3>1, <3>2 DEF Carried
  <2>4. QED
    BY <2>2, <2>3
<1>2. CASE Inside(w)
  <2>1. \A r \in Runs : status'[r] = "queued" /\ Starts(w, r) => Starts(w, r)'
    <3> SUFFICES ASSUME NEW r \in Runs, status'[r] = "queued", Starts(w, r)
                 PROVE  Starts(w, r)'
      OBVIOUS
    <3>1. exec[w].pc \in {"loaded", "swept", "aborting"} /\ exec[w].run = r
      BY DEF Starts
    <3>2. Abort(w) \/ AbortFinish(w) \/ SweepStale(w) \/ MarkRunning(w)
      BY <1>2, <3>1, Zenon DEF Work, WorkerStep, Inside, Dequeue, AbortRelease, FirstBeat, BeginPass,
         PassesExhausted, StopCancelled, NextWave, EndPass, NumberNode, StartNode, NumberTaken,
         NodeSucceeds, NodeFails, OpenGate, OpenTask, RowLost, FindOpen, GateTaken, Checkpoint,
         EndWave, StopBroken,
         StopOverBudget, ParkOnGate, ParkOnTask, PauseRelease, SkipUnreached, FinishRun,
         ExpireGates, FinishRelease, ClearCancel
    <3>3. CASE Abort(w)
      BY <1>t, <3>1, <3>3 DEF Abort, Go, Starts, Job
    <3>4. CASE AbortFinish(w)
      BY <1>t, <3>1, <3>4 DEF AbortFinish
    <3>5. CASE SweepStale(w)
      BY <1>t, <3>1, <3>5 DEF SweepStale, Go, Starts, Job
    <3>6. CASE MarkRunning(w)
      BY <1>t, <3>1, <3>6 DEF MarkRunning, Starts
    <3>7. QED
      BY <3>2, <3>3, <3>4, <3>5, <3>6
  <2>2. QED
    BY <1>2, <1>h, <1>o, <2>1, StillCarried DEF Inside
<1>3. CASE AbortRelease(w) \/ PauseRelease(w) \/ FinishRelease(w) \/ ClearCancel(w)
  <2>1. status' = status /\ jobs' = jobs /\ \A r \in Runs : ~Starts(w, r)
    BY <1>3 DEF AbortRelease, PauseRelease, FinishRelease, ClearCancel, Starts
  <2>2. QED
    BY <1>h, <1>o, <2>1, StillCarried
<1>4. QED
  BY <1>1, <1>2, <1>3, WorkerMoves DEF Work

\* A step of a request leaves no queued run without somebody who carries it.
LEMMA RequestCarries ==
    ASSUME IInv, NobodyDies, Carried, NEW h \in Handlers, UNCHANGED exec,
           ControlStep(h) \/ DecisionStep(h) \/ ControlRequest(h) \/ DecisionRequest(h)
    PROVE  Carried'
<1>t. /\ api \in [Handlers -> Handler] /\ status \in [Runs -> RunStatus]
      /\ jobs \in [Runs -> Nat] /\ "enqueue" \notin Faults
  BY DEF IInv, TypeOK, ControlTypeOK, StateTypeOK, NobodyDies
<1>a. Apart(h)
  BY RequestsMoveAlone
<1>s. \A w \in Workers, r \in Runs : Starts(w, r) => Starts(w, r)'
  BY DEF Starts
<1>o. \A g \in Handlers \ {h}, r \in Runs : Enqueues(g, r) => Enqueues(g, r)'
  BY <1>a DEF Apart, Enqueues
<1>1. CASE LaunchEnqueue(h) \/ Enqueue(h)
  <2>1. status' = status
    BY <1>1 DEF LaunchEnqueue, Enqueue
  <2>2. \A r \in Runs : jobs[r] > 0 => jobs'[r] > 0
    BY <1>t, <1>1 DEF LaunchEnqueue, Enqueue
  <2>3. \A r \in Runs : Enqueues(h, r) => jobs'[r] > 0
    BY <1>t, <1>1 DEF LaunchEnqueue, Enqueue, Enqueues
  <2>4. ASSUME NEW r \in Runs, status'[r] = "queued"
        PROVE  \/ jobs'[r] > 0
               \/ \E g \in Handlers : Enqueues(g, r)'
               \/ \E w \in Workers : Starts(w, r)'
    <3>1. \/ jobs[r] > 0
          \/ \E g \in Handlers : Enqueues(g, r)
          \/ \E w \in Workers : Starts(w, r)
      BY <2>1, <2>4 DEF Carried
    <3>2. QED
      BY <1>s, <1>o, <2>2, <2>3, <3>1, Zenon
  <2>5. QED
    BY <2>4, Zenon DEF Carried
<1>2. CASE LaunchCommit(h) \/ Requeue(h)
  <2>q. PICK q : q = api[h].run
    OBVIOUS
  <2>1. Enqueues(h, q)' /\ jobs' = jobs
    BY <1>t, <1>2, <2>q DEF LaunchCommit, Requeue, To, Enqueues, Handler
  <2>2. \A r \in Runs \ {q} : status'[r] = status[r]
    BY <1>t, <1>2, <2>q DEF LaunchCommit, Requeue
  <2>3. \A r \in Runs : ~Enqueues(h, r)
    BY <1>2 DEF LaunchCommit, Requeue, Enqueues
  <2>4. \A r \in Runs : r # q /\ status'[r] = "queued" =>
            \/ jobs'[r] > 0
            \/ \E g \in Handlers : Enqueues(g, r)'
            \/ \E w \in Workers : Starts(w, r)'
    BY <1>s, <1>o, <2>1, <2>2, <2>3 DEF Carried
  <2>5. QED
    BY <2>1, <2>4 DEF Carried
<1>3. CASE ~(LaunchEnqueue(h) \/ Enqueue(h) \/ LaunchCommit(h) \/ Requeue(h))
  <2>1. /\ jobs' = jobs
        /\ \A r \in Runs : status'[r] = "queued" => status[r] = "queued"
        /\ \A r \in Runs : ~Enqueues(h, r)
    <3>1. CASE ControlStep(h)
      BY <1>t, <1>3, <3>1 DEF ControlStep, LaunchCommitFails, LaunchFails, CancelFlag,
         CancelFinish, CancelSkip, CloseQuestions, ReleaseLock, RetryLock, RetryReset,
         RetryClear, EnqueueFails, Enqueues
    <3>2. CASE DecisionStep(h)
      BY <1>t, <3>2, Zenon DEF DecisionStep, Decide, DecideConflict, ResumeLock, RejectSkip,
         RejectFinish, Clear, Enqueues
    <3>3. CASE ControlRequest(h) \/ DecisionRequest(h)
      BY <3>3, Zenon DEF ControlRequest, DecisionRequest, LaunchLock, CancelLoad, RetryLoad,
         DecideLoad, ClearLoad, Load, Enqueues
    <3>4. QED
      BY <3>1, <3>2, <3>3
  <2>2. QED
    BY <1>s, <1>o, <2>1, StillCarried
<1>4. QED
  BY <1>1, <1>2, <1>3

\* Carried is kept by every step when nobody dies.
LEMMA CarriedKept == ASSUME IInv, NobodyDies, Carried, [Next]_vars PROVE Carried'
<1>t. status \in [Runs -> RunStatus]
  BY DEF IInv, TypeOK, StateTypeOK
<1>1. CASE \E w \in Workers : Work(w)
  BY <1>1, WorkerCarries
<1>2. CASE \E h \in Handlers : Serve(h)
  BY <1>2, RequestCarries DEF Serve
<1>3. CASE \E r \in Runs : Expiry(r)
  BY <1>3, StillCarried DEF Expiry, BeatExpires, Enqueues, Starts
<1>4. CASE Sweep
  <2>1. /\ UNCHANGED <<exec, api, jobs>>
        /\ \A r \in Runs : status'[r] = "queued" => status[r] = "queued"
    BY <1>t, <1>4 DEF Sweep, ReaperStep, ListStale, CheckBeat, ReapLoad, ReapFinish,
       ReapExpire, ReapRelease
  <2>2. QED
    BY <2>1, StillCarried DEF Enqueues, Starts
<1>5. CASE Surprise
  <2>1. CASE \E h \in Handlers : (ControlRequest(h) \/ DecisionRequest(h)) /\ UNCHANGED exec
    BY <2>1, RequestCarries
  <2>2. CASE \/ \E r \in Runs, n \in Nodes : SubmitTask(r, n) /\ UNCHANGED exec
             \/ LockExpires /\ UNCHANGED api
             \/ ReaperCrash /\ UNCHANGED <<exec, api>>
    <3>1. UNCHANGED <<exec, api, jobs, status>>
      BY <2>2 DEF SubmitTask, LockExpires, ReaperCrash
    <3>2. QED
      BY <3>1, StillCarried DEF Enqueues, Starts
  <2>3. QED
    BY <1>5, <2>1, <2>2 DEF Surprise, NobodyDies, ApiCrash, WorkerCrash
<1>6. CASE UNCHANGED vars
  BY <1>6, StillCarried DEF vars, Enqueues, Starts
<1>7. QED
  BY <1>1, <1>2, <1>3, <1>4, <1>5, <1>6 DEF Next

\* While no process dies and no enqueue is refused, a run whose status says
\* queued has a job that will start it, a request that is about to enqueue it or
\* a worker that just took it, whoever launches, answers, cancels, retries and
\* sweeps (launch.py, routes_runs.py, routes_approvals.py; queued_runs).
THEOREM QueuedIsCarried == NobodyDies => (Spec => []QueuedHasJob)
<1> SUFFICES ASSUME NobodyDies PROVE Spec => []QueuedHasJob
  OBVIOUS
<1>1. Init => IInv /\ Carried
  BY InitTyped DEF Init, StateInit, Carried
<1>2. IInv /\ Carried /\ [Next]_vars => IInv' /\ Carried'
  BY StepTyped, CarriedKept
<1>3. Carried => QueuedHasJob
  BY DEF Carried, QueuedHasJob, Enqueues, Starts
<1>4. QED
  BY <1>1, <1>2, <1>3, PTL DEF Spec

-----------------------------------------------------------------------------
(* A lock that is held is on its way back                                   *)

\* Request h gives the lock of run r back, or queues the run.
HandsBack(h, r) ==
    /\ api[h].run = r
    /\ api[h].pc \in {"launch_commit", "cancel_finish", "cancel_skip", "expire", "release",
                      "retry_reset", "retry_clear", "requeue", "reject_skip", "reject_finish"}

\* The sweep has decided to fail run r.
Closing(r) == reaper.run = r /\ reaper.pc \in {"swept", "failed", "expired"}

\* A worker is going to take run r: its job waits, or is about to.
Awaited(r) ==
    /\ status[r] \notin Terminal
    /\ jobs[r] > 0 \/ \E h \in Handlers : Enqueues(h, r)

Owner(r) ==
    \/ \E h \in Handlers : HandsBack(h, r)
    \/ \E w \in Workers : Occupies(w, r)
    \/ Closing(r)
    \/ Awaited(r)

Owned == \A r \in Runs : lock = r => Owner(r)

\* Nor does the process that sweeps die.
NobodyDiesAtAll == NobodyDies /\ "reaper_crash" \notin Faults

\* A step that leaves everybody at work on run r.
LEMMA StillOwner ==
    ASSUME NEW r, Owner(r),
           \A h \in Handlers : HandsBack(h, r) => HandsBack(h, r)',
           \A w \in Workers : Occupies(w, r) => Occupies(w, r)',
           Closing(r) => Closing(r)',
           Awaited(r) => Awaited(r)'
    PROVE  Owner(r)'
BY DEF Owner

\* A step of a worker leaves the lock to somebody who gives it back.
LEMMA WorkerOwns ==
    ASSUME IInv, Owned, NEW w \in Workers, Work(w)
    PROVE  Owned'
<1>t. /\ exec \in [Workers -> Job] /\ status \in [Runs -> RunStatus] /\ jobs \in [Runs -> Nat]
      /\ lock \in Runs \cup {NoRun} /\ (exec[w].pc # "idle" => exec[w].run \in Runs)
  BY DEF IInv, TypeOK, ExecTypeOK, StateTypeOK, Seated
<1>a. Alone(w) /\ UNCHANGED <<api, reaper>>
  BY WorkerMoves DEF Work
<1> SUFFICES ASSUME NEW q \in Runs, lock' = q PROVE Owner(q)'
  BY DEF Owned
<1>r. /\ \A h \in Handlers : HandsBack(h, q) => HandsBack(h, q)'
      /\ \A v \in Workers \ {w} : Occupies(v, q) => Occupies(v, q)'
      /\ Closing(q) => Closing(q)'
      /\ \A h \in Handlers : Enqueues(h, q) => Enqueues(h, q)'
  BY <1>a DEF Alone, HandsBack, Occupies, Closing, Enqueues
<1>1. ASSUME NEW r \in Runs, Dequeue(w, r)
      PROVE  Owner(q)'
  <2>1. Owner(q) /\ ~Occupies(w, q)
    BY <1>1 DEF Dequeue, Owned, Occupies
  <2>2. CASE q # r \/ status[r] \in Terminal
    <3>1. Awaited(q) => Awaited(q)'
      BY <1>1, <1>r, <1>t, <2>1, <2>2 DEF Dequeue, Awaited
    <3>2. QED
      BY <1>r, <2>1, <3>1, StillOwner
  <2>3. CASE q = r /\ status[r] \notin Terminal
    <3>1. Occupies(w, q)'
      BY <1>1, <1>t, <2>3 DEF Dequeue, Occupies, Idle
    <3>2. QED
      BY <3>1 DEF Owner
  <2>4. QED
    BY <2>2, <2>3
<1>2. CASE Inside(w)
  <2>1. Owner(q)
    BY <1>2 DEF Inside, Owned
  <2>2. CASE exec[w].run = q
    <3>1. Occupies(w, q)'
      BY <1>2, <2>2 DEF Inside, Occupies
    <3>2. QED
      BY <3>1 DEF Owner
  <2>3. CASE exec[w].run # q
    <3>1. Awaited(q) => Awaited(q)'
      BY <1>2, <1>r, <2>1, <2>3 DEF Inside, Awaited
    <3>2. ~Occupies(w, q)
      BY <2>3 DEF Occupies
    <3>3. QED
      BY <1>r, <2>1, <3>1, <3>2, StillOwner
  <2>4. QED
    BY <2>2, <2>3
<1>3. CASE AbortRelease(w) \/ PauseRelease(w) \/ FinishRelease(w) \/ ClearCancel(w)
  <2>1. /\ UNCHANGED <<status, jobs>> /\ lock = q
        /\ ~Occupies(w, q)
    BY <1>3, RunAssumption DEF AbortRelease, PauseRelease, FinishRelease, ClearCancel,
       Released, Occupies
  <2>2. Awaited(q) => Awaited(q)'
    BY <1>r, <2>1 DEF Awaited
  <2>3. QED
    BY <1>r, <2>1, <2>2, StillOwner DEF Owned
<1>4. QED
  BY <1>1, <1>2, <1>3, WorkerMoves DEF Work

\* A step of a request leaves the lock to somebody who gives it back.
LEMMA RequestOwns ==
    ASSUME IInv, NobodyDiesAtAll, Owned, NEW h \in Handlers, UNCHANGED <<exec, reaper>>,
           ControlStep(h) \/ DecisionStep(h) \/ ControlRequest(h) \/ DecisionRequest(h)
    PROVE  Owned'
<1>t. /\ api \in [Handlers -> Handler] /\ status \in [Runs -> RunStatus]
      /\ jobs \in [Runs -> Nat] /\ "enqueue" \notin Faults
  BY DEF IInv, TypeOK, ControlTypeOK, StateTypeOK, NobodyDiesAtAll, NobodyDies
<1>a. Apart(h)
  BY RequestsMoveAlone
<1> SUFFICES ASSUME NEW q \in Runs, lock' = q PROVE Owner(q)'
  BY DEF Owned
<1>r. /\ \A g \in Handlers \ {h} : HandsBack(g, q) => HandsBack(g, q)'
      /\ \A w \in Workers : Occupies(w, q) => Occupies(w, q)'
      /\ Closing(q) => Closing(q)'
      /\ \A g \in Handlers \ {h} : Enqueues(g, q) => Enqueues(g, q)'
  BY <1>a DEF Apart, HandsBack, Occupies, Closing, Enqueues
<1>1. ASSUME HandsBack(h, q)'
      PROVE  Owner(q)'
  BY <1>1 DEF Owner
<1>2. ASSUME lock = q, HandsBack(h, q) => HandsBack(h, q)', Awaited(q) => Awaited(q)'
      PROVE  Owner(q)'
  BY <1>2, <1>r, StillOwner DEF Owned
<1>3. CASE LaunchCommit(h) \/ Requeue(h)
  <2>1. lock = q /\ UNCHANGED jobs
    BY <1>3 DEF LaunchCommit, Requeue
  <2>2. CASE api[h].run = q
    <3>1. Enqueues(h, q)'
      BY <1>t, <1>3, <2>2 DEF LaunchCommit, Requeue, To, Handler, Enqueues
    <3>2. status'[q] \notin Terminal
      BY <1>t, <1>3, <2>2 DEF LaunchCommit, Requeue, Terminal
    <3>3. QED
      BY <3>1, <3>2 DEF Owner, Awaited
  <2>3. CASE api[h].run # q
    <3>1. ~HandsBack(h, q) /\ ~Enqueues(h, q)
      BY <2>3 DEF HandsBack, Enqueues
    <3>2. status'[q] = status[q]
      BY <1>t, <1>3, <2>3 DEF LaunchCommit, Requeue
    <3>3. Awaited(q) => Awaited(q)'
      BY <1>r, <2>1, <3>1, <3>2 DEF Awaited
    <3>4. QED
      BY <1>2, <2>1, <3>1, <3>3
  <2>4. QED
    BY <2>2, <2>3
<1>4. CASE LaunchEnqueue(h) \/ Enqueue(h)
  <2>1. lock = q /\ UNCHANGED status /\ ~HandsBack(h, q)
    BY <1>4 DEF LaunchEnqueue, Enqueue, HandsBack
  <2>2. /\ jobs[q] > 0 => jobs'[q] > 0
        /\ Enqueues(h, q) => jobs'[q] > 0
    BY <1>t, <1>4 DEF LaunchEnqueue, Enqueue, Enqueues
  <2>3. Awaited(q) => Awaited(q)'
    BY <1>r, <2>1, <2>2, Zenon DEF Awaited
  <2>4. QED
    BY <1>2, <2>1, <2>3
<1>5. CASE LaunchFails(h) \/ CancelFinish(h) \/ RejectFinish(h)
  <2>1. lock = q /\ UNCHANGED jobs
    BY <1>5 DEF LaunchFails, CancelFinish, RejectFinish
  <2>2. CASE api[h].run = q
    <3>1. HandsBack(h, q)'
      BY <1>t, <1>5, <2>2 DEF LaunchFails, CancelFinish, RejectFinish, To, Handler, HandsBack
    <3>2. QED
      BY <1>1, <3>1
  <2>3. CASE api[h].run # q
    <3>1. ~HandsBack(h, q) /\ ~Enqueues(h, q)
      BY <2>3 DEF HandsBack, Enqueues
    <3>2. status'[q] = status[q]
      BY <1>t, <1>5, <2>3 DEF LaunchFails, CancelFinish, RejectFinish
    <3>3. Awaited(q) => Awaited(q)'
      BY <1>r, <2>1, <3>1, <3>2 DEF Awaited
    <3>4. QED
      BY <1>2, <2>1, <3>1, <3>3
  <2>4. QED
    BY <2>2, <2>3
<1>6. CASE ReleaseLock(h)
  <2>1. UNCHANGED <<status, jobs>> /\ lock = q /\ ~HandsBack(h, q) /\ ~Enqueues(h, q)
    BY <1>6, RunAssumption DEF ReleaseLock, Released, HandsBack, Enqueues
  <2>2. Awaited(q) => Awaited(q)'
    BY <1>r, <2>1 DEF Awaited
  <2>3. QED
    BY <1>2, <2>1, <2>2
<1>7. CASE RetryLock(h) \/ ResumeLock(h)
  <2>1. UNCHANGED <<status, jobs>> /\ ~HandsBack(h, q) /\ ~Enqueues(h, q)
    BY <1>7 DEF RetryLock, ResumeLock, HandsBack, Enqueues
  <2>2. lock = q \/ HandsBack(h, q)'
    BY <1>t, <1>7 DEF RetryLock, ResumeLock, HandsBack, To, Handler
  <2>3. Awaited(q) => Awaited(q)'
    BY <1>r, <2>1 DEF Awaited
  <2>4. QED
    BY <1>1, <1>2, <2>1, <2>2, <2>3
<1>8. ASSUME NEW r \in Runs, LaunchLock(h, r)
      PROVE  Owner(q)'
  BY <1>t, <1>1, <1>8 DEF LaunchLock, Load, HandsBack, Free
<1>9. CASE \/ LaunchCommitFails(h) \/ CancelSkip(h) \/ CloseQuestions(h)
           \/ RetryReset(h) \/ RetryClear(h) \/ RejectSkip(h)
  <2>1. UNCHANGED <<status, jobs>> /\ lock = q /\ ~Enqueues(h, q)
    BY <1>9 DEF LaunchCommitFails, CancelSkip, CloseQuestions, RetryReset, RetryClear,
       RejectSkip, Enqueues
  <2>2. HandsBack(h, q) => HandsBack(h, q)'
    BY <1>t, <1>9 DEF LaunchCommitFails, CancelSkip, CloseQuestions, RetryReset, RetryClear,
       RejectSkip, HandsBack, To, Handler
  <2>3. Awaited(q) => Awaited(q)'
    BY <1>r, <2>1 DEF Awaited
  <2>4. QED
    BY <1>2, <2>1, <2>2, <2>3
<1>10. CASE \/ CancelFlag(h) \/ DecideConflict(h) \/ Clear(h)
            \/ \E verdict \in {"approved", "rejected"} : Decide(h, verdict)
            \/ \E r \in Runs : CancelLoad(h, r) \/ RetryLoad(h, r)
            \/ DecisionRequest(h)
  <2>1. UNCHANGED <<status, jobs>> /\ lock = q /\ ~Enqueues(h, q) /\ ~HandsBack(h, q)
    BY <1>10, Zenon DEF CancelFlag, DecideConflict, Clear, Decide, CancelLoad, RetryLoad,
       DecisionRequest, DecideLoad, ClearLoad, Load, Enqueues, HandsBack
  <2>2. Awaited(q) => Awaited(q)'
    BY <1>r, <2>1 DEF Awaited
  <2>3. QED
    BY <1>2, <2>1, <2>2
<1>11. QED
  BY <1>t, <1>3, <1>4, <1>5, <1>6, <1>7, <1>8, <1>9, <1>10
     DEF ControlStep, DecisionStep, ControlRequest, EnqueueFails

\* A step of the sweep leaves the lock to somebody who gives it back.
LEMMA SweepOwns == ASSUME IInv, Owned, Sweep PROVE Owned'
<1>t. /\ status \in [Runs -> RunStatus] /\ reaper.run \in Runs \cup {NoRun}
      /\ reaper = [pc |-> reaper.pc, run |-> reaper.run]
  BY DEF IInv, TypeOK, StateTypeOK, ReaperTypeOK
<1> SUFFICES ASSUME NEW q \in Runs, lock' = q PROVE Owner(q)'
  BY DEF Owned
<1>r. /\ \A h \in Handlers : HandsBack(h, q) => HandsBack(h, q)'
      /\ \A w \in Workers : Occupies(w, q) => Occupies(w, q)'
      /\ \A h \in Handlers : Enqueues(h, q) => Enqueues(h, q)'
  BY DEF Sweep, HandsBack, Occupies, Enqueues
<1>j. UNCHANGED jobs
  BY DEF Sweep, ReaperStep, ListStale, CheckBeat, ReapLoad, ReapFinish, ReapExpire, ReapRelease
<1>1. CASE (\E r \in Runs : ListStale(r)) \/ CheckBeat \/ ReapLoad \/ ReapExpire \/ ReapRelease
  <2>1. UNCHANGED status /\ lock = q
    BY <1>1, RunAssumption DEF ListStale, CheckBeat, ReapLoad, ReapExpire, ReapRelease, Released
  <2>2. Closing(q) => Closing(q)'
    BY <1>t, <1>1, RunAssumption DEF ListStale, CheckBeat, ReapLoad, ReapExpire, ReapRelease,
       Released, Reap, Closing
  <2>3. Awaited(q) => Awaited(q)'
    BY <1>r, <1>j, <2>1 DEF Awaited
  <2>4. QED
    BY <1>r, <2>1, <2>2, <2>3, StillOwner DEF Owned
<1>2. CASE ReapFinish
  <2>1. lock = q
    BY <1>2 DEF ReapFinish
  <2>2. CASE reaper.run = q
    <3>1. Closing(q)'
      BY <1>t, <1>2, <2>2 DEF ReapFinish, Reap, Closing
    <3>2. QED
      BY <3>1 DEF Owner
  <2>3. CASE reaper.run # q
    <3>1. Awaited(q) => Awaited(q)'
      BY <1>r, <1>j, <1>t, <1>2, <2>3 DEF ReapFinish, Awaited
    <3>2. ~Closing(q)
      BY <2>3 DEF Closing
    <3>3. QED
      BY <1>r, <2>1, <3>1, <3>2, StillOwner DEF Owned
  <2>4. QED
    BY <2>2, <2>3
<1>3. QED
  BY <1>1, <1>2 DEF Sweep, ReaperStep

\* Nobody at work on the lock's run moves.
LEMMA NobodyMoves ==
    ASSUME Owned, UNCHANGED <<status, jobs, exec, api, reaper>>, lock' \in {lock, NoRun}
    PROVE  Owned'
<1> SUFFICES ASSUME NEW q \in Runs, lock' = q PROVE Owner(q)'
  BY DEF Owned
<1>1. lock = q
  BY RunAssumption
<1>2. QED
  BY <1>1, StillOwner DEF Owned, HandsBack, Occupies, Closing, Awaited, Enqueues

\* Owned is kept by every step when nobody dies.
LEMMA OwnedKept == ASSUME IInv, NobodyDiesAtAll, Owned, [Next]_vars PROVE Owned'
<1>1. CASE \E w \in Workers : Work(w)
  BY <1>1, WorkerOwns
<1>2. CASE \E h \in Handlers : Serve(h)
  BY <1>2, RequestOwns DEF Serve
<1>3. CASE \E r \in Runs : Expiry(r)
  BY <1>3, NobodyMoves DEF Expiry, BeatExpires
<1>4. CASE Sweep
  BY <1>4, SweepOwns
<1>5. CASE Surprise
  <2>1. CASE \E h \in Handlers :
               (ControlRequest(h) \/ DecisionRequest(h)) /\ UNCHANGED <<exec, reaper>>
    BY <2>1, RequestOwns
  <2>2. CASE \/ \E r \in Runs, n \in Nodes : SubmitTask(r, n) /\ UNCHANGED <<exec, reaper>>
             \/ LockExpires /\ UNCHANGED <<api, retries, reaper>>
    <3>1. UNCHANGED <<exec, api, jobs, status, reaper>> /\ lock' \in {lock, NoRun}
      BY <2>2 DEF SubmitTask, LockExpires
    <3>2. QED
      BY <3>1, NobodyMoves
  <2>3. QED
    BY <1>5, <2>1, <2>2
       DEF Surprise, NobodyDiesAtAll, NobodyDies, ApiCrash, WorkerCrash, ReaperCrash
<1>6. CASE UNCHANGED vars
  BY <1>6, NobodyMoves DEF vars
<1>7. QED
  BY <1>1, <1>2, <1>3, <1>4, <1>5, <1>6 DEF Next

\* While no process dies and no enqueue is refused, a lock that is held has
\* somebody who gives it back: a request that ends or queues its run, a worker
\* inside the run, the sweep that fails it, or a job that is still to be taken
\* (RunLock in orchestrator/state.py, launch.py, executor.py, reaper.py).
THEOREM LockIsOwned == NobodyDiesAtAll => (Spec => []LockHasOwner)
<1> SUFFICES ASSUME NobodyDiesAtAll PROVE Spec => []LockHasOwner
  OBVIOUS
<1>1. Init => IInv /\ Owned
  BY InitTyped, RunAssumption DEF Init, StateInit, Owned
<1>2. IInv /\ Owned /\ [Next]_vars => IInv' /\ Owned'
  BY StepTyped, OwnedKept
<1>3. IInv /\ Owned => LockHasOwner
  BY DEF IInv, TypeOK, StateTypeOK, Owned, LockHasOwner, Owner, HandsBack, Occupies, Closing,
         Awaited, Enqueues
<1>4. QED
  BY <1>1, <1>2, <1>3, PTL DEF Spec

-----------------------------------------------------------------------------
(* One run per project                                                      *)

\* People only launch runs, nobody sweeps, and no lock expires. Everything else
\* that can go wrong may. A second resume, a retry or a cancellation of a run
\* that is executed gives its lock away, which configurations refute.
OnlyLaunches ==
    Requests \subseteq {"launch"} /\ ~Sweeping /\ "lock_ttl" \notin Faults

\* Request h is launching run r.
Launches(h, r) ==
    api[h].run = r /\ api[h].pc \in {"launch_commit", "launch_enqueue", "release"}

\* The lock names the run of every launch, job and worker, and there is one of
\* these per run.
HeldFor(r) ==
    /\ jobs[r] <= 1
    /\ jobs[r] > 0 => lock = r
    /\ \A h \in Handlers : Launches(h, r) =>
          /\ lock = r
          /\ jobs[r] = 0
          /\ \A g \in Handlers : Launches(g, r) => g = h
    /\ \A w \in Workers : Occupies(w, r) =>
          /\ lock = r
          /\ jobs[r] = 0
          /\ \A h \in Handlers : ~Launches(h, r)
          /\ \A v \in Workers : Occupies(v, r) => v = w

OnlyLaunching ==
    /\ reaper.pc = "resting"
    /\ \A h \in Handlers : api[h].pc \in {"free", "launch_commit", "launch_enqueue", "release"}

Sole == OnlyLaunching /\ \A r \in Runs : HeldFor(r)

\* A step that adds no launch, job or worker, and keeps the lock of those that
\* are left, keeps the lock true.
LEMMA NobodyJoins ==
    ASSUME NEW r \in Runs, HeldFor(r),
           jobs'[r] = jobs[r],
           \A h \in Handlers : Launches(h, r)' => Launches(h, r),
           \A w \in Workers : Occupies(w, r)' => Occupies(w, r),
           \/ lock' = lock
           \/ /\ jobs'[r] = 0
              /\ \A h \in Handlers : ~Launches(h, r)'
              /\ \A w \in Workers : ~Occupies(w, r)'
    PROVE  HeldFor(r)'
<1>1. CASE lock' = lock
  BY <1>1 DEF HeldFor
<1>2. CASE /\ jobs'[r] = 0
           /\ \A h \in Handlers : ~Launches(h, r)'
           /\ \A w \in Workers : ~Occupies(w, r)'
  BY <1>2 DEF HeldFor
<1>3. QED
  BY <1>1, <1>2

\* A step of a worker keeps the run that executes the one that has the lock.
LEMMA WorkerSole ==
    ASSUME IInv, Sole, NEW w \in Workers, Work(w), NEW r \in Runs
    PROVE  HeldFor(r)'
<1>t. /\ exec \in [Workers -> Job] /\ jobs \in [Runs -> Nat] /\ lock \in Runs \cup {NoRun}
      /\ \A v \in Workers : exec[v].pc # "idle" => exec[v].run \in Runs
  BY DEF IInv, TypeOK, ExecTypeOK, StateTypeOK, Seated
<1>a. Alone(w) /\ UNCHANGED api
  BY WorkerMoves DEF Work
<1>l. \A h \in Handlers : Launches(h, r)' => Launches(h, r)
  BY <1>a DEF Launches
<1>o. \A v \in Workers \ {w} : Occupies(v, r)' <=> Occupies(v, r)
  BY <1>a DEF Alone, Occupies
<1>s. HeldFor(r)
  BY DEF Sole
<1>1. ASSUME NEW q \in Runs, Dequeue(w, q)
      PROVE  HeldFor(r)'
  <2>1. lock' = lock
    BY <1>1 DEF Dequeue
  <2>2. CASE q # r
    <3>1. jobs'[r] = jobs[r]
      BY <1>1, <1>t, <2>2 DEF Dequeue
    <3>2. ~Occupies(w, r)'
      BY <1>1, <1>t, <2>2 DEF Dequeue, Occupies, Idle
    <3>3. QED
      BY <1>l, <1>o, <1>s, <2>1, <3>1, <3>2, NobodyJoins
  <2>3. CASE q = r
    <3>1. jobs[r] = 1 /\ jobs'[r] = 0
      BY <1>1, <1>t, <1>s, <2>3 DEF Dequeue, HeldFor
    <3>2. /\ lock = r
          /\ \A h \in Handlers : ~Launches(h, r)
          /\ \A v \in Workers : ~Occupies(v, r)
      BY <1>s, <3>1 DEF HeldFor
    <3>3. /\ lock' = r
          /\ \A h \in Handlers : ~Launches(h, r)'
          /\ \A v \in Workers : Occupies(v, r)' => v = w
      BY <1>l, <1>o, <2>1, <3>2
    <3>4. QED
      BY <3>1, <3>3 DEF HeldFor
  <2>4. QED
    BY <2>2, <2>3
<1>2. CASE Inside(w)
  <2>1. lock' = lock /\ jobs' = jobs /\ (Occupies(w, r)' => Occupies(w, r))
    BY <1>2 DEF Inside, Occupies
  <2>2. QED
    BY <1>l, <1>o, <1>s, <2>1, NobodyJoins
<1>3. CASE AbortRelease(w) \/ PauseRelease(w) \/ FinishRelease(w)
  <2>1. jobs' = jobs /\ ~Occupies(w, r)' /\ lock' = Released(exec[w].run)
    <3>1. CASE AbortRelease(w) \/ PauseRelease(w)
      BY <1>t, <3>1 DEF AbortRelease, PauseRelease, Occupies, Idle
    <3>2. CASE FinishRelease(w)
      BY <1>t, <3>2 DEF FinishRelease, Occupies, Go, Job
    <3>3. QED
      BY <1>3, <3>1, <3>2
  <2>2. Occupies(w, exec[w].run)
    BY <1>3 DEF AbortRelease, PauseRelease, FinishRelease, Occupies
  <2>3. CASE exec[w].run = r
    <3>1. /\ jobs'[r] = 0
          /\ \A h \in Handlers : ~Launches(h, r)'
          /\ \A v \in Workers : ~Occupies(v, r)'
      BY <1>l, <1>o, <1>s, <2>1, <2>2, <2>3 DEF HeldFor
    <3>2. QED
      BY <3>1 DEF HeldFor
  <2>4. CASE exec[w].run # r
    <3>1. exec[w].run \in Runs /\ HeldFor(exec[w].run)
      BY <1>t, <2>2 DEF Occupies, Sole
    <3>2. lock # r
      BY <2>2, <2>4, <3>1 DEF HeldFor
    <3>3. /\ jobs[r] = 0
          /\ \A h \in Handlers : ~Launches(h, r)
          /\ \A v \in Workers : ~Occupies(v, r)
      BY <1>s, <1>t, <3>2 DEF HeldFor
    <3>4. /\ jobs'[r] = 0
          /\ \A h \in Handlers : ~Launches(h, r)'
          /\ \A v \in Workers : ~Occupies(v, r)'
      BY <1>l, <1>o, <2>1, <3>3
    <3>5. QED
      BY <3>4 DEF HeldFor
  <2>5. QED
    BY <2>3, <2>4
<1>4. CASE ClearCancel(w)
  <2>1. lock' = lock /\ jobs' = jobs /\ ~Occupies(w, r)'
    BY <1>4, <1>t DEF ClearCancel, Occupies, Idle
  <2>2. QED
    BY <1>l, <1>o, <1>s, <2>1, NobodyJoins
<1>5. QED
  BY <1>1, <1>2, <1>3, <1>4, WorkerMoves DEF Work

\* A step of a launch keeps the run that executes the one that has the lock.
LEMMA LaunchSole ==
    ASSUME IInv, OnlyLaunches, Sole, NEW h \in Handlers, UNCHANGED <<exec, reaper>>,
           \/ ControlStep(h) \/ DecisionStep(h) \/ ControlRequest(h) \/ DecisionRequest(h)
           \/ ApiCrash(h)
    PROVE  Sole'
<1>t. /\ api \in [Handlers -> Handler] /\ jobs \in [Runs -> Nat] /\ lock \in Runs \cup {NoRun}
      /\ api[h].pc \in {"free", "launch_commit", "launch_enqueue", "release"}
  BY DEF IInv, TypeOK, ControlTypeOK, StateTypeOK, Sole, OnlyLaunching
<1>a. Apart(h)
  BY RequestsMoveAlone
<1>o. /\ \A g \in Handlers \ {h}, r \in Runs : Launches(g, r)' <=> Launches(g, r)
      /\ \A w \in Workers, r \in Runs : Occupies(w, r)' <=> Occupies(w, r)
  BY <1>a DEF Apart, Launches, Occupies
<1>d. \/ LaunchCommit(h) \/ LaunchCommitFails(h) \/ LaunchEnqueue(h) \/ LaunchFails(h)
      \/ ReleaseLock(h) \/ ApiCrash(h) \/ \E r \in Runs : LaunchLock(h, r)
  <2>1. ASSUME ControlStep(h)
        PROVE  \/ LaunchCommit(h) \/ LaunchCommitFails(h) \/ LaunchEnqueue(h)
               \/ LaunchFails(h) \/ ReleaseLock(h)
    BY <1>t, <2>1 DEF ControlStep, CancelFlag, CancelFinish, CancelSkip, CloseQuestions,
       RetryLock, RetryReset, RetryClear, Requeue, Enqueue, EnqueueFails
  <2>2. ~DecisionStep(h)
    BY <1>t, Zenon DEF DecisionStep, Decide, DecideConflict, ResumeLock, RejectSkip, RejectFinish, Clear
  <2>3. ~DecisionRequest(h) /\ (ControlRequest(h) => \E r \in Runs : LaunchLock(h, r))
    BY DEF DecisionRequest, ControlRequest, OnlyLaunches
  <2>4. QED
    BY <2>1, <2>2, <2>3
<1>p. OnlyLaunching'
  <2>1. api'[h].pc \in {"free", "launch_commit", "launch_enqueue", "release"}
    <3>1. CASE LaunchCommit(h) \/ LaunchCommitFails(h) \/ LaunchFails(h)
      BY <1>t, <3>1 DEF LaunchCommit, LaunchCommitFails, LaunchFails, To, Handler
    <3>2. CASE LaunchEnqueue(h) \/ ReleaseLock(h) \/ ApiCrash(h)
      BY <1>t, <3>2 DEF LaunchEnqueue, ReleaseLock, ApiCrash, Done, Free
    <3>3. CASE \E r \in Runs : LaunchLock(h, r)
      BY <1>t, <3>3 DEF LaunchLock, Load, Free
    <3>4. QED
      BY <1>d, <3>1, <3>2, <3>3
  <2>2. QED
    BY <1>a, <2>1 DEF Apart, Sole, OnlyLaunching
<1>1. CASE LaunchCommit(h) \/ LaunchCommitFails(h) \/ LaunchFails(h)
  <2>1. UNCHANGED <<jobs, lock>>
    BY <1>1 DEF LaunchCommit, LaunchCommitFails, LaunchFails
  <2>2. \A r \in Runs : Launches(h, r)' => Launches(h, r)
    BY <1>1, <1>t DEF LaunchCommit, LaunchCommitFails, LaunchFails, To, Launches, Handler
  <2>3. \A r \in Runs : HeldFor(r)'
    BY <1>o, <2>1, <2>2, NobodyJoins DEF Sole
  <2>4. QED
    BY <1>p, <2>3 DEF Sole
<1>2. CASE LaunchEnqueue(h)
  <2>1. UNCHANGED lock /\ \A r \in Runs : ~Launches(h, r)'
    BY <1>2, <1>t DEF LaunchEnqueue, Done, Launches, Free
  <2>2. ASSUME NEW r \in Runs, r # api[h].run
        PROVE  HeldFor(r)'
    <3>1. jobs'[r] = jobs[r]
      BY <1>2, <1>t, <2>2 DEF LaunchEnqueue
    <3>2. QED
      BY <1>o, <2>1, <3>1, NobodyJoins DEF Sole
  <2>3. ASSUME NEW r \in Runs, r = api[h].run
        PROVE  HeldFor(r)'
    <3>1. Launches(h, r) /\ HeldFor(r)
      BY <1>2, <2>3 DEF LaunchEnqueue, Launches, Sole
    <3>2. /\ lock = r /\ jobs[r] = 0
          /\ \A g \in Handlers \ {h} : ~Launches(g, r)
          /\ \A w \in Workers : ~Occupies(w, r)
      BY <3>1 DEF HeldFor
    <3>3. /\ lock' = r
          /\ \A g \in Handlers : ~Launches(g, r)'
          /\ \A w \in Workers : ~Occupies(w, r)'
      BY <1>o, <2>1, <3>2
    <3>4. jobs'[r] = 1
      BY <1>2, <1>t, <2>3, <3>2 DEF LaunchEnqueue
    <3>5. QED
      BY <3>3, <3>4 DEF HeldFor
  <2>4. QED
    BY <1>p, <2>2, <2>3 DEF Sole
<1>3. CASE ReleaseLock(h)
  <2>1. UNCHANGED jobs /\ lock' = Released(api[h].run) /\ \A r \in Runs : ~Launches(h, r)'
    BY <1>3, <1>t DEF ReleaseLock, Done, Launches, Free
  <2>2. ASSUME NEW r \in Runs
        PROVE  HeldFor(r)'
    <3>1. CASE lock' = lock
      BY <1>o, <2>1, <3>1, NobodyJoins DEF Sole
    <3>2. CASE lock = api[h].run
      <4>1. /\ jobs[r] = 0 \/ lock = r
            /\ \A g \in Handlers : Launches(g, r) => lock = r
            /\ \A w \in Workers : Occupies(w, r) => lock = r
        BY <1>t DEF Sole, HeldFor
      <4>2. lock = r => Launches(h, r)
        BY <1>3, <3>2 DEF ReleaseLock, Launches
      <4>3. HeldFor(r)
        BY DEF Sole
      <4>4. /\ jobs[r] = 0
            /\ \A g \in Handlers \ {h} : ~Launches(g, r)
            /\ \A w \in Workers : ~Occupies(w, r)
        BY <4>1, <4>2, <4>3 DEF HeldFor
      <4>5. /\ jobs'[r] = 0
            /\ \A g \in Handlers : ~Launches(g, r)'
            /\ \A w \in Workers : ~Occupies(w, r)'
        BY <1>o, <2>1, <4>4
      <4>6. QED
        BY <4>5 DEF HeldFor
    <3>3. QED
      BY <2>1, <3>1, <3>2 DEF Released
  <2>3. QED
    BY <1>p, <2>2 DEF Sole
<1>4. CASE ApiCrash(h)
  <2>1. UNCHANGED <<jobs, lock>> /\ \A r \in Runs : ~Launches(h, r)'
    BY <1>4, <1>t DEF ApiCrash, Done, Launches, Free
  <2>2. \A r \in Runs : HeldFor(r)'
    BY <1>o, <2>1, NobodyJoins DEF Sole
  <2>3. QED
    BY <1>p, <2>2 DEF Sole
<1>5. ASSUME NEW q \in Runs, LaunchLock(h, q)
      PROVE  Sole'
  <2>1. lock = NoRun /\ lock' = q /\ UNCHANGED jobs
    BY <1>5 DEF LaunchLock
  <2>2. \A r \in Runs : Launches(h, r)' => r = q
    BY <1>5, <1>t DEF LaunchLock, Load, Launches, Free
  <2>3. ASSUME NEW r \in Runs
        PROVE  HeldFor(r)'
    <3>1. /\ jobs[r] = 0
          /\ \A g \in Handlers : ~Launches(g, r)
          /\ \A w \in Workers : ~Occupies(w, r)
      BY <1>t, <2>1, RunAssumption DEF Sole, HeldFor
    <3>2. /\ jobs'[r] = 0
          /\ \A g \in Handlers : Launches(g, r)' => g = h /\ r = q
          /\ \A w \in Workers : ~Occupies(w, r)'
      BY <1>o, <2>1, <2>2, <3>1
    <3>3. QED
      BY <2>1, <3>2 DEF HeldFor
  <2>4. QED
    BY <1>p, <2>3 DEF Sole
<1>6. QED
  BY <1>d, <1>1, <1>2, <1>3, <1>4, <1>5

\* Sole is kept by every step when there are only launches.
LEMMA SoleKept == ASSUME IInv, OnlyLaunches, Sole, [Next]_vars PROVE Sole'
<1>1. CASE \E w \in Workers : Work(w)
  <2>1. OnlyLaunching'
    BY <1>1 DEF Work, Sole, OnlyLaunching
  <2>2. QED
    BY <1>1, <2>1, WorkerSole DEF Sole
<1>2. CASE \E h \in Handlers : Serve(h)
  BY <1>2, LaunchSole DEF Serve
<1>3. CASE Sweep
  BY <1>3 DEF Sweep, ReaperStep, ListStale, CheckBeat, ReapLoad, ReapFinish, ReapExpire,
     ReapRelease, OnlyLaunches, Sole, OnlyLaunching
<1>4. CASE Surprise
  <2>1. CASE \E h \in Handlers : (ControlRequest(h) \/ DecisionRequest(h) \/ ApiCrash(h))
                                 /\ UNCHANGED <<exec, reaper>>
    BY <2>1, LaunchSole
  <2>2. ASSUME NEW w \in Workers, WorkerCrash(w), UNCHANGED <<api, reaper>>
        PROVE  Sole'
    <3>1. UNCHANGED <<jobs, lock>>
      BY <2>2 DEF WorkerCrash
    <3>2. \A v \in Workers, r \in Runs : Occupies(v, r)' => Occupies(v, r)
      BY <2>2 DEF WorkerCrash, Occupies, Idle, IInv, TypeOK, ExecTypeOK
    <3>3. \A h \in Handlers, r \in Runs : Launches(h, r)' => Launches(h, r)
      BY <2>2 DEF Launches
    <3>4. \A r \in Runs : HeldFor(r)'
      BY <3>1, <3>2, <3>3, NobodyJoins DEF Sole
    <3>5. QED
      BY <2>2, <3>4 DEF Sole, OnlyLaunching
  <2>3. QED
    BY <1>4, <2>1, <2>2
       DEF Surprise, OnlyLaunches, SubmitTask, LockExpires, ReaperCrash, Sole, OnlyLaunching
<1>5. CASE (\E r \in Runs : Expiry(r)) \/ UNCHANGED vars
  <2>1. UNCHANGED <<exec, api, reaper, jobs, lock>>
    BY <1>5 DEF Expiry, BeatExpires, vars
  <2>2. \A r \in Runs : HeldFor(r)'
    BY <2>1 DEF Sole, HeldFor, Launches, Occupies
  <2>3. QED
    BY <2>1, <2>2 DEF Sole, OnlyLaunching
<1>6. QED
  BY <1>1, <1>2, <1>3, <1>4, <1>5 DEF Next

\* However many people launch in one project, and whatever fails or dies on the
\* way, the lock lets one run through at a time (RunLock in orchestrator/state.py,
\* launch.py).
THEOREM LaunchesExclude == OnlyLaunches => (Spec => []OneRunPerProject)
<1> SUFFICES ASSUME OnlyLaunches PROVE Spec => []OneRunPerProject
  OBVIOUS
<1>1. Init => IInv /\ Sole
  BY InitTyped DEF Init, StateInit, ExecInit, ControlInit, ReaperInit, Idle, Free, Resting,
     Sole, OnlyLaunching, HeldFor, Launches, Occupies
<1>2. IInv /\ Sole /\ [Next]_vars => IInv' /\ Sole'
  BY StepTyped, SoleKept
<1>3. IInv /\ Sole => OneRunPerProject
  <2>1. ASSUME IInv, Sole, NEW w \in Workers, NEW r \in Runs, Executing(w, r)
        PROVE  lock = r
    BY <2>1 DEF Executing, Occupies, Sole, HeldFor
  <2>2. QED
    BY <2>1 DEF OneRunPerProject
<1>4. QED
  BY <1>1, <1>2, <1>3, PTL DEF Spec

-----------------------------------------------------------------------------
(* The steps that write a row                                               *)

\* Only node n of run r is touched.
TouchesOnly(r, n) ==
    /\ \A q \in Runs \ {r} : rows'[q] = rows[q] /\ asks'[q] = asks[q]
    /\ \A m \in Nodes \ {n} : rows'[r][m] = rows[r][m] /\ asks'[r][m] = asks[r][m]

\* A worker writes the row of a node of its wave.
LEMMA RowStep ==
    ASSUME IInv, IInv', Flow(exec, rows, asks, api), OneExecutor,
           NEW w \in Workers, Alone(w), NEW n \in Nodes,
           NEW e, e = exec[w], NEW f, f = exec'[w], AtOne(e, f, n), Elsewhere(e, f, n),
           NEW r, r = e.run, TouchesOnly(r, n),
           \A h \in Handlers : Served(api'[h], asks'),
           NEW u, u = rows'[r][n], NEW p, p = asks'[r][n],
           Open(p) => StatusOf(u) = "awaiting_approval" /\ f.at[n] = "halted",
           p # <<>> => Kind[n] = "gate",
           Firm(n) => LastSuccess(u),
           Approved(p) => Succeeded(u),
           f.at[n] = "ok" => Succeeded(u),
           Firm(n) /\ Succeeded(u) => f.at[n] = "ok",
           NumberedAt(f, u, n),
           \A a \in DOMAIN u : u[a].by # NoWorker => HeldAt(exec'[u[a].by], r, n, a, u[a])
    PROVE  Flow(exec', rows', asks', api')
<1>0. /\ View(e, rows, asks) /\ e.pc = "wave" /\ f.pc = "wave" /\ f.run = r /\ r \in Runs
      /\ f.outputs = e.outputs /\ f.halted = e.halted /\ f.outcome = e.outcome
      /\ InWaves(e) /\ InWaves(f) /\ e.outcome = "none" /\ InOrder(f)
  <2>1. View(e, rows, asks)
    BY Zenon DEF Flow
  <2>2. /\ e.pc = "wave" /\ f.pc = "wave" /\ f.run = r
        /\ f.outputs = e.outputs /\ f.halted = e.halted /\ f.outcome = e.outcome
    BY DEF AtOne
  <2>3. InOrder(f)
    BY <2>1, AtOneInOrder DEF View
  <2>4. InWaves(e) /\ InWaves(f) /\ e.outcome = "none"
    BY <2>1, <2>2 DEF View, AfterWaves, InWaves
  <2>5. r \in Runs
    BY <2>2, Typed, Zenon
  <2>6. QED
    BY <2>1, <2>2, <2>3, <2>4, <2>5
<1>1. n \notin e.outputs /\ Deps[n] \subseteq e.outputs
  BY <1>0, InputsReady, SMTT(30) DEF AtOne, View
<1>2. \A m \in Nodes : PassAt(e, rows[r], asks[r], m) /\ SoundAt(rows[r], asks[r], m)
  BY <1>0 DEF View, Flow, SoundRuns
<1>3. \A m \in Nodes : Deps[m] \subseteq Nodes
  BY GraphAssumption DEF Nodes
<1>4. \A v \in Workers \ {w} :
        exec'[v] = exec[v] /\ (InWaves(exec[v]) => exec[v].run \in Runs \ {r})
  <2>1. TAKE v \in Workers \ {w}
  <2>2. InWaves(exec[v]) => exec[v].run \in Runs
    BY Typed DEF InWaves
  <2>3. InWaves(exec[v]) => exec[v].run # r
    BY <1>0 DEF OneExecutor, WorksOn, AtWork, InWaves
  <2>4. QED
    BY <2>2, <2>3 DEF Alone
<1>5. \A m \in Nodes : SoundAt(rows'[r], asks'[r], m)
  <2>1. \A m \in Nodes : n \in Deps[m] => ~Tried(rows[r][m])
    BY <1>1, <1>2 DEF PassAt
  <2>2. \A m \in Deps[n] : m # n /\ Succeeded(rows[r][m])
    BY <1>1, <1>2, <1>3 DEF PassAt
  <2>3. \A m \in Nodes \ {n} : rows'[r][m] = rows[r][m] /\ asks'[r][m] = asks[r][m]
    BY DEF TouchesOnly
  <2>4. /\ Tried(rows'[r][n]) => \A m \in Deps[n] : m # n /\ Succeeded(rows[r][m])
        /\ Open(asks'[r][n]) => StatusOf(rows'[r][n]) = "awaiting_approval"
        /\ asks'[r][n] # <<>> => Kind[n] = "gate"
        /\ Firm(n) => LastSuccess(rows'[r][n])
        /\ Approved(asks'[r][n]) => Succeeded(rows'[r][n])
    BY <2>2
  <2>5. \A m \in Nodes : SoundAt(rows[r], asks[r], m)
    BY <1>2
  <2>6. QED
    BY <2>1, <2>3, <2>4, <2>5, ChangeSound
<1>6. SoundRuns(rows', asks')
  <2>1. ASSUME NEW q \in Runs, NEW m \in Nodes PROVE SoundAt(rows'[q], asks'[q], m)
    <3>1. CASE q = r
      BY <1>5, <3>1
    <3>2. CASE q # r
      <4>1. rows'[q] = rows[q] /\ asks'[q] = asks[q] /\ SoundAt(rows[q], asks[q], m)
        BY <3>2, SMTT(30) DEF TouchesOnly, Flow, SoundRuns
      <4>2. QED
        BY <4>1
    <3>3. QED
      BY <3>1, <3>2
  <2>2. QED
    BY <2>1 DEF SoundRuns
<1>7. View(f, rows', asks')
  <2>1. \A m \in Nodes : PassAt(f, rows'[r], asks'[r], m)
    <3>1. PassAt(f, rows'[r], asks'[r], n)
      BY <1>0, <1>1, Zenon DEF PassAt
    <3>2. ASSUME NEW m \in Nodes \ {n} PROVE PassAt(f, rows'[r], asks'[r], m)
      <4>1. /\ PassAt(e, rows[r], asks[r], m) /\ f.at[m] = e.at[m]
            /\ rows'[r][m] = rows[r][m] /\ asks'[r][m] = asks[r][m]
        BY <1>2 DEF TouchesOnly, Elsewhere
      <4>2. QED
        BY <1>0, <4>1 DEF PassAt
    <3>3. QED
      BY <3>1, <3>2
  <2>2. ASSUME NEW m \in Nodes PROVE NumberedAt(f, rows'[r][m], m)
    <3>1. CASE m = n
      BY <3>1, SMTT(30)
    <3>2. CASE m # n
      <4>1. NumberedAt(e, rows[r][m], m) /\ rows'[r][m] = rows[r][m]
            /\ f.at[m] = e.at[m] /\ f.base[m] = e.base[m] /\ f.tries[m] = e.tries[m]
        BY <1>0, <3>2 DEF View, TouchesOnly, Elsewhere
      <4>2. QED
        BY <4>1, SMTT(30) DEF NumberedAt
    <3>3. QED
      BY <3>1, <3>2
  <2>3. QED
    BY <1>0, <2>1, <2>2, SMTT(30) DEF View
<1>8. ASSUME NEW v \in Workers PROVE View(exec'[v], rows', asks')
  <2>1. CASE v = w
    BY <1>7, <2>1
  <2>2. CASE v # w
    <3>1. PICK g : g = exec[v]
      OBVIOUS
    <3>2. View(g, rows, asks) /\ exec'[v] = g
      BY <1>4, <2>2, <3>1 DEF Flow
    <3>3. InWaves(g) => rows'[g.run] = rows[g.run] /\ asks'[g.run] = asks[g.run]
      BY <1>4, <2>2, <3>1 DEF InWaves, TouchesOnly
    <3>4. View(g, rows', asks')
      BY <3>2, <3>3 DEF View, InWaves
    <3>5. QED
      BY <3>2, <3>4
  <2>3. QED
    BY <2>1, <2>2
<1>9. Holds(exec', rows')
  <2> SUFFICES ASSUME NEW q \in Runs, NEW m \in Nodes, NEW a \in DOMAIN rows'[q][m],
                      rows'[q][m][a].by # NoWorker
               PROVE  HeldAt(exec'[rows'[q][m][a].by], q, m, a, rows'[q][m][a])
    BY Zenon DEF Holds
  <2>1. CASE q = r /\ m = n
    BY <2>1
  <2>2. CASE q # r \/ m # n
    <3>1. rows'[q][m] = rows[q][m]
      BY <1>0, <2>2 DEF TouchesOnly
    <3>2. PICK v : v = rows[q][m][a].by
      OBVIOUS
    <3>3. v \in Workers
      BY <3>1, <3>2, Typed DEF GoodTable, IsTable, RowTable
    <3>4. HeldAt(exec[v], q, m, a, rows[q][m][a])
      BY <3>1, <3>2, Zenon DEF Flow, Holds
    <3>5. CASE v # w
      BY <1>4, <3>1, <3>2, <3>3, <3>4, <3>5
    <3>6. CASE v = w
      <4>1. m # n
        BY <2>2, <3>4, <3>6, Zenon DEF HeldAt
      <4>2. HeldAt(f, q, m, a, rows[q][m][a])
        BY <1>0, <3>4, <3>6, <4>1, Zenon DEF HeldAt, Elsewhere
      <4>3. QED
        BY <3>1, <3>2, <3>6, <4>2
    <3>7. QED
      BY <3>5, <3>6
  <2>3. QED
    BY <2>1, <2>2
<1>10. Wins(exec', rows')
  <2> SUFFICES ASSUME NEW v \in Workers, Won(exec'[v])
               PROVE  /\ ~InWaves(exec'[v])
                      /\ \A m \in Nodes : Succeeded(rows'[exec'[v].run][m])
                      /\ \A x \in Workers : InWaves(exec'[x]) /\ exec'[x].run = exec'[v].run =>
                            exec'[x].outputs = Nodes
    BY Zenon DEF Wins
  <2>1. v # w
    BY <1>0 DEF Won
  <2>2. exec'[v] = exec[v] /\ Won(exec[v])
    BY <1>4, <2>1
  <2>3. PICK q : q = exec[v].run
    OBVIOUS
  <2>4. /\ ~InWaves(exec[v]) /\ \A m \in Nodes : Succeeded(rows[q][m])
        /\ \A x \in Workers : InWaves(exec[x]) /\ exec[x].run = q => exec[x].outputs = Nodes
    BY <2>2, <2>3 DEF Flow, Wins
  <2>5. q \in Runs /\ q # r
    <3>1. exec[v].pc # "idle"
      <4>1. exec[v].pc \in AfterWaves
        BY <2>2 DEF Flow, View, Won
      <4>2. QED
        BY <4>1 DEF AfterWaves
    <3>2. q # r
      BY <1>0, <1>1, <2>4
    <3>3. QED
      BY <2>3, <3>1, <3>2, Typed
  <2>6. rows'[q] = rows[q]
    BY <2>5 DEF TouchesOnly
  <2>7. ASSUME NEW x \in Workers, InWaves(exec'[x]), exec'[x].run = q
        PROVE  exec'[x].outputs = Nodes
    <3>1. x # w
      BY <1>0, <2>5, <2>7
    <3>2. QED
      BY <1>4, <2>4, <2>7, <3>1, Zenon
  <2>8. QED
    BY <2>2, <2>3, <2>4, <2>6, <2>7
<1>11. QED
  BY <1>6, <1>8, <1>9, <1>10 DEF Flow

\* What the newest row of a table becomes when its status is set.
LEMMA AnsweredRow ==
    ASSUME NEW old, GoodTable(old), DOMAIN old # {}, ~(StatusOf(old) = "succeeded"),
           NEW s \in NodeStatus, NEW new, new = SetLast(old, s)
    PROVE  /\ DOMAIN new = DOMAIN old /\ StatusOf(new) = s
           /\ \A b \in DOMAIN old \ {Newest(old)} : new[b] = old[b]
           /\ LastSuccess(old) => LastSuccess(new)
           /\ new[Newest(old)].by = old[Newest(old)].by
<1>1. PICK a : a = Newest(old)
  OBVIOUS
<1>2. a \in DOMAIN old /\ \A b \in DOMAIN old : b <= a
  BY <1>1, NewestIsGreatest
<1>3. PICK row : row = [old[a] EXCEPT !.status = s]
  OBVIOUS
<1>4. row \in RowTable /\ row.status = s /\ row.by = old[a].by
  <2>1. old[a] \in RowTable
    BY <1>2 DEF GoodTable, IsTable
  <2>2. QED
    BY <1>3, <2>1 DEF RowTable
<1>5. /\ DOMAIN new = DOMAIN old /\ new[a] = row
      /\ \A b \in DOMAIN old \ {a} : new[b] = old[b]
  BY <1>1, <1>2, <1>3 DEF SetLast
<1>6. GoodTable(new)
  BY SetLastTyped
<1>7. /\ StatusOf(new) = new[a].status /\ StatusOf(old) = old[a].status
      /\ LastSuccess(old) /\ old[a].status # "succeeded" => LastSuccess(new)
  BY <1>2, <1>5, <1>6, RewrittenRow
<1>8. QED
  BY <1>1, <1>4, <1>5, <1>7

\* A person's answer, or the clearance, writes the newest row of a node that
\* waits for it.
LEMMA AnswerStep ==
    ASSUME IInv, IInv', Flow(exec, rows, asks, api), exec' = exec,
           NEW r \in Runs, NEW n \in Nodes, TouchesOnly(r, n),
           \A h \in Handlers : Served(api'[h], asks'),
           NEW s \in {"succeeded", "failed"}, rows'[r][n] = SetLast(rows[r][n], s),
           StatusOf(rows[r][n]) \in {"awaiting_approval", "awaiting_human_task"},
           NEW p, p = asks'[r][n],
           ~Open(p), p # <<>> => Kind[n] = "gate",
           Approved(p) => s = "succeeded",
           Firm(n) => Open(asks[r][n])
    PROVE  Flow(exec', rows', asks', api')
<1> DEFINE old == rows[r][n]
           u == rows'[r][n]
           a0 == Newest(old)
<1>0. GoodTable(old) /\ DOMAIN old # {} /\ old[a0].status = StatusOf(old)
  BY Typed DEF StatusOf
<1>1. a0 \in DOMAIN old /\ \A b \in DOMAIN old : b <= a0
  BY <1>0, NewestIsGreatest
<1>2. /\ DOMAIN u = DOMAIN old /\ StatusOf(u) = s
      /\ \A b \in DOMAIN old \ {a0} : u[b] = old[b]
      /\ LastSuccess(old) => LastSuccess(u)
      /\ u[a0].by = old[a0].by
  <2>1. PICK t : t = old
    OBVIOUS
  <2>2. PICK v : v = u
    OBVIOUS
  <2>3. v = SetLast(t, s) /\ GoodTable(t) /\ DOMAIN t # {} /\ ~(StatusOf(t) = "succeeded")
        /\ Newest(t) = a0
    BY <1>0, <2>1, <2>2
  <2> HIDE DEF old, u, a0
  <2>4. s \in NodeStatus
    BY DEF NodeStatus
  <2>5. /\ DOMAIN v = DOMAIN t /\ StatusOf(v) = s
        /\ \A b \in DOMAIN t \ {Newest(t)} : v[b] = t[b]
        /\ LastSuccess(t) => LastSuccess(v)
        /\ v[Newest(t)].by = t[Newest(t)].by
    BY <2>3, <2>4, AnsweredRow
  <2>6. QED
    BY <2>1, <2>2, <2>3, <2>5
<1>3. StatusOf(old) \in {"awaiting_approval", "awaiting_human_task"}
  OBVIOUS
<1>4. ~Succeeded(old)
  BY <1>3 DEF Succeeded
<1>5. \A m \in Nodes : SoundAt(rows[r], asks[r], m)
  BY DEF Flow, SoundRuns
<1>6. Tried(old)
  BY <1>0, <1>1, <1>3 DEF Tried
<1> HIDE DEF a0, old, u
<1>7. \A m \in Nodes : SoundAt(rows'[r], asks'[r], m)
  <2>1. \A m \in Nodes : n \in Deps[m] => ~Tried(rows[r][m])
    BY <1>4, <1>5 DEF SoundAt, old
  <2>2. \A m \in Deps[n] : m # n /\ Succeeded(rows[r][m])
    BY <1>4, <1>5, <1>6 DEF SoundAt, old
  <2>3. \A m \in Nodes \ {n} : rows'[r][m] = rows[r][m] /\ asks'[r][m] = asks[r][m]
    BY DEF TouchesOnly
  <2>4. Firm(n) => LastSuccess(rows'[r][n])
    BY <1>2, <1>5 DEF SoundAt, old, u
  <2>5. Approved(asks'[r][n]) => Succeeded(rows'[r][n])
    BY <1>2 DEF Succeeded, u
  <2>6. QED
    BY <1>5, <2>1, <2>2, <2>3, <2>4, <2>5, ChangeSound
<1>8. SoundRuns(rows', asks')
  <2>1. ASSUME NEW q \in Runs, NEW m \in Nodes PROVE SoundAt(rows'[q], asks'[q], m)
    <3>1. CASE q = r
      BY <1>7, <3>1
    <3>2. CASE q # r
      <4>1. rows'[q] = rows[q] /\ asks'[q] = asks[q] /\ SoundAt(rows[q], asks[q], m)
        BY <3>2 DEF TouchesOnly, Flow, SoundRuns
      <4>2. QED
        BY <4>1
    <3>3. QED
      BY <3>1, <3>2
  <2>2. QED
    BY <2>1 DEF SoundRuns
<1>9. ASSUME NEW w \in Workers PROVE View(exec'[w], rows', asks')
  <2>1. PICK e : e = exec[w]
    OBVIOUS
  <2>2. View(e, rows, asks) /\ exec'[w] = e
    BY <2>1 DEF Flow
  <2>3. InWaves(e) => e.run \in Runs
    BY <2>1, Typed DEF InWaves
  <2>4. CASE InWaves(e) /\ e.run = r
    <3>1. ASSUME NEW m \in Nodes PROVE PassAt(e, rows'[r], asks'[r], m)
      <4>0. PassAt(e, rows[r], asks[r], m)
        BY <2>2, <2>4 DEF View
      <4>1. CASE m # n
        <5>1. rows'[r][m] = rows[r][m] /\ asks'[r][m] = asks[r][m]
          BY <4>1 DEF TouchesOnly
        <5>2. QED
          BY <4>0, <5>1 DEF PassAt
      <4>2. CASE m = n
        <5>1. Tried(u) => Tried(old)
          BY <1>6
        <5>2. Firm(n) => n \in e.halted \/ e.at[n] = "halted"
          BY <4>0, <4>2 DEF PassAt
        <5>3. QED
          BY <1>4, <4>0, <4>2, <5>1, <5>2 DEF PassAt, old, u
      <4>3. QED
        BY <4>1, <4>2
    <3>2. ASSUME e.pc = "wave", NEW m \in Nodes PROVE NumberedAt(e, rows'[r][m], m)
      <4>1. NumberedAt(e, rows[r][m], m)
        BY <2>2, <2>4, <3>2 DEF View
      <4>2. DOMAIN rows'[r][m] = DOMAIN rows[r][m]
        BY <1>2 DEF TouchesOnly, old, u
      <4>3. QED
        BY <4>1, <4>2 DEF NumberedAt
    <3>3. QED
      BY <2>2, <2>4, <3>1, <3>2 DEF View
  <2>5. CASE ~(InWaves(e) /\ e.run = r)
    <3>1. InWaves(e) => rows'[e.run] = rows[e.run] /\ asks'[e.run] = asks[e.run]
      BY <2>3, <2>5 DEF TouchesOnly
    <3>2. View(e, rows', asks')
      BY <2>2, <3>1 DEF View, InWaves
    <3>3. QED
      BY <2>2, <3>2
  <2>6. QED
    BY <2>4, <2>5
<1>10. Holds(exec', rows')
  <2> SUFFICES ASSUME NEW q \in Runs, NEW m \in Nodes, NEW a \in DOMAIN rows'[q][m],
                      rows'[q][m][a].by # NoWorker
               PROVE  HeldAt(exec'[rows'[q][m][a].by], q, m, a, rows'[q][m][a])
    BY DEF Holds
  <2>1. CASE q = r /\ m = n
    <3>1. a \in DOMAIN old /\ u[a].by = old[a].by
      BY <1>2, <2>1 DEF u
    <3>2. HeldAt(exec[old[a].by], r, n, a, old[a])
      BY <2>1, <3>1 DEF Flow, Holds, old, u
    <3>3. a # a0
      BY <1>0, <1>3, <3>2 DEF HeldAt
    <3>4. u[a] = old[a]
      BY <1>2, <3>1, <3>3
    <3>5. QED
      BY <2>1, <3>2, <3>4 DEF u
  <2>2. CASE q # r \/ m # n
    <3>1. rows'[q][m] = rows[q][m]
      BY <2>2 DEF TouchesOnly
    <3>2. QED
      BY <3>1 DEF Flow, Holds
  <2>3. QED
    BY <2>1, <2>2
<1>11. Wins(exec', rows')
  <2> SUFFICES ASSUME NEW v \in Workers, Won(exec[v])
               PROVE  /\ ~InWaves(exec[v])
                      /\ \A m \in Nodes : Succeeded(rows'[exec[v].run][m])
                      /\ \A x \in Workers : InWaves(exec[x]) /\ exec[x].run = exec[v].run =>
                            exec[x].outputs = Nodes
    BY DEF Wins
  <2>1. PICK q : q = exec[v].run
    OBVIOUS
  <2>2. /\ ~InWaves(exec[v]) /\ \A m \in Nodes : Succeeded(rows[q][m])
        /\ \A x \in Workers : InWaves(exec[x]) /\ exec[x].run = q => exec[x].outputs = Nodes
    BY <2>1 DEF Flow, Wins
  <2>3. q \in Runs
    <3>1. exec[v].pc # "idle"
      <4>1. exec[v].pc \in AfterWaves
        BY DEF Flow, View, Won
      <4>2. QED
        BY <4>1 DEF AfterWaves
    <3>2. QED
      BY <2>1, <3>1, Typed
  <2>4. q # r
    BY <1>4, <2>2 DEF old
  <2>5. rows'[q] = rows[q]
    BY <2>3, <2>4 DEF TouchesOnly
  <2>6. QED
    BY <2>1, <2>2, <2>5
<1>12. QED
  BY <1>8, <1>9, <1>10, <1>11 DEF Flow

-----------------------------------------------------------------------------
(* The steps of one node                                                    *)

\* What a checkpoint with status s and result p writes: the newest row of the
\* node, which the worker held.
Checkpointed(e, f, r, n, s, p, old, u, w) ==
    /\ r \in Runs /\ f.at[n] = p
    /\ f.base[n] = e.base[n] /\ f.tries[n] = e.tries[n]
    /\ e.base[n] >= 1 /\ \A a \in DOMAIN u : a < e.base[n] + e.tries[n]
    /\ \A q \in Runs \ {r} : rows'[q] = rows[q]
    /\ \A m \in Nodes \ {n} : rows'[r][m] = rows[r][m]
    /\ StatusOf(u) = s /\ StatusOf(old) \in {"running", "failed", "skipped"}
    /\ LastSuccess(old) => LastSuccess(u)
    /\ \A a \in DOMAIN u : u[a].by # NoWorker =>
          a \in DOMAIN old /\ u[a] = old[a] /\ u[a].by # w

\* Every checkpoint is one of these.
LEMMA CheckpointRow ==
    ASSUME IInv, Flow(exec, rows, asks, api), NEW w \in Workers, NEW n \in Nodes,
           NEW s \in NodeStatus, NEW p, Checkpoint(w, n, s, p)
    PROVE  Checkpointed(exec[w], exec'[w], exec[w].run, n, s, p, rows[exec[w].run][n],
                        rows'[exec[w].run][n], w)
<1>a. PICK e : e = exec[w]
  OBVIOUS
<1>b. PICK f : f = exec'[w]
  OBVIOUS
<1>c. PICK r : r = e.run
  OBVIOUS
<1>d. PICK old : old = rows[r][n]
  OBVIOUS
<1>e. PICK u : u = rows'[r][n]
  OBVIOUS
<1>t. exec \in [Workers -> Job]
  BY Typed
<1>0. e.pc = "wave" /\ e.at[n] \in Underway /\ r \in Runs
  BY <1>a, <1>c, Typed DEF Checkpoint
<1>1. f.at[n] = p /\ f.base[n] = e.base[n] /\ f.tries[n] = e.tries[n]
  <2>1. exec' = [exec EXCEPT ![w].at[n] = p]
    BY DEF Checkpoint
  <2>2. QED
    BY <1>t, <1>a, <1>b, <2>1 DEF Job
<1>2. PICK i \in Held(w, n) : rows' = [rows EXCEPT ![r][n][i] = Row(s, NoWorker)]
  BY <1>a, <1>c DEF Checkpoint
<1>3. i \in DOMAIN old /\ old[i].by = w
  BY <1>a, <1>c, <1>d DEF Held
<1>4. /\ \A q \in Runs \ {r} : rows'[q] = rows[q]
      /\ \A m \in Nodes \ {n} : rows'[r][m] = rows[r][m]
      /\ u = [old EXCEPT ![i] = Row(s, NoWorker)]
  <2>1. rows = [q \in Runs |-> [m \in Nodes |-> rows[q][m]]]
    BY DEF IInv, TypeOK, StateTypeOK
  <2>2. QED
    BY <1>0, <1>2, <1>d, <1>e, <2>1
<1>5. DOMAIN u = DOMAIN old /\ u[i] = Row(s, NoWorker) /\ \A a \in DOMAIN old \ {i} : u[a] = old[a]
  BY <1>3, <1>4
<1>6. GoodTable(old)
  BY <1>0, <1>d, Typed
<1>7. GoodTable(u)
  <2>1. Row(s, NoWorker) \in RowTable
    BY DEF Row, RowTable
  <2>2. QED
    BY <1>3, <1>4, <1>6, <2>1, CheckpointTyped
<1>8. w # NoWorker
  BY RunAssumption
<1>9. \A a \in DOMAIN old : old[a].by # NoWorker => HeldAt(exec[old[a].by], r, n, a, old[a])
  BY <1>0, <1>d DEF Flow, Holds
<1>10. HeldAt(e, r, n, i, old[i])
  BY <1>3, <1>8, <1>9, <1>a
<1>11. NumberedAt(e, old, n)
  BY <1>0, <1>a, <1>c, <1>d DEF Flow, View
<1>12. e.base[n] \in Nat /\ e.tries[n] \in Nat /\ DOMAIN old \subseteq Nat
  BY <1>6, <1>a, Typed DEF GoodTable, IsTable
<1>13. e.base[n] >= 1 /\ \A a \in DOMAIN old : a < e.base[n] + e.tries[n]
  BY <1>0, <1>11 DEF NumberedAt
<1>14. \A a \in DOMAIN old : a <= i
  BY <1>3, <1>10, <1>12, <1>13 DEF HeldAt
<1>15. /\ StatusOf(u) = u[i].status /\ StatusOf(old) = old[i].status
       /\ LastSuccess(old) /\ old[i].status # "succeeded" => LastSuccess(u)
  BY <1>3, <1>5, <1>6, <1>7, <1>14, RewrittenRow
<1>16. old[i].status \in {"running", "failed", "skipped"}
  BY <1>10 DEF HeldAt
<1>17. ASSUME NEW a \in DOMAIN u, u[a].by # NoWorker
       PROVE  a \in DOMAIN old /\ u[a] = old[a] /\ u[a].by # w
  <2>1. a # i
    BY <1>5, <1>17 DEF Row
  <2>2. a \in DOMAIN old /\ u[a] = old[a]
    BY <1>5, <2>1
  <2>3. old[a].by = w => HeldAt(e, r, n, a, old[a])
    BY <1>8, <1>9, <1>a, <2>2
  <2>4. old[a].by # w
    BY <1>3, <1>10, <1>12, <2>1, <2>2, <2>3 DEF HeldAt
  <2>5. QED
    BY <2>2, <2>4
<1>18. /\ StatusOf(u) = s /\ StatusOf(old) \in {"running", "failed", "skipped"}
       /\ LastSuccess(old) => LastSuccess(u)
  BY <1>5, <1>15, <1>16 DEF Row
<1>19. \A a \in DOMAIN u : a < e.base[n] + e.tries[n]
  BY <1>5, <1>13
<1>20. Checkpointed(e, f, r, n, s, p, old, u, w)
  BY <1>0, <1>1, <1>4, <1>13, <1>17, <1>18, <1>19, SMTT(30) DEF Checkpointed
<1>21. QED
  BY <1>a, <1>b, <1>c, <1>d, <1>e, <1>20

\* A checkpoint keeps the flow: its result says what its row says, and it asks
\* only with the proposal.
LEMMA CheckpointFlows ==
    ASSUME IInv, IInv', Flow(exec, rows, asks, api), OneExecutor,
           NEW w \in Workers, Alone(w), NEW n \in Nodes, NodeStep(w, n),
           NEW s \in NodeStatus, NEW p \in {"ok", "halted", "failed", "backoff"},
           Checkpoint(w, n, s, p), p = "ok" <=> s = "succeeded",
           NEW r, r = exec[w].run,
           \A q \in Runs \ {r} : asks'[q] = asks[q],
           \A m \in Nodes \ {n} : asks'[r][m] = asks[r][m],
           \A h \in Handlers : Served(api'[h], asks'),
           \/ asks'[r][n] = asks[r][n]
           \/ /\ Kind[n] = "gate" /\ s = "awaiting_approval" /\ p = "halted"
              /\ ~Approved(asks'[r][n])
    PROVE  Flow(exec', rows', asks', api')
<1>1. PICK e : e = exec[w]
  OBVIOUS
<1>2. PICK f : f = exec'[w]
  OBVIOUS
<1>3. PICK old : old = rows[r][n]
  OBVIOUS
<1>4. PICK u : u = rows'[r][n]
  OBVIOUS
<1>5. PICK q : q = asks'[r][n]
  OBVIOUS
<1>k. Checkpointed(e, f, r, n, s, p, old, u, w)
  BY <1>1, <1>2, <1>3, <1>4, CheckpointRow
<1>6. /\ r \in Runs /\ f.at[n] = p
      /\ f.base[n] = e.base[n] /\ f.tries[n] = e.tries[n]
      /\ e.base[n] >= 1 /\ \A a \in DOMAIN u : a < e.base[n] + e.tries[n]
      /\ \A x \in Runs \ {r} : rows'[x] = rows[x]
      /\ \A m \in Nodes \ {n} : rows'[r][m] = rows[r][m]
      /\ StatusOf(u) = s /\ StatusOf(old) \in {"running", "failed", "skipped"}
      /\ LastSuccess(old) => LastSuccess(u)
      /\ \A a \in DOMAIN u : u[a].by # NoWorker =>
            a \in DOMAIN old /\ u[a] = old[a] /\ u[a].by # w
  BY <1>k DEF Checkpointed
<1>7. AtOne(e, f, n) /\ Elsewhere(e, f, n)
  BY <1>1, <1>2, NodeMoves, NodeStepElsewhere
<1>8. TouchesOnly(r, n)
  BY <1>6 DEF TouchesOnly
<1>9. SoundAt(rows[r], asks[r], n)
  BY <1>6 DEF Flow, SoundRuns
<1>10. ~Succeeded(old) /\ StatusOf(old) # "awaiting_approval"
  BY <1>6 DEF Succeeded
<1>11. ~Open(asks[r][n]) /\ ~Approved(asks[r][n])
  BY <1>3, <1>9, <1>10 DEF SoundAt
<1>12. Open(q) => StatusOf(u) = "awaiting_approval" /\ f.at[n] = "halted"
  BY <1>5, <1>6, <1>11
<1>13. q # <<>> => Kind[n] = "gate"
  BY <1>5, <1>9 DEF SoundAt
<1>14. Firm(n) => LastSuccess(u)
  BY <1>3, <1>6, <1>9 DEF SoundAt
<1>15. Approved(q) => Succeeded(u)
  BY <1>5, <1>11
<1>16. /\ f.at[n] = "ok" => Succeeded(u)
       /\ Firm(n) /\ Succeeded(u) => f.at[n] = "ok"
  BY <1>6 DEF Succeeded
<1>17. NumberedAt(f, u, n)
  <2>1. DOMAIN u \subseteq Nat
    BY <1>4, <1>6 DEF IInv, TypeOK, StateTypeOK, IsTable
  <2>2. e.base[n] \in Nat /\ e.tries[n] \in Nat
    BY <1>1, Typed
  <2>3. QED
    BY <1>6, <2>1, <2>2, SMTT(30) DEF NumberedAt, Underway
<1>18. ASSUME NEW a \in DOMAIN u, u[a].by # NoWorker
       PROVE  HeldAt(exec'[u[a].by], r, n, a, u[a])
  <2>1. PICK v : v = u[a].by
    OBVIOUS
  <2>2. a \in DOMAIN old /\ u[a] = old[a] /\ v # w
    BY <1>6, <1>18, <2>1
  <2>3. HeldAt(exec[v], r, n, a, u[a])
    BY <1>3, <1>6, <1>18, <2>1, <2>2 DEF Flow, Holds
  <2>4. v \in Workers
    <3>1. GoodTable(old)
      BY <1>3, <1>6, Typed
    <3>2. QED
      BY <1>18, <2>1, <2>2, <3>1 DEF GoodTable, IsTable, RowTable
  <2>5. exec'[v] = exec[v]
    BY <2>2, <2>4 DEF Alone
  <2>6. QED
    BY <2>1, <2>3, <2>5
<1>19. r = e.run
  BY <1>1
<1>20. QED
  BY <1>1, <1>2, <1>4, <1>5, <1>7, <1>8, <1>12, <1>13, <1>14, <1>15, <1>16, <1>17, <1>18, <1>19,
     RowStep

\* What a worker knows that starts an attempt: the node asks nothing and has not
\* succeeded, and the row becomes the newest.
Started(e, f, r, n, old, u, a, w) ==
    /\ e.at[n] \notin Underway /\ r \in Runs /\ GoodTable(old) /\ a \in Nat
    /\ f.at[n] = "running" /\ f.base[n] = e.base[n] /\ f.tries[n] = e.tries[n] + 1
    /\ f.run = r /\ f.pc = "wave"
    /\ TouchesOnly(r, n) /\ asks' = asks
    /\ ~Open(asks[r][n]) /\ ~Approved(asks[r][n]) /\ (Firm(n) => ~Succeeded(old))
    /\ e.base[n] >= 1 /\ \A b \in DOMAIN old : b <= a
    /\ DOMAIN u = DOMAIN old \cup {a} /\ StatusOf(u) = "running"
    /\ \A b \in DOMAIN old : u[b] = old[b]
    /\ u[a].by = w /\ u[a].status = "running"

\* Every attempt that is started is one of these.
LEMMA StartKnows ==
    ASSUME IInv, Flow(exec, rows, asks, api), NEW w \in Workers, NEW n \in Nodes, StartNode(w, n)
    PROVE  Started(exec[w], exec'[w], exec[w].run, n, rows[exec[w].run][n],
                   rows'[exec[w].run][n], Attempt(w, n), w)
<1>1. PICK e : e = exec[w]
  OBVIOUS
<1>2. PICK f : f = exec'[w]
  OBVIOUS
<1>3. PICK r : r = e.run
  OBVIOUS
<1>4. PICK old : old = rows[r][n]
  OBVIOUS
<1>5. PICK u : u = rows'[r][n]
  OBVIOUS
<1>0. PICK a : a = Attempt(w, n)
  OBVIOUS
<1>t. exec \in [Workers -> Job]
  BY Typed
<1>6. a = e.base[n] + e.tries[n]
  BY <1>0, <1>1 DEF Attempt
<1>7. /\ e.pc = "wave" /\ e.at[n] \in {"numbered", "backoff"} /\ a \notin DOMAIN old
      /\ rows' = [rows EXCEPT ![r][n] = WithRow(old, a, Row("running", w))] /\ asks' = asks
  BY <1>0, <1>1, <1>3, <1>4 DEF StartNode
<1>8. f.at[n] = "running" /\ f.base[n] = e.base[n] /\ f.tries[n] = e.tries[n] + 1
      /\ f.run = r /\ f.pc = "wave"
  BY <1>t, <1>1, <1>2, <1>3, <1>7 DEF StartNode, Job
<1>9. r \in Runs /\ GoodTable(old) /\ e.base[n] \in Nat /\ e.tries[n] \in Nat
  BY <1>1, <1>3, <1>4, <1>7, Typed
<1>10. /\ \A q \in Runs \ {r} : rows'[q] = rows[q]
       /\ \A m \in Nodes \ {n} : rows'[r][m] = rows[r][m]
       /\ u = WithRow(old, a, Row("running", w))
  <2>1. rows = [q \in Runs |-> [m \in Nodes |-> rows[q][m]]]
    BY DEF IInv, TypeOK, StateTypeOK
  <2>2. QED
    BY <1>5, <1>7, <1>9, <2>1
<1>11. View(e, rows, asks) /\ SoundAt(rows[r], asks[r], n)
  BY <1>1, <1>9 DEF Flow, SoundRuns
<1>12. n \notin e.outputs \cup e.halted
  <2>1. InOrder(e) /\ InWaves(e) /\ e.at[n] # "none"
    BY <1>7, <1>11 DEF View, InWaves
  <2>2. QED
    BY <2>1, InputsReady
<1>13. PassAt(e, rows[r], asks[r], n) /\ NumberedAt(e, old, n)
  BY <1>3, <1>4, <1>7, <1>11 DEF View, InWaves
<1>14. ~Open(asks[r][n]) /\ (Firm(n) => ~Succeeded(old))
  BY <1>4, <1>7, <1>12, <1>13 DEF PassAt
<1>15. ~Approved(asks[r][n])
  BY <1>4, <1>11, <1>14 DEF SoundAt, Firm, Approved
<1>16. e.base[n] >= 1 /\ \A b \in DOMAIN old : b <= a
  BY <1>6, <1>7, <1>13 DEF NumberedAt
<1>17. /\ DOMAIN u = DOMAIN old \cup {a} /\ StatusOf(u) = "running"
       /\ \A b \in DOMAIN old : u[b] = old[b]
       /\ u[a].by = w /\ u[a].status = "running"
  <2>1. a \in Nat
    BY <1>6, <1>9
  <2>2. GoodTable(u)
    <3>1. Row("running", w) \in RowTable
      BY DEF Row, RowTable, NodeStatus
    <3>2. QED
      BY <1>9, <1>10, <2>1, <3>1, NewRowTyped
  <2>3. /\ DOMAIN u = DOMAIN old \cup {a} /\ u[a] = [status |-> "running", by |-> w]
        /\ \A b \in DOMAIN old : u[b] = old[b]
    BY <1>7, <1>10 DEF WithRow, Row
  <2>4. a \in DOMAIN u /\ \A b \in DOMAIN u : b <= a
    BY <1>16, <2>1, <2>3
  <2>5. StatusOf(u) = u[a].status
    BY <2>2, <2>4, GreatestIsNewest
  <2>6. QED
    BY <2>3, <2>5
<1>18. e.at[n] \notin Underway /\ a \in Nat /\ TouchesOnly(r, n)
  BY <1>6, <1>7, <1>9, <1>10 DEF TouchesOnly, Underway
<1>19. Started(e, f, r, n, old, u, a, w)
  BY <1>7, <1>8, <1>9, <1>14, <1>15, <1>16, <1>17, <1>18 DEF Started
<1>20. QED
  BY <1>0, <1>1, <1>2, <1>3, <1>4, <1>5, <1>19

\* The row of a new attempt keeps the flow.
LEMMA StartFlows ==
    ASSUME IInv, IInv', Flow(exec, rows, asks, api), OneExecutor,
           NEW w \in Workers, Alone(w), NEW n \in Nodes, StartNode(w, n),
           \A h \in Handlers : Served(api'[h], asks')
    PROVE  Flow(exec', rows', asks', api')
<1>1. PICK e : e = exec[w]
  OBVIOUS
<1>2. PICK f : f = exec'[w]
  OBVIOUS
<1>3. PICK r : r = e.run
  OBVIOUS
<1>4. PICK old : old = rows[r][n]
  OBVIOUS
<1>5. PICK u : u = rows'[r][n]
  OBVIOUS
<1>6. PICK a : a = Attempt(w, n)
  OBVIOUS
<1>a. a = e.base[n] + e.tries[n]
  BY <1>1, <1>6 DEF Attempt
<1>k. Started(e, f, r, n, old, u, a, w)
  BY <1>1, <1>2, <1>3, <1>4, <1>5, <1>6, StartKnows
<1>7. /\ e.at[n] \notin Underway /\ r \in Runs /\ GoodTable(old) /\ a \in Nat
      /\ f.at[n] = "running" /\ f.base[n] = e.base[n] /\ f.tries[n] = e.tries[n] + 1
      /\ f.run = r /\ f.pc = "wave"
      /\ TouchesOnly(r, n) /\ asks' = asks
      /\ ~Open(asks[r][n]) /\ ~Approved(asks[r][n]) /\ (Firm(n) => ~Succeeded(old))
      /\ e.base[n] >= 1 /\ \A b \in DOMAIN old : b <= a
      /\ DOMAIN u = DOMAIN old \cup {a} /\ StatusOf(u) = "running"
      /\ \A b \in DOMAIN old : u[b] = old[b]
      /\ u[a].by = w /\ u[a].status = "running"
  BY <1>k DEF Started
<1>8. SoundAt(rows[r], asks[r], n) /\ e.base[n] \in Nat /\ e.tries[n] \in Nat
  BY <1>1, <1>7, Typed DEF Flow, SoundRuns
<1>9. Firm(n) => LastSuccess(u)
  <2> SUFFICES ASSUME Firm(n), NEW b \in DOMAIN u, u[b].status = "succeeded"
               PROVE  FALSE
    BY DEF LastSuccess
  <2>1. b \in DOMAIN old /\ old[b].status = "succeeded"
    BY <1>7
  <2>2. \A c \in DOMAIN old : c <= b
    BY <1>4, <1>8, <2>1 DEF SoundAt, LastSuccess
  <2>3. QED
    BY <1>7, <2>1, <2>2, GreatestIsNewest DEF Succeeded
<1>10. NumberedAt(f, u, n)
  BY <1>a, <1>7, <1>8 DEF NumberedAt, GoodTable, IsTable, Underway
<1>11. ASSUME NEW b \in DOMAIN u, u[b].by # NoWorker
       PROVE  HeldAt(exec'[u[b].by], r, n, b, u[b])
  <2>1. CASE b = a
    <3>1. HeldAt(f, r, n, a, u[a])
      BY <1>a, <1>7, <1>8 DEF HeldAt, Underway
    <3>2. QED
      BY <1>2, <1>7, <2>1, <3>1
  <2>2. CASE b # a
    <3>1. PICK v : v = u[b].by
      OBVIOUS
    <3>2. b \in DOMAIN old /\ u[b] = old[b] /\ v # NoWorker
      BY <1>7, <1>11, <2>2, <3>1
    <3>3. HeldAt(exec[v], r, n, b, u[b])
      BY <1>4, <1>7, <3>1, <3>2 DEF Flow, Holds
    <3>4. v \in Workers
      BY <1>7, <3>1, <3>2 DEF GoodTable, IsTable, RowTable
    <3>5. v # w
      BY <1>1, <1>7, <3>3 DEF HeldAt
    <3>6. exec'[v] = exec[v]
      BY <3>4, <3>5 DEF Alone
    <3>7. QED
      BY <3>1, <3>3, <3>6
  <2>3. QED
    BY <2>1, <2>2
<1>12. AtOne(e, f, n) /\ Elsewhere(e, f, n)
  BY <1>1, <1>2, NodeMoves, NodeStepElsewhere DEF NodeStep
<1>13. PICK p : p = asks'[r][n]
  OBVIOUS
<1>14. /\ Open(p) => StatusOf(u) = "awaiting_approval" /\ f.at[n] = "halted"
       /\ p # <<>> => Kind[n] = "gate"
       /\ Approved(p) => Succeeded(u)
       /\ f.at[n] = "ok" => Succeeded(u)
       /\ Firm(n) /\ Succeeded(u) => f.at[n] = "ok"
  BY <1>7, <1>8, <1>13 DEF SoundAt, Succeeded
<1>15. TouchesOnly(r, n)
  BY <1>7
<1>16. QED
  BY <1>1, <1>2, <1>3, <1>5, <1>9, <1>10, <1>11, <1>12, <1>13, <1>14, <1>15, RowStep

\* Every write of a worker to one node keeps the flow.
LEMMA WriteFlows ==
    ASSUME IInv, IInv', AskTypes, Flow(exec, rows, asks, api), OneExecutor,
           NEW w \in Workers, Alone(w), NEW n \in Nodes, WritesRow(w, n),
           \A h \in Handlers : Served(api'[h], asks')
    PROVE  Flow(exec', rows', asks', api')
<1>0. NodeStep(w, n)
  BY DEF WritesRow, NodeStep
<1>1. PICK r : r = exec[w].run
  OBVIOUS
<1>2. ASSUME NEW s \in {"succeeded", "failed", "awaiting_human_task"},
             NEW p \in {"ok", "halted", "failed", "backoff"},
             Checkpoint(w, n, s, p), p = "ok" <=> s = "succeeded", asks' = asks
      PROVE  Flow(exec', rows', asks', api')
  <2>1. s \in NodeStatus
    BY DEF NodeStatus
  <2>2. /\ \A q \in Runs \ {r} : asks'[q] = asks[q]
        /\ \A m \in Nodes \ {n} : asks'[r][m] = asks[r][m]
        /\ asks'[r][n] = asks[r][n]
    BY <1>2
  <2>3. QED
    BY <1>0, <1>1, <1>2, <2>1, <2>2, CheckpointFlows
<1>3. CASE StartNode(w, n)
  BY <1>3, StartFlows
<1>4. CASE NodeSucceeds(w, n)
  BY <1>2, <1>4 DEF NodeSucceeds
<1>5. CASE NodeFails(w, n)
  BY <1>2, <1>5 DEF NodeFails
<1>6. CASE OpenTask(w, n)
  BY <1>2, <1>6 DEF OpenTask
<1>7. CASE OpenGate(w, n)
  <2>s. PICK s : s = "awaiting_approval"
    OBVIOUS
  <2>p. PICK p : p = "halted"
    OBVIOUS
  <2>1. /\ Kind[n] = "gate" /\ Checkpoint(w, n, "awaiting_approval", "halted")
        /\ \/ asks' = asks
           \/ asks' = [asks EXCEPT ![r][n] = Append(asks[r][n], "pending")]
    BY <1>1, <1>7 DEF OpenGate
  <2>2. r \in Runs
    <3>1. exec[w].pc = "wave"
      BY <2>1 DEF Checkpoint
    <3>2. QED
      BY <1>1, <3>1, Typed
  <2>3. /\ \A q \in Runs \ {r} : asks'[q] = asks[q]
        /\ \A m \in Nodes \ {n} : asks'[r][m] = asks[r][m]
        /\ asks'[r][n] = asks[r][n] \/ asks'[r][n] = Append(asks[r][n], "pending")
    BY <2>1, <2>2 DEF AskTypes
  <2>4. ~Approved(Append(asks[r][n], "pending"))
    <3>1. asks[r][n] \in Seq(AskStatus)
      BY <2>2 DEF AskTypes
    <3>2. Last(Append(asks[r][n], "pending")) = "pending"
      BY <3>1 DEF Last
    <3>3. QED
      BY <3>2 DEF Approved
  <2>5. \/ asks'[r][n] = asks[r][n]
        \/ /\ Kind[n] = "gate" /\ s = "awaiting_approval" /\ p = "halted"
           /\ ~Approved(asks'[r][n])
    BY <2>1, <2>3, <2>4, <2>s, <2>p
  <2>6. s \in NodeStatus /\ p \in {"ok", "halted", "failed", "backoff"}
        /\ (p = "ok" <=> s = "succeeded") /\ Checkpoint(w, n, s, p)
    BY <2>1, <2>s, <2>p DEF NodeStatus
  <2>7. /\ \A q \in Runs \ {r} : asks'[q] = asks[q]
        /\ \A m \in Nodes \ {n} : asks'[r][m] = asks[r][m]
    BY <2>3
  <2>8. QED
    BY <1>0, <1>1, <2>5, <2>6, <2>7, CheckpointFlows
<1>8. QED
  BY <1>3, <1>4, <1>5, <1>6, <1>7 DEF WritesRow

\* What a verdict does: it answers the newest question, the one that is open, and
\* the row of the gate, its proposal, gets status s.
Answering(r, n, i, verdict, s) ==
    /\ r \in Runs /\ n \in Gates
    /\ s = IF verdict = "approved" THEN "succeeded" ELSE "failed"
    /\ Open(asks[r][n]) /\ i = Len(asks[r][n]) /\ i \in 1 .. Len(asks[r][n])
    /\ asks'[r][n] = [asks[r][n] EXCEPT ![i] = verdict]
    /\ ~Open(asks'[r][n]) /\ Len(asks'[r][n]) = Len(asks[r][n])
    /\ StatusOf(rows[r][n]) = "awaiting_approval"
    /\ TouchesOnly(r, n) /\ rows'[r][n] = SetLast(rows[r][n], s)

\* Every decision is one of these.
LEMMA DecideKnows ==
    ASSUME IInv, AskTypes, OneOpenQuestion, Flow(exec, rows, asks, api),
           NEW h \in Handlers, NEW verdict \in {"approved", "rejected"}, Decide(h, verdict)
    PROVE  Answering(api[h].run, api[h].node, api[h].ask, verdict,
                     IF verdict = "approved" THEN "succeeded" ELSE "failed")
<1>1. PICK r : r = api[h].run
  OBVIOUS
<1>2. PICK n : n = api[h].node
  OBVIOUS
<1>3. PICK i : i = api[h].ask
  OBVIOUS
<1>4. PICK s : s = IF verdict = "approved" THEN "succeeded" ELSE "failed"
  OBVIOUS
<1>5. /\ api[h].pc = "decide" /\ asks[r][n][i] = "pending"
      /\ asks' = [asks EXCEPT ![r][n][i] = verdict]
      /\ rows' = [rows EXCEPT ![r][n] = SetLast(rows[r][n], s)]
  BY <1>1, <1>2, <1>3, <1>4 DEF Decide
<1>6. r \in Runs /\ n \in Nodes /\ i \in 1 .. Len(asks[r][n])
  BY <1>1, <1>2, <1>3, <1>5 DEF Flow, Served
<1>7. PICK q : q = asks[r][n]
  OBVIOUS
<1>8. PICK p : p = asks'[r][n]
  OBVIOUS
<1>9. q \in Seq(AskStatus) /\ Len(q) \in Nat /\ DOMAIN q = 1 .. Len(q)
  BY <1>6, <1>7 DEF AskTypes
<1>10. Open(q) /\ q # <<>>
  BY <1>5, <1>6, <1>7, <1>9 DEF Open
<1>11. i = Len(q) /\ \A j \in 1 .. Len(q) : q[j] = "pending" => j = i
  BY <1>5, <1>6, <1>7, <1>9 DEF OneOpenQuestion
<1>12. p = [q EXCEPT ![i] = verdict]
  BY <1>5, <1>6, <1>7, <1>8, Zenon DEF AskTypes
<1>13. Len(p) = Len(q) /\ \A j \in 1 .. Len(q) : p[j] = IF j = i THEN verdict ELSE q[j]
  BY <1>9, <1>12
<1>14. ~Open(p)
  BY <1>9, <1>11, <1>13, Zenon DEF Open
<1>16. SoundAt(rows[r], asks[r], n)
  BY <1>6 DEF Flow, SoundRuns
<1>17. StatusOf(rows[r][n]) = "awaiting_approval" /\ n \in Gates
  BY <1>6, <1>7, <1>10, <1>16 DEF SoundAt, Gates
<1>18. TouchesOnly(r, n) /\ rows'[r][n] = SetLast(rows[r][n], s)
  <2>1. rows = [x \in Runs |-> [m \in Nodes |-> rows[x][m]]]
    BY DEF IInv, TypeOK, StateTypeOK
  <2>2. /\ \A x \in Runs \ {r} : asks'[x] = asks[x]
        /\ \A m \in Nodes \ {n} : asks'[r][m] = asks[r][m]
    BY <1>5, <1>6 DEF AskTypes
  <2>3. /\ \A x \in Runs \ {r} : rows'[x] = rows[x]
        /\ \A m \in Nodes \ {n} : rows'[r][m] = rows[r][m]
        /\ rows'[r][n] = SetLast(rows[r][n], s)
    BY <1>5, <1>6, <2>1
  <2>4. QED
    BY <2>2, <2>3 DEF TouchesOnly
<1>19. Answering(r, n, i, verdict, s)
  BY <1>4, <1>6, <1>7, <1>8, <1>10, <1>11, <1>12, <1>13, <1>14, <1>17, <1>18 DEF Answering
<1>20. QED
  BY <1>1, <1>2, <1>3, <1>4, <1>19

\* A verdict keeps the flow: the node of the question follows it.
LEMMA DecideFlows ==
    ASSUME IInv, IInv', AskTypes, OneOpenQuestion, Flow(exec, rows, asks, api), exec' = exec,
           NEW h \in Handlers, NEW verdict \in {"approved", "rejected"}, Decide(h, verdict),
           \A g \in Handlers : Served(api'[g], asks')
    PROVE  Flow(exec', rows', asks', api')
<1>1. PICK r, n, i, s : Answering(r, n, i, verdict, s)
  BY DecideKnows
<1>2. /\ r \in Runs /\ n \in Nodes /\ Kind[n] = "gate" /\ s \in {"succeeded", "failed"}
      /\ s = IF verdict = "approved" THEN "succeeded" ELSE "failed"
      /\ StatusOf(rows[r][n]) \in {"awaiting_approval", "awaiting_human_task"}
      /\ rows'[r][n] = SetLast(rows[r][n], s)
  BY <1>1 DEF Answering, Gates
<1>3. TouchesOnly(r, n)
  BY <1>1 DEF Answering
<1>4. PICK p : p = asks'[r][n]
  OBVIOUS
<1>5. Approved(p) => s = "succeeded"
  <2>1. asks[r][n] \in Seq(AskStatus)
    BY <1>2 DEF AskTypes
  <2>2. Len(p) = i /\ p[i] = verdict
    BY <1>1, <1>4, <2>1 DEF Answering
  <2>3. QED
    BY <1>2, <2>2 DEF Approved, Last
<1>6. ~Open(p) /\ (Firm(n) => Open(asks[r][n]))
  BY <1>1, <1>4 DEF Answering
<1>7. p # <<>> => Kind[n] = "gate"
  BY <1>2
<1>8. QED
  BY <1>2, <1>3, <1>4, <1>5, <1>6, <1>7, AnswerStep

\* What a clearance does that changes a row.
Clearing(r, n) ==
    /\ r \in Runs /\ n \in Nodes /\ Kind[n] = "clear" /\ "task" \in Requests
    /\ StatusOf(rows[r][n]) = "awaiting_human_task" /\ asks' = asks
    /\ TouchesOnly(r, n) /\ rows'[r][n] = SetLast(rows[r][n], "succeeded")

\* Every other clearance changes no row.
LEMMA ClearKnows ==
    ASSUME IInv, Flow(exec, rows, asks, api), NEW h \in Handlers, Clear(h), ~TidyRows
    PROVE  Clearing(api[h].run, api[h].node)
<1>1. PICK r : r = api[h].run
  OBVIOUS
<1>2. PICK n : n = api[h].node
  OBVIOUS
<1>3. PICK s : s = "succeeded"
  OBVIOUS
<1>4. rows' # rows
  BY SameTidies
<1>5. /\ api[h].pc = "clear" /\ Latest(r, n) = "awaiting_human_task" /\ asks' = asks
      /\ rows' = [rows EXCEPT ![r][n] = SetLast(rows[r][n], s)]
  BY <1>1, <1>2, <1>3, <1>4 DEF Clear
<1>6. r \in Runs /\ n \in Nodes /\ Kind[n] = "clear" /\ "task" \in Requests
  BY <1>1, <1>2, <1>5 DEF Flow, Served
<1>7. StatusOf(rows[r][n]) = "awaiting_human_task"
  BY <1>5 DEF Latest, StatusOf
<1>8. TouchesOnly(r, n) /\ rows'[r][n] = SetLast(rows[r][n], s)
  <2>1. rows = [x \in Runs |-> [m \in Nodes |-> rows[x][m]]]
    BY DEF IInv, TypeOK, StateTypeOK
  <2>2. /\ \A x \in Runs \ {r} : rows'[x] = rows[x]
        /\ \A m \in Nodes \ {n} : rows'[r][m] = rows[r][m]
        /\ rows'[r][n] = SetLast(rows[r][n], s)
    BY <1>5, <1>6, <2>1
  <2>3. QED
    BY <1>5, <2>2 DEF TouchesOnly
<1>9. Clearing(r, n)
  BY <1>3, <1>5, <1>6, <1>7, <1>8 DEF Clearing
<1>10. QED
  BY <1>1, <1>2, <1>9

\* A clearance keeps the flow: the node waited for it, and is one that is cleared.
LEMMA ClearFlows ==
    ASSUME IInv, IInv', Flow(exec, rows, asks, api), exec' = exec,
           NEW h \in Handlers, Clear(h), ~TidyRows,
           \A g \in Handlers : Served(api'[g], asks')
    PROVE  Flow(exec', rows', asks', api')
<1>1. PICK r, n : Clearing(r, n)
  BY ClearKnows
<1>2. PICK s : s = "succeeded"
  OBVIOUS
<1>3. /\ r \in Runs /\ n \in Nodes /\ ~Firm(n) /\ asks' = asks
      /\ rows'[r][n] = SetLast(rows[r][n], s)
      /\ StatusOf(rows[r][n]) \in {"awaiting_approval", "awaiting_human_task"}
  BY <1>1, <1>2 DEF Clearing, Firm
<1>4. TouchesOnly(r, n)
  BY <1>1 DEF Clearing
<1>5. PICK p : p = asks'[r][n]
  OBVIOUS
<1>6. ~Open(p) /\ p = <<>>
  <2>1. SoundAt(rows[r], asks[r], n)
    BY <1>3 DEF Flow, SoundRuns
  <2>2. QED
    BY <1>1, <1>3, <1>5, <2>1 DEF SoundAt, Clearing
<1>7. s \in {"succeeded", "failed"} /\ (Approved(p) => s = "succeeded")
  BY <1>2
<1>8. (p # <<>> => Kind[n] = "gate") /\ (Firm(n) => Open(asks[r][n]))
  BY <1>3, <1>6
<1>9. QED
  BY <1>3, <1>4, <1>5, <1>6, <1>7, <1>8, AnswerStep

\* A request that is about to decide or to clear was let in for it, and the list
\* of questions only grows.
LEMMA ServedKept ==
    ASSUME IInv, AskTypes, \A h \in Handlers : Served(api[h], asks), [Next]_vars,
           NEW h \in Handlers
    PROVE  Served(api'[h], asks')
<1>t. api \in [Handlers -> Handler]
  BY Typed
<1>1. ASSUME NEW r \in Runs, NEW n \in Nodes, NEW i \in 1 .. Len(asks[r][n])
      PROVE  i \in 1 .. Len(asks'[r][n])
  <2>1. AskTypes' /\ OneGateStep(asks[r][n], asks'[r][n])
    BY EveryStepAsks, GateSteps
  <2>2. Len(asks[r][n]) \in Nat /\ Len(asks'[r][n]) \in Nat
    BY <2>1 DEF AskTypes, OneGateStep
  <2>3. QED
    BY <2>1, <2>2 DEF OneGateStep, Grows
<1>2. CASE api'[h] = api[h]
  BY <1>1, <1>2 DEF Served
<1>3. CASE api'[h].pc \notin {"decide", "clear"}
  BY <1>3 DEF Served
<1>4. ASSUME NEW r \in Runs, NEW n \in Nodes, DecideLoad(h, r, n) PROVE Served(api'[h], asks')
  <2>1. api'[h] = [pc |-> "decide", run |-> r, seen |-> status[r], node |-> n, ask |-> Len(asks[r][n])]
    BY <1>t, <1>4 DEF DecideLoad
  <2>2. Len(asks[r][n]) \in 1 .. Len(asks[r][n])
    <3>1. PICK i \in 1 .. Len(asks[r][n]) : TRUE
      BY <1>4 DEF DecideLoad, Pending
    <3>2. Len(asks[r][n]) \in Nat
      BY DEF AskTypes
    <3>3. QED
      BY <3>1, <3>2
  <2>3. asks' = asks
    BY <1>4 DEF DecideLoad
  <2>4. QED
    BY <2>1, <2>2, <2>3 DEF Served
<1>5. ASSUME NEW r \in Runs, NEW n \in Nodes, ClearLoad(h, r, n), "task" \in Requests
      PROVE  Served(api'[h], asks')
  <2>1. api'[h] = [pc |-> "clear", run |-> r, seen |-> status[r], node |-> n, ask |-> 0]
    BY <1>t, <1>5 DEF ClearLoad
  <2>2. QED
    BY <1>5, <2>1 DEF Served, ClearLoad
<1>6. ASSUME NEW g \in Handlers,
             \/ ControlStep(g) \/ DecisionStep(g) \/ ControlRequest(g) \/ DecisionRequest(g)
             \/ ApiCrash(g)
      PROVE  Served(api'[h], asks')
  <2>1. CASE g # h
    BY <1>2, <1>6, <2>1, RequestsMoveAlone DEF Apart
  <2>2. CASE g = h
    <3> USE <1>t DEF To, Done, Free, Handler
    <3>1. CASE ControlStep(h)
      <4>1. api'[h].pc \notin {"decide", "clear"}
        BY <3>1 DEF ControlStep, LaunchCommit, LaunchCommitFails, LaunchEnqueue, LaunchFails,
           CancelFlag, CancelFinish, CancelSkip, CloseQuestions, ReleaseLock, RetryLock,
           RetryReset, RetryClear, Requeue, Enqueue, EnqueueFails
      <4>2. QED
        BY <1>3, <4>1
    <3>2. CASE DecisionStep(h)
      <4>1. api'[h].pc \notin {"decide", "clear"}
        <5>1. CASE \E verdict \in {"approved", "rejected"} : Decide(h, verdict)
          <6>1. To(h, "resume_lock") \/ To(h, "reject_skip") \/ Done(h)
            BY <5>1 DEF Decide
          <6>2. QED
            BY <6>1
        <5>2. CASE Clear(h)
          <6>1. To(h, "resume_lock") \/ Done(h)
            BY <5>2 DEF Clear
          <6>2. QED
            BY <6>1
        <5>3. CASE DecideConflict(h) \/ ResumeLock(h) \/ RejectSkip(h) \/ RejectFinish(h)
          <6>1. \E pc \in {"requeue", "reject_finish", "expire"} : To(h, pc) \/ Done(h)
            BY <5>3, Zenon DEF DecideConflict, ResumeLock, RejectSkip, RejectFinish
          <6>2. QED
            BY <6>1
        <5>4. QED
          BY <3>2, <5>1, <5>2, <5>3 DEF DecisionStep
      <4>2. QED
        BY <1>3, <4>1
    <3>3. CASE ControlRequest(h)
      <4>1. api'[h].pc \notin {"decide", "clear"}
        <5>1. \E r \in Runs, pc \in {"launch_commit", "cancel_flag", "retry_lock"} : Load(h, r, pc)
          BY <3>3, Zenon DEF ControlRequest, LaunchLock, CancelLoad, RetryLoad
        <5>2. QED
          BY <5>1 DEF Load
      <4>2. QED
        BY <1>3, <4>1
    <3>4. CASE DecisionRequest(h)
      BY <1>4, <1>5, <3>4 DEF DecisionRequest
    <3>5. CASE ApiCrash(h)
      <4>1. api'[h].pc \notin {"decide", "clear"}
        BY <3>5 DEF ApiCrash
      <4>2. QED
        BY <1>3, <4>1
    <3>6. QED
      BY <1>6, <2>2, <3>1, <3>2, <3>3, <3>4, <3>5
  <2>3. QED
    BY <2>1, <2>2
<1>7. CASE api' = api
  BY <1>2, <1>7
<1>8. \/ api' = api
      \/ \E g \in Handlers :
            \/ ControlStep(g) \/ DecisionStep(g) \/ ControlRequest(g) \/ DecisionRequest(g)
            \/ ApiCrash(g)
  BY DEF Next, Work, Serve, Expiry, Sweep, Surprise, SubmitTask, vars
<1>9. QED
  BY <1>6, <1>7, <1>8

\* A step that tidies up and moves no worker.
LEMMA StillFlows ==
    ASSUME IInv, IInv', Flow(exec, rows, asks, api), TidyRows, CalmAsks,
           \A h \in Handlers : Served(api'[h], asks'),
           \A w \in Workers : Turned(exec[w], exec'[w], w)
    PROVE  Flow(exec', rows', asks', api')
<1>1. ASSUME NEW r \in Runs PROVE Quiet(rows[r], rows'[r], asks[r], asks'[r])
  <2>1. \A n \in Nodes : GoodTable(rows[r][n])
    BY Typed
  <2>2. \A n \in Nodes : GoodTable(rows'[r][n])
    BY DEF IInv, TypeOK, StateTypeOK, GoodTable, IsTable, Bounded
  <2>3. QED
    BY <2>1, <2>2 DEF Quiet, TidyRows, CalmAsks
<1>2. QED
  BY <1>1, QuietStep

\* What a worker that tidies up turns into.
LEMMA WorkerTurns ==
    ASSUME IInv, Flow(exec, rows, asks, api), OneExecutor, NEW w \in Workers, Alone(w),
           WorkerStep(w), ~\E n \in Nodes : WritesRow(w, n)
    PROVE  Turned(exec[w], exec'[w], w)
<1>1. PICK e : e = exec[w]
  OBVIOUS
<1>2. PICK f : f = exec'[w]
  OBVIOUS
<1>3. CASE Leaves(e, f)
  BY <1>1, <1>3, LeavesTurns, <1>2
<1>4. CASE BeginPass(w)
  BY <1>1, <1>2, <1>4, BeginTurns
<1>5. CASE NextWave(w)
  BY <1>1, <1>2, <1>5, NextTurns
<1>6. CASE EndWave(w)
  BY <1>1, <1>2, <1>6, EndWaveTurns
<1>7. CASE EndPass(w)
  BY <1>1, <1>2, <1>7, EndPassTurns
<1>8. CASE \E n \in Nodes : NodeStep(w, n)
  <2>1. PICK n \in Nodes : \/ NumberNode(w, n) \/ NumberTaken(w, n) \/ RowLost(w, n)
                           \/ FindOpen(w, n) \/ GateTaken(w, n)
    BY <1>8 DEF NodeStep, WritesRow
  <2>2. QED
    BY <1>1, <1>2, <2>1, NodeTurns
<1>9. CASE exec' = exec
  BY <1>9, StaysTurned
<1>10. QED
  BY <1>1, <1>2, <1>3, <1>4, <1>5, <1>6, <1>7, <1>8, <1>9, StepKinds

\* A worker that dies has nothing in flight.
LEMMA CrashTurns ==
    ASSUME IInv, NEW w \in Workers, WorkerCrash(w)
    PROVE  Alone(w) /\ Turned(exec[w], exec'[w], w)
<1>t. exec \in [Workers -> Job]
  BY Typed
<1>1. PICK e : e = exec[w]
  OBVIOUS
<1>2. PICK f : f = exec'[w]
  OBVIOUS
<1>3. /\ f.pc = "idle" /\ f.outcome = "none" /\ \A n \in Nodes : f.at[n] = "none"
      /\ Alone(w)
  BY <1>t, <1>2 DEF WorkerCrash, Idle, NotInWave, Alone
<1>4. ~InWaves(f) /\ ~Won(f)
  BY <1>3 DEF InWaves, Won
<1>5. View(f, rows, asks)
  BY <1>3, <1>4 DEF View, InOrder
<1>6. \A r \in Runs, n \in Nodes : \A a \in DOMAIN rows'[r][n] : rows'[r][n][a].by # w
  BY CrashTidies
<1>7. Turned(e, f, w)
  BY <1>4, <1>5, <1>6 DEF Turned
<1>8. QED
  BY <1>1, <1>2, <1>3, <1>7

\* The flow is kept by every step, as long as no run has two workers at work on it.
LEMMA FlowKept ==
    ASSUME IInv, IInv', AskTypes, OneOpenQuestion, OneExecutor, Flow(exec, rows, asks, api),
           [Next]_vars
    PROVE  Flow(exec', rows', asks', api')
<1>1. \A h \in Handlers : Served(api'[h], asks')
  BY ServedKept DEF Flow
<1>2. ASSUME TidyRows, CalmAsks, exec' = exec PROVE Flow(exec', rows', asks', api')
  <2>1. \A w \in Workers : Turned(exec[w], exec'[w], w)
    BY <1>2, StaysTurned
  <2>2. QED
    BY <1>1, <1>2, <2>1, StillFlows
<1>3. ASSUME TidyRows, CalmAsks, NEW w \in Workers, Alone(w), Turned(exec[w], exec'[w], w)
      PROVE  Flow(exec', rows', asks', api')
  <2>1. \A v \in Workers : Turned(exec[v], exec'[v], v)
    BY <1>3, StaysTurned DEF Alone
  <2>2. QED
    BY <1>1, <1>3, <2>1, StillFlows
<1>4. ASSUME UNCHANGED <<rows, asks, exec>> PROVE Flow(exec', rows', asks', api')
  BY <1>2, <1>4, SameTidies, SameCalms
<1>5. ASSUME NEW w \in Workers, Work(w) PROVE Flow(exec', rows', asks', api')
  <2>1. WorkerStep(w) /\ Alone(w)
    BY <1>5, WorkerMoves DEF Work
  <2>2. CASE \E n \in Nodes : WritesRow(w, n)
    BY <1>1, <2>1, <2>2, WriteFlows
  <2>3. CASE ~\E n \in Nodes : WritesRow(w, n)
    <3>1. TidyRows /\ CalmAsks
      BY <2>1, <2>3, WorkerTidies
    <3>2. Turned(exec[w], exec'[w], w)
      BY <2>1, <2>3, WorkerTurns
    <3>3. QED
      BY <1>3, <2>1, <3>1, <3>2
  <2>4. QED
    BY <2>2, <2>3
<1>6. ASSUME NEW h \in Handlers, exec' = exec,
             ControlStep(h) \/ DecisionStep(h) \/ ControlRequest(h) \/ DecisionRequest(h)
      PROVE  Flow(exec', rows', asks', api')
  <2>1. CASE TidyRows /\ CalmAsks
    BY <1>2, <1>6, <2>1
  <2>2. ASSUME NEW verdict \in {"approved", "rejected"}, Decide(h, verdict)
        PROVE  Flow(exec', rows', asks', api')
    BY <1>1, <1>6, <2>2, DecideFlows
  <2>3. CASE Clear(h)
    <3>1. CASE TidyRows
      BY <1>2, <1>6, <2>3, <3>1, SameCalms DEF Clear
    <3>2. CASE ~TidyRows
      BY <1>1, <1>6, <2>3, <3>2, ClearFlows
    <3>3. QED
      BY <3>1, <3>2
  <2>4. QED
    BY <1>6, <2>1, <2>2, <2>3, RequestTidies
<1>7. CASE \E h \in Handlers : Serve(h)
  BY <1>6, <1>7 DEF Serve
<1>8. CASE \E r \in Runs : Expiry(r)
  BY <1>4, <1>8 DEF Expiry, BeatExpires
<1>9. CASE Sweep
  BY <1>2, <1>9, SweepTidies DEF Sweep
<1>10. CASE Surprise
  <2>1. CASE \E h \in Handlers : (ControlRequest(h) \/ DecisionRequest(h)) /\ exec' = exec
    BY <1>6, <2>1
  <2>2. ASSUME NEW w \in Workers, WorkerCrash(w) PROVE Flow(exec', rows', asks', api')
    BY <1>3, <2>2, CrashTidies, CrashTurns
  <2>3. CASE UNCHANGED <<rows, asks, exec>>
    BY <1>4, <2>3
  <2>4. \/ \E h \in Handlers : (ControlRequest(h) \/ DecisionRequest(h)) /\ exec' = exec
        \/ \E w \in Workers : WorkerCrash(w)
        \/ UNCHANGED <<rows, asks, exec>>
    BY <1>10 DEF Surprise, ApiCrash, SubmitTask, LockExpires, ReaperCrash
  <2>5. QED
    BY <2>1, <2>2, <2>3, <2>4
<1>11. CASE UNCHANGED vars
  BY <1>4, <1>11 DEF vars
<1>12. QED
  BY <1>5, <1>7, <1>8, <1>9, <1>10, <1>11 DEF Next

\* It holds when nothing has been launched.
LEMMA InitFlows == ASSUME Init PROVE Flow(exec, rows, asks, api)
<1>1. /\ \A w \in Workers : exec[w] = Idle
      /\ \A r \in Runs, n \in Nodes : rows[r][n] = NoRows /\ asks[r][n] = <<>>
      /\ \A h \in Handlers : api[h] = Free
  BY DEF Init, StateInit, ExecInit, ControlInit
<1>2. /\ Idle.pc = "idle" /\ Idle.outcome = "none" /\ \A n \in Nodes : Idle.at[n] = "none"
      /\ DOMAIN NoRows = {} /\ Free.pc = "free"
  BY DEF Idle, NotInWave, NoRows, Free
<1>3. ASSUME NEW w \in Workers PROVE View(exec[w], rows, asks) /\ ~Won(exec[w])
  BY <1>1, <1>2 DEF View, Won, InOrder, InWaves
<1>4. SoundRuns(rows, asks)
  <2>1. ASSUME NEW r \in Runs, NEW n \in Nodes PROVE SoundAt(rows[r], asks[r], n)
    <3>1. asks[r][n] = <<>> /\ DOMAIN rows[r][n] = {}
      BY <1>1, <1>2
    <3>2. ~Open(asks[r][n]) /\ ~Approved(asks[r][n])
      BY <3>1 DEF Open, Approved
    <3>3. QED
      BY <3>1, <3>2 DEF SoundAt, Tried, LastSuccess
  <2>2. QED
    BY <2>1 DEF SoundRuns
<1>5. Holds(exec, rows)
  BY <1>1, <1>2 DEF Holds
<1>6. \A h \in Handlers : Served(api[h], asks)
  BY <1>1, <1>2 DEF Served
<1>7. QED
  BY <1>3, <1>4, <1>5, <1>6 DEF Flow, Wins

-----------------------------------------------------------------------------
(* The promise of the gates                                                 *)

\* The newest question of a list, as GateProtocol sees it.
Newly(seq) == IF seq = <<>> THEN "none" ELSE Last(seq)

Questions == [r \in Runs |-> [g \in Gates |-> Newly(asks[r][g])]]
Dones == [r \in Runs |-> [g \in Gates |-> Succeeded(rows[r][g])]]

\* The variables of GateProtocol are these.
LEMMA Mapped ==
    /\ Promise!vars = <<Questions, Dones>>
    /\ \A r \in Runs, g \in Gates : Latest(r, g) = StatusOf(rows[r][g])
<1>1. \A r, g : Latest(r, g) = StatusOf(rows[r][g])
  BY DEF Latest, StatusOf
<1>2. Dones = [r \in Runs |-> [g \in Gates |-> Latest(r, g) = "succeeded"]]
  BY <1>1 DEF Dones, Succeeded
<1>3. Questions = [r \in Runs |-> [g \in Gates |->
                      IF asks[r][g] = <<>> THEN "none" ELSE Last(asks[r][g])]]
  BY DEF Questions, Newly
<1>4. QED
  BY <1>1, <1>2, <1>3 DEF Promise!vars

\* A table with a cell for every run and gate.
Cells(f) == f = [r \in Runs |-> [g \in Gates |-> f[r][g]]]

\* The questions and the successes are such tables, before and after a step.
LEMMA AllCells == /\ Cells(Questions) /\ Cells(Questions')
                  /\ Cells(Dones) /\ Cells(Dones')
BY DEF Cells, Questions, Dones

\* One cell becomes v, and the others stay.
MovesTo(old, new, r, g, v) ==
    \A q \in Runs, m \in Gates : new[q][m] = IF q = r /\ m = g THEN v ELSE old[q][m]

\* Moving one cell is one EXCEPT.
LEMMA OneCell ==
    ASSUME NEW old, NEW new, Cells(old), Cells(new),
           NEW r \in Runs, NEW g \in Gates, NEW v, MovesTo(old, new, r, g, v)
    PROVE  new = [old EXCEPT ![r][g] = v]
<1>0. PICK S : S = Runs
  OBVIOUS
<1>t. PICK T : T = Gates
  OBVIOUS
<1>o. old = [x \in S |-> [m \in T |-> old[x][m]]]
  BY <1>0, <1>t DEF Cells
<1>n. new = [x \in S |-> [m \in T |-> new[x][m]]]
  BY <1>0, <1>t DEF Cells
<1>m. \A q \in S, m \in T : new[q][m] = IF q = r /\ m = g THEN v ELSE old[q][m]
  BY <1>0, <1>t DEF MovesTo
<1>r. r \in S /\ g \in T
  BY <1>0, <1>t
<1> DEFINE set == [old EXCEPT ![r][g] = v]
<1>1. ASSUME NEW q \in S PROVE set[q] = [m \in T |-> IF q = r /\ m = g THEN v ELSE old[q][m]]
  <2>1. old[q] = [m \in T |-> old[q][m]]
    BY <1>o
  <2>2. CASE q = r
    BY <2>1, <2>2, <1>r, <1>o
  <2>3. CASE q # r
    BY <2>1, <2>3, <1>r, <1>o
  <2>4. QED
    BY <2>2, <2>3
<1>2. ASSUME NEW q \in S PROVE new[q] = [m \in T |-> IF q = r /\ m = g THEN v ELSE old[q][m]]
  <2>1. new[q] = [m \in T |-> new[q][m]]
    BY <1>n
  <2>2. QED
    BY <2>1, <1>m
<1>3. set = [q \in S |-> set[q]]
  BY <1>o
<1> HIDE DEF set
<1>4. \A q \in S : set[q] = new[q]
  BY <1>1, <1>2
<1>5. new = [q \in S |-> new[q]]
  BY <1>n
<1>6. set = new
  BY <1>3, <1>4, <1>5
<1>7. QED
  BY <1>6 DEF set

\* Two tables with the same cells are the same.
LEMMA SameCells ==
    ASSUME NEW old, NEW new, Cells(old), Cells(new),
           \A q \in Runs, m \in Gates : new[q][m] = old[q][m]
    PROVE  new = old
BY DEF Cells

\* The list of questions of a gate is a sequence of answers.
LEMMA Listed ==
    ASSUME AskTypes, NEW r \in Runs, NEW n \in Nodes
    PROVE  /\ asks[r][n] \in Seq(AskStatus) /\ Len(asks[r][n]) \in Nat
           /\ DOMAIN asks[r][n] = 1 .. Len(asks[r][n])
           /\ asks[r][n] # <<>> <=> Len(asks[r][n]) >= 1
BY DEF AskTypes

\* A question of a gate is open iff the newest one is.
LEMMA OpenIsNewest ==
    ASSUME AskTypes, OneOpenQuestion, NEW r \in Runs, NEW n \in Nodes
    PROVE  Open(asks[r][n]) <=> Newly(asks[r][n]) = "pending"
<1>1. PICK q : q = asks[r][n]
  OBVIOUS
<1>2. Len(q) \in Nat /\ DOMAIN q = 1 .. Len(q) /\ (q # <<>> <=> Len(q) >= 1)
  BY <1>1, Listed
<1>3. \A i \in DOMAIN q : q[i] = "pending" => i = Len(q)
  BY <1>1 DEF OneOpenQuestion
<1>4. Open(q) <=> Newly(q) = "pending"
  BY <1>2, <1>3 DEF Open, Newly, Last
<1>5. QED
  BY <1>1, <1>4

\* What closing does to the newest question.
LEMMA ExpiredNewly ==
    ASSUME NEW q \in Seq(AskStatus), NEW p,
           p = [i \in 1 .. Len(q) |-> IF q[i] = "pending" THEN "expired" ELSE q[i]]
    PROVE  Newly(p) = IF Newly(q) = "pending" THEN "expired" ELSE Newly(q)
<1>1. Len(q) \in Nat /\ DOMAIN q = 1 .. Len(q)
  OBVIOUS
<1>2. p \in Seq(AskStatus) /\ Len(p) = Len(q)
  <2>1. \A i \in 1 .. Len(q) : (IF q[i] = "pending" THEN "expired" ELSE q[i]) \in AskStatus
    BY DEF AskStatus
  <2>2. p \in [1 .. Len(q) -> AskStatus]
    BY <2>1
  <2>3. QED
    BY <1>1, <2>2
<1>3. p # <<>> <=> q # <<>>
  BY <1>1, <1>2
<1>4. q # <<>> => Len(q) \in 1 .. Len(q)
  BY <1>1
<1>5. QED
  BY <1>2, <1>3, <1>4 DEF Newly, Last

\* A step that asks, answers, closes or passes a gate unasked is one of
\* GateProtocol.
LEMMA PromiseMoves ==
    ASSUME NEW q, q = Questions, NEW d, d = Dones, NEW p, p = Questions', NEW c, c = Dones',
           NEW r \in Runs
    PROVE  /\ p = q /\ c = d => UNCHANGED Promise!vars
           /\ c = d /\ p = [q EXCEPT ![r] =
                  [g \in Gates |-> IF q[r][g] = "pending" THEN "expired" ELSE q[r][g]]]
                => Promise!Next
           /\ \A g \in Gates :
                 /\ /\ q[r][g] \in {"none", "rejected", "expired"} /\ ~d[r][g]
                    /\ p = [q EXCEPT ![r][g] = "pending"] /\ c = d
                    => Promise!Next
                 /\ /\ g \in Conditional /\ q[r][g] # "pending"
                    /\ p = q /\ c = [d EXCEPT ![r][g] = TRUE]
                    => Promise!Next
                 /\ \A verdict \in {"approved", "rejected"} :
                    /\ q[r][g] = "pending" /\ p = [q EXCEPT ![r][g] = verdict]
                    /\ c = [d EXCEPT ![r][g] = (verdict = "approved")]
                    => Promise!Next
<1>1. q = [x \in Runs |-> [g \in Gates |->
              IF asks[x][g] = <<>> THEN "none" ELSE Last(asks[x][g])]]
  BY DEF Questions, Newly
<1>2. p = [x \in Runs |-> [g \in Gates |->
              IF asks'[x][g] = <<>> THEN "none" ELSE Last(asks'[x][g])]]
  BY DEF Questions, Newly
<1>3. d = [x \in Runs |-> [g \in Gates |-> Latest(x, g) = "succeeded"]]
  BY DEF Dones, Succeeded, Latest, StatusOf
<1>4. c = [x \in Runs |-> [g \in Gates |-> Latest(x, g)' = "succeeded"]]
  BY DEF Dones, Succeeded, Latest, StatusOf
<1>5. p = q /\ c = d => UNCHANGED Promise!vars
  BY <1>1, <1>2, <1>3, <1>4 DEF Promise!vars
<1>6. c = d /\ p = [q EXCEPT ![r] =
          [g \in Gates |-> IF q[r][g] = "pending" THEN "expired" ELSE q[r][g]]]
        => Promise!Close(r)
  BY <1>1, <1>2, <1>3, <1>4, ZenonT(60) DEF Promise!Close
<1>7. ASSUME NEW g \in Gates
      PROVE  /\ /\ q[r][g] \in {"none", "rejected", "expired"} /\ ~d[r][g]
                /\ p = [q EXCEPT ![r][g] = "pending"] /\ c = d
                => Promise!Ask(r, g)
             /\ /\ g \in Conditional /\ q[r][g] # "pending"
                /\ p = q /\ c = [d EXCEPT ![r][g] = TRUE]
                => Promise!PassUnasked(r, g)
  BY <1>1, <1>2, <1>3, <1>4 DEF Promise!Ask, Promise!PassUnasked
<1>8. ASSUME NEW g \in Gates, NEW verdict \in {"approved", "rejected"},
             q[r][g] = "pending", p = [q EXCEPT ![r][g] = verdict],
             c = [d EXCEPT ![r][g] = (verdict = "approved")]
      PROVE  Promise!Answer(r, g, verdict)
  BY <1>1, <1>2, <1>3, <1>4, <1>8 DEF Promise!Answer
<1> HIDE DEF Questions, Dones
<1>9. \A g \in Gates : Promise!Ask(r, g) \/ Promise!PassUnasked(r, g) => Promise!Next
  BY DEF Promise!Next
<1>10. \A g \in Gates, verdict \in {"approved", "rejected"} :
          Promise!Answer(r, g, verdict) => Promise!Next
  BY DEF Promise!Next
<1>11. Promise!Close(r) => Promise!Next
  BY DEF Promise!Next
<1>12. QED
  BY <1>5, <1>6, <1>7, <1>8, <1>9, <1>10, <1>11

\* A gate is firm, so its success is its newest attempt.
LEMMA GateIsFirm == ASSUME NEW g \in Gates PROVE g \in Nodes /\ Kind[g] = "gate" /\ Firm(g)
BY DEF Gates, Firm

\* A write to one node of one run moves one cell of each table at most.
LEMMA CellsMove ==
    ASSUME NEW r \in Runs, NEW n \in Nodes, TouchesOnly(r, n),
           NEW q, q = Questions, NEW d, d = Dones, NEW p, p = Questions', NEW c, c = Dones'
    PROVE  /\ n \in Gates => /\ p = [q EXCEPT ![r][n] = Newly(asks'[r][n])]
                             /\ c = [d EXCEPT ![r][n] = Succeeded(rows'[r][n])]
           /\ n \notin Gates \/ Newly(asks'[r][n]) = Newly(asks[r][n]) => p = q
           /\ n \notin Gates \/ Succeeded(rows'[r][n]) = Succeeded(rows[r][n]) => c = d
<1>1. Cells(q) /\ Cells(p) /\ Cells(d) /\ Cells(c)
  BY AllCells
<1>3. /\ \A x \in Runs, m \in Gates : q[x][m] = Newly(asks[x][m])
      /\ \A x \in Runs, m \in Gates : p[x][m] = Newly(asks'[x][m])
      /\ \A x \in Runs, m \in Gates : d[x][m] = Succeeded(rows[x][m])
      /\ \A x \in Runs, m \in Gates : c[x][m] = Succeeded(rows'[x][m])
  BY DEF Questions, Dones
<1>4. \A x \in Runs, m \in Gates : x # r \/ m # n =>
          rows'[x][m] = rows[x][m] /\ asks'[x][m] = asks[x][m]
  BY GateIsFirm DEF TouchesOnly
<1>5. \A x \in Runs, m \in Gates : x # r \/ m # n => p[x][m] = q[x][m] /\ c[x][m] = d[x][m]
  BY <1>3, <1>4
<1>6. ASSUME n \in Gates
      PROVE  /\ p = [q EXCEPT ![r][n] = Newly(asks'[r][n])]
             /\ c = [d EXCEPT ![r][n] = Succeeded(rows'[r][n])]
  <2>1. PICK v : v = Newly(asks'[r][n])
    OBVIOUS
  <2>2. PICK done : done = Succeeded(rows'[r][n])
    OBVIOUS
  <2>3. MovesTo(q, p, r, n, v)
    BY <1>3, <1>5, <1>6, <2>1 DEF MovesTo
  <2>4. MovesTo(d, c, r, n, done)
    BY <1>3, <1>5, <1>6, <2>2 DEF MovesTo
  <2>5. p = [q EXCEPT ![r][n] = v]
    BY <1>1, <1>6, <2>3, OneCell
  <2>6. c = [d EXCEPT ![r][n] = done]
    BY <1>1, <1>6, <2>4, OneCell
  <2>7. QED
    BY <2>1, <2>2, <2>5, <2>6
<1>7. ASSUME n \notin Gates \/ Newly(asks'[r][n]) = Newly(asks[r][n]) PROVE p = q
  <2>1. \A x \in Runs, m \in Gates : p[x][m] = q[x][m]
    BY <1>3, <1>5, <1>7
  <2>2. QED
    BY <1>1, <2>1, SameCells
<1>8. ASSUME n \notin Gates \/ Succeeded(rows'[r][n]) = Succeeded(rows[r][n]) PROVE c = d
  <2>1. \A x \in Runs, m \in Gates : c[x][m] = d[x][m]
    BY <1>3, <1>5, <1>8
  <2>2. QED
    BY <1>1, <2>1, SameCells
<1>9. QED
  BY <1>6, <1>7, <1>8

\* Tidying up takes no gate's success and makes none.
LEMMA TidyDones ==
    ASSUME IInv, IInv', Flow(exec, rows, asks, api), TidyRows
    PROVE  Dones' = Dones
<1>1. ASSUME NEW r \in Runs, NEW g \in Gates
      PROVE  Succeeded(rows'[r][g]) = Succeeded(rows[r][g])
  <2>1. g \in Nodes /\ Firm(g)
    BY GateIsFirm
  <2>2. GoodTable(rows[r][g]) /\ GoodTable(rows'[r][g])
    BY <2>1, Typed DEF IInv, TypeOK, StateTypeOK, GoodTable, IsTable, Bounded
  <2>3. Tidy(rows[r][g], rows'[r][g]) /\ LastSuccess(rows[r][g])
    BY <2>1 DEF TidyRows, Flow, SoundRuns, SoundAt
  <2>4. Succeeded(rows'[r][g]) => Succeeded(rows[r][g])
    BY <2>2, <2>3, NoNewSuccess
  <2>5. Succeeded(rows[r][g]) => Succeeded(rows'[r][g])
    BY <2>3 DEF Tidy, Succeeded
  <2>6. QED
    BY <2>4, <2>5 DEF Succeeded
<1>2. QED
  BY <1>1 DEF Dones

\* Housekeeping stutters, closes a run's questions, or (were it to) turns down a
\* question that is open.
LEMMA TidyPromise ==
    ASSUME IInv, IInv', AskTypes, OneOpenQuestion, Flow(exec, rows, asks, api),
           TidyRows, CalmAsks, AskStep
    PROVE  [Promise!Next]_(Promise!vars)
<1>0. PICK q : q = Questions
  OBVIOUS
<1>1. PICK p : p = Questions'
  OBVIOUS
<1>2. PICK d : d = Dones
  OBVIOUS
<1>3. PICK c : c = Dones'
  OBVIOUS
<1>4. c = d
  BY <1>2, <1>3, TidyDones
<1>5. ASSUME asks' = asks PROVE UNCHANGED Promise!vars
  <2>1. p = q
    BY <1>0, <1>1, <1>5 DEF Questions
  <2>2. QED
    <3>1. CASE Runs = {}
      BY <3>1 DEF Promise!vars
    <3>2. CASE Runs # {}
      <4>1. PICK r : r \in Runs
        BY <3>2
      <4>2. QED
        BY <1>0, <1>1, <1>2, <1>3, <1>4, <2>1, <4>1, PromiseMoves
    <3>3. QED
      BY <3>1, <3>2
<1>6. ASSUME NEW r \in Runs, Closed(r) PROVE Promise!Next
  <2>1. ASSUME NEW x \in Runs, NEW g \in Gates
        PROVE  p[x][g] = IF x = r /\ q[x][g] = "pending" THEN "expired" ELSE q[x][g]
    <3>0. g \in Nodes
      BY GateIsFirm
    <3>1. p[x][g] = Newly(asks'[x][g]) /\ q[x][g] = Newly(asks[x][g])
      BY <1>0, <1>1 DEF Questions
    <3>2. CASE x # r
      BY <1>6, <3>1, <3>2 DEF Closed, AskTypes
    <3>3. CASE x = r
      <4>1. asks'[r][g] = [i \in 1 .. Len(asks[r][g]) |->
                              IF asks[r][g][i] = "pending" THEN "expired" ELSE asks[r][g][i]]
        BY <1>6, <3>0 DEF Closed, Expire, AskTypes
      <4>2. asks[r][g] \in Seq(AskStatus)
        BY <3>0, Listed
      <4>3. Newly(asks'[r][g]) = IF Newly(asks[r][g]) = "pending" THEN "expired" ELSE Newly(asks[r][g])
        BY <4>1, <4>2, ExpiredNewly
      <4>4. QED
        BY <3>1, <3>3, <4>3
    <3>4. QED
      BY <3>2, <3>3
  <2>2. PICK closed : closed = [g \in Gates |-> IF q[r][g] = "pending" THEN "expired" ELSE q[r][g]]
    OBVIOUS
  <2>3. q = [x \in Runs |-> [m \in Gates |-> q[x][m]]] /\ p = [x \in Runs |-> [m \in Gates |-> p[x][m]]]
    BY <1>0, <1>1 DEF Questions
  <2>4. p = [q EXCEPT ![r] = closed]
    <3>1. ASSUME NEW x \in Runs PROVE p[x] = IF x = r THEN closed ELSE q[x]
      <4>1. p[x] = [m \in Gates |-> p[x][m]] /\ q[x] = [m \in Gates |-> q[x][m]]
        BY <2>3
      <4>2. QED
        BY <2>1, <2>2, <4>1
    <3>2. QED
      BY <2>3, <3>1
  <2>5. QED
    BY <1>0, <1>1, <1>2, <1>3, <1>4, <2>2, <2>4, PromiseMoves
<1>7. ASSUME NEW r, NEW n, Asked(r, n) PROVE asks' = asks
  <2>1. CASE r \in Runs /\ n \in Nodes
    <3>1. PICK s : s = asks[r][n]
      OBVIOUS
    <3>2. s \in Seq(AskStatus) /\ ~Open(s) /\ asks'[r][n] = Append(s, "pending")
      BY <1>7, <2>1, <3>1 DEF Asked, Pending, Open, AskTypes
    <3>3. Open(asks'[r][n])
      <4>1. /\ Len(Append(s, "pending")) = Len(s) + 1 /\ Len(s) \in Nat
            /\ Append(s, "pending")[Len(s) + 1] = "pending"
        BY <3>2
      <4>2. QED
        BY <3>2, <4>1 DEF Open
    <3>4. QED
      BY <2>1, <3>1, <3>2, <3>3 DEF CalmAsks, Calm
  <2>2. CASE ~(r \in Runs /\ n \in Nodes)
    BY <1>7, <2>2 DEF Asked, AskTypes
  <2>3. QED
    BY <2>1, <2>2
<1>8. ASSUME NEW r, NEW n, NEW i, NEW verdict \in {"approved", "rejected"}, Answered(r, n, i, verdict)
      PROVE  asks' = asks \/ Promise!Next
  <2>1. CASE ~(r \in Runs /\ n \in Nodes)
    BY <1>8, <2>1 DEF Answered, AskTypes
  <2>2. CASE r \in Runs /\ n \in Nodes
    <3>1. PICK s : s = asks[r][n]
      OBVIOUS
    <3>2. s \in Seq(AskStatus) /\ DOMAIN s = 1 .. Len(s) /\ Len(s) \in Nat
      BY <2>2, <3>1, Listed
    <3>3. CASE i \notin DOMAIN s
      <4>1. [s EXCEPT ![i] = verdict] = s
        BY <3>2, <3>3
      <4>2. asks' = [asks EXCEPT ![r][n] = s]
        BY <1>8, <3>1, <4>1 DEF Answered
      <4>3. QED
        BY <2>2, <3>1, <4>2 DEF AskTypes
    <3>4. CASE i \in DOMAIN s
      <4>1. s[i] = "pending" /\ i = Len(s) /\ Open(s) /\ s # <<>>
        BY <1>8, <2>2, <3>1, <3>2, <3>4 DEF Answered, OneOpenQuestion, Open
      <4>2. asks'[r][n] = [s EXCEPT ![i] = verdict]
        BY <1>8, <2>2, <3>1 DEF Answered, AskTypes
      <4>3. Len(asks'[r][n]) = Len(s) /\ asks'[r][n][Len(s)] = verdict /\ asks'[r][n] # <<>>
        BY <3>2, <3>4, <4>1, <4>2
      <4>4. Newly(asks'[r][n]) = verdict /\ Newly(s) = "pending"
        BY <4>1, <4>3 DEF Newly, Last
      <4>5. SoundAt(rows[r], asks[r], n)
        BY <2>2 DEF Flow, SoundRuns
      <4>6. n \in Gates /\ StatusOf(rows[r][n]) = "awaiting_approval"
        BY <2>2, <3>1, <4>1, <4>5 DEF SoundAt, Gates
      <4>7. verdict = "rejected"
        <5>1. Approved(asks'[r][n]) => Approved(s)
          BY <2>2, <3>1 DEF CalmAsks, Calm
        <5>2. ~Approved(s)
          BY <4>1 DEF Approved, Last
        <5>3. QED
          BY <4>3, <5>1, <5>2 DEF Approved, Last
      <4>8. MovesTo(q, p, r, n, verdict)
        <5>0. SUFFICES \A x \in Runs, m \in Gates :
                         p[x][m] = IF x = r /\ m = n THEN verdict ELSE q[x][m]
          BY DEF MovesTo
        <5>1. TAKE x \in Runs, m \in Gates
        <5>2. p[x][m] = Newly(asks'[x][m]) /\ q[x][m] = Newly(asks[x][m])
          BY <1>0, <1>1 DEF Questions
        <5>3. x # r \/ m # n => asks'[x][m] = asks[x][m]
          BY <1>8, GateIsFirm DEF Answered, AskTypes
        <5>4. QED
          BY <4>4, <5>2, <5>3
      <4>9. Cells(q) /\ Cells(p) /\ Cells(d)
        BY <1>0, <1>1, <1>2, AllCells
      <4>10. p = [q EXCEPT ![r][n] = verdict]
        BY <2>2, <4>6, <4>8, <4>9, OneCell
      <4>11. q[r][n] = "pending"
        BY <1>0, <2>2, <3>1, <4>4, <4>6 DEF Questions
      <4>12. c = [d EXCEPT ![r][n] = (verdict = "approved")]
        <5>1. d[r][n] = FALSE
          BY <1>2, <2>2, <4>6 DEF Dones, Succeeded
        <5>3. MovesTo(d, d, r, n, FALSE)
          BY <5>1 DEF MovesTo
        <5>4. d = [d EXCEPT ![r][n] = FALSE]
          BY <2>2, <4>6, <4>9, <5>3, OneCell, Zenon
        <5>5. QED
          BY <1>4, <4>7, <5>4
      <4>13. QED
        BY <1>0, <1>1, <1>2, <1>3, <2>2, <4>6, <4>10, <4>11, <4>12, PromiseMoves
    <3>5. QED
      BY <3>3, <3>4
  <2>3. QED
    BY <2>1, <2>2
<1>9. ASSUME NEW r, r \notin Runs, Closed(r) PROVE asks' = asks
  BY <1>9 DEF Closed, AskTypes
<1>10. asks' = asks \/ Promise!Next
  BY <1>6, <1>7, <1>8, <1>9 DEF AskStep, Untouched
<1>11. QED
  BY <1>5, <1>10

\* An attempt that starts at a gate changes neither its question nor its success.
LEMMA StartPromise ==
    ASSUME IInv, Flow(exec, rows, asks, api), NEW w \in Workers, NEW n \in Nodes, StartNode(w, n)
    PROVE  UNCHANGED Promise!vars
<1>1. PICK e, f, r, old, u, a : /\ r = exec[w].run /\ old = rows[r][n] /\ u = rows'[r][n]
                                /\ Started(e, f, r, n, old, u, a, w)
  BY StartKnows
<1>2. r \in Runs /\ TouchesOnly(r, n) /\ asks' = asks /\ StatusOf(u) = "running"
      /\ (Firm(n) => ~Succeeded(old))
  BY <1>1 DEF Started
<1>3. Newly(asks'[r][n]) = Newly(asks[r][n])
  BY <1>2
<1>4. n \in Gates => Succeeded(rows'[r][n]) = Succeeded(rows[r][n])
  BY <1>1, <1>2, GateIsFirm DEF Succeeded
<1>5. PICK q : q = Questions
  OBVIOUS
<1>6. PICK p : p = Questions'
  OBVIOUS
<1>7. PICK d : d = Dones
  OBVIOUS
<1>8. PICK c : c = Dones'
  OBVIOUS
<1>9. p = q /\ c = d
  BY <1>2, <1>3, <1>4, <1>5, <1>6, <1>7, <1>8, CellsMove
<1>10. QED
  BY <1>2, <1>5, <1>6, <1>7, <1>8, <1>9, PromiseMoves

\* What a checkpoint without a question does to the gate it is written at: a
\* conditional gate passes unasked, and nothing else changes.
LEMMA CheckpointPromise ==
    ASSUME IInv, AskTypes, OneOpenQuestion, Flow(exec, rows, asks, api),
           NEW w \in Workers, NEW n \in Nodes,
           NEW s \in NodeStatus, NEW x, Checkpoint(w, n, s, x), asks' = asks,
           s = "succeeded" => n \notin Gates \/ n \in Conditional
    PROVE  [Promise!Next]_(Promise!vars)
<1>1. PICK e, f, r, old, u : /\ r = exec[w].run /\ old = rows[r][n] /\ u = rows'[r][n]
                             /\ Checkpointed(e, f, r, n, s, x, old, u, w)
  BY CheckpointRow
<1>2. /\ r \in Runs /\ StatusOf(u) = s /\ StatusOf(old) \in {"running", "failed", "skipped"}
      /\ TouchesOnly(r, n)
  BY <1>1 DEF Checkpointed, TouchesOnly
<1>3. Newly(asks'[r][n]) = Newly(asks[r][n])
  BY DEF Newly
<1>4. ~Succeeded(rows[r][n]) /\ (Succeeded(rows'[r][n]) <=> s = "succeeded")
  BY <1>1, <1>2 DEF Succeeded
<1>5. PICK q : q = Questions
  OBVIOUS
<1>6. PICK p : p = Questions'
  OBVIOUS
<1>7. PICK d : d = Dones
  OBVIOUS
<1>8. PICK c : c = Dones'
  OBVIOUS
<1>9. p = q
  BY <1>2, <1>3, <1>5, <1>6, <1>7, <1>8, CellsMove
<1>10. CASE n \notin Gates \/ s # "succeeded"
  <2>1. n \notin Gates \/ Succeeded(rows'[r][n]) = Succeeded(rows[r][n])
    BY <1>4, <1>10 DEF Succeeded
  <2>2. c = d
    BY <1>2, <1>5, <1>6, <1>7, <1>8, <2>1, CellsMove
  <2>3. QED
    BY <1>2, <1>5, <1>6, <1>7, <1>8, <1>9, <2>2, PromiseMoves
<1>11. CASE n \in Gates /\ s = "succeeded"
  <2>1. Succeeded(rows'[r][n]) = TRUE
    BY <1>4, <1>11 DEF Succeeded
  <2>2. c = [d EXCEPT ![r][n] = Succeeded(rows'[r][n])]
    BY <1>2, <1>5, <1>6, <1>7, <1>8, <1>11, CellsMove
  <2>3. c = [d EXCEPT ![r][n] = TRUE]
    BY <2>1, <2>2
  <2>4. SoundAt(rows[r], asks[r], n)
    BY <1>2 DEF Flow, SoundRuns
  <2>5. ~Open(asks[r][n])
    BY <1>1, <1>2, <2>4 DEF SoundAt
  <2>6. Newly(asks[r][n]) # "pending"
    BY <1>2, <2>5, OpenIsNewest
  <2>7. q[r][n] # "pending"
    BY <1>2, <1>5, <1>11, <2>6 DEF Questions
  <2>8. n \in Conditional
    BY <1>11
  <2>9. QED
    BY <1>2, <1>5, <1>6, <1>7, <1>8, <1>9, <1>11, <2>3, <2>7, <2>8, PromiseMoves
<1>12. QED
  BY <1>10, <1>11

\* A gate that asks opens a new question.
LEMMA OpenPromise ==
    ASSUME IInv, AskTypes, OneOpenQuestion, Flow(exec, rows, asks, api),
           NEW w \in Workers, NEW n \in Nodes, OpenGate(w, n), asks' # asks
    PROVE  [Promise!Next]_(Promise!vars)
<1>0. PICK s : s = "awaiting_approval"
  OBVIOUS
<1>x. PICK x : x = "halted"
  OBVIOUS
<1>s. s \in NodeStatus /\ Checkpoint(w, n, s, x) /\ Kind[n] = "gate"
  BY <1>0, <1>x DEF OpenGate, NodeStatus
<1>1. PICK e, f, r, old, u : /\ r = exec[w].run /\ old = rows[r][n] /\ u = rows'[r][n]
                             /\ Checkpointed(e, f, r, n, s, x, old, u, w)
  BY <1>s, CheckpointRow
<1>2. /\ r \in Runs /\ StatusOf(u) = s /\ StatusOf(old) \in {"running", "failed", "skipped"}
      /\ \A y \in Runs \ {r} : rows'[y] = rows[y]
      /\ \A m \in Nodes \ {n} : rows'[r][m] = rows[r][m]
  BY <1>1 DEF Checkpointed
<1>3. SoundAt(rows[r], asks[r], n)
  BY <1>2 DEF Flow, SoundRuns
<1>4. ~Open(asks[r][n]) /\ ~Approved(asks[r][n])
  BY <1>1, <1>2, <1>3 DEF SoundAt, Succeeded
<1>5. PICK seq : seq = asks[r][n]
  OBVIOUS
<1>6. seq \in Seq(AskStatus) /\ Len(seq) \in Nat /\ (seq # <<>> <=> Len(seq) >= 1)
  BY <1>2, <1>5, Listed
<1>7. asks' = [asks EXCEPT ![r][n] = Append(seq, "pending")]
  BY <1>1, <1>5 DEF OpenGate
<1>8. TouchesOnly(r, n) /\ asks'[r][n] = Append(seq, "pending")
  BY <1>2, <1>7 DEF TouchesOnly, AskTypes
<1>9. Newly(asks'[r][n]) = "pending"
  <2>1. PICK new : new = Append(seq, "pending")
    OBVIOUS
  <2>2. Len(new) = Len(seq) + 1 /\ new[Len(new)] = "pending" /\ new # <<>>
    BY <1>6, <2>1
  <2>3. QED
    BY <1>8, <2>1, <2>2 DEF Newly, Last
<1>10. Newly(seq) \in {"none", "rejected", "expired"}
  <2>1. seq # <<>> => Last(seq) \in AskStatus
    BY <1>6 DEF Last
  <2>2. seq # <<>> => Last(seq) # "approved"
    BY <1>4, <1>5 DEF Approved
  <2>3. Newly(seq) # "pending"
    BY <1>2, <1>4, <1>5, OpenIsNewest
  <2>4. QED
    BY <2>1, <2>2, <2>3 DEF Newly, AskStatus
<1>11. Succeeded(rows'[r][n]) = FALSE /\ Succeeded(rows[r][n]) = FALSE
  BY <1>0, <1>1, <1>2 DEF Succeeded
<1>12. n \in Gates
  BY <1>s DEF Gates
<1>13. PICK q : q = Questions
  OBVIOUS
<1>14. PICK p : p = Questions'
  OBVIOUS
<1>15. PICK d : d = Dones
  OBVIOUS
<1>16. PICK c : c = Dones'
  OBVIOUS
<1>a. TouchesOnly(r, n) /\ r \in Runs
  BY <1>2, <1>8
<1>b. Succeeded(rows'[r][n]) = Succeeded(rows[r][n])
  BY <1>11
<1>17. c = d
  BY <1>a, <1>b, <1>13, <1>14, <1>15, <1>16, CellsMove
<1>18. p = [q EXCEPT ![r][n] = Newly(asks'[r][n])]
  BY <1>a, <1>12, <1>13, <1>14, <1>15, <1>16, CellsMove
<1>19. p = [q EXCEPT ![r][n] = "pending"]
  BY <1>9, <1>18
<1>20. q[r][n] \in {"none", "rejected", "expired"} /\ ~d[r][n]
  BY <1>2, <1>5, <1>10, <1>11, <1>12, <1>13, <1>15 DEF Questions, Dones
<1>21. QED
  BY <1>2, <1>12, <1>13, <1>14, <1>15, <1>16, <1>17, <1>19, <1>20, PromiseMoves

\* A decision answers the question that is open, and the gate is done iff yes.
LEMMA DecidePromise ==
    ASSUME IInv, AskTypes, OneOpenQuestion, Flow(exec, rows, asks, api),
           NEW h \in Handlers, NEW verdict \in {"approved", "rejected"}, Decide(h, verdict)
    PROVE  Promise!Next
<1>1. PICK r, n, i, s : Answering(r, n, i, verdict, s)
  BY DecideKnows
<1>2. /\ r \in Runs /\ n \in Gates /\ n \in Nodes /\ TouchesOnly(r, n)
      /\ s = IF verdict = "approved" THEN "succeeded" ELSE "failed"
  BY <1>1, GateIsFirm DEF Answering
<1>3. PICK old : old = rows[r][n]
  OBVIOUS
<1>4. GoodTable(old) /\ DOMAIN old # {} /\ ~(StatusOf(old) = "succeeded")
  BY <1>1, <1>2, <1>3, Typed DEF Answering, StatusOf
<1>5. StatusOf(rows'[r][n]) = s
  <2>1. s \in NodeStatus
    BY <1>2 DEF NodeStatus
  <2>2. rows'[r][n] = SetLast(old, s)
    BY <1>1, <1>3 DEF Answering
  <2>3. QED
    BY <1>4, <2>1, <2>2, AnsweredRow
<1>6. PICK done : done = Succeeded(rows'[r][n])
  OBVIOUS
<1>7. done = (verdict = "approved")
  BY <1>2, <1>5, <1>6 DEF Succeeded
<1>8. Newly(asks[r][n]) = "pending"
  BY <1>1, <1>2, OpenIsNewest DEF Answering
<1>9. Newly(asks'[r][n]) = verdict
  <2>1. PICK seq : seq = asks[r][n]
    OBVIOUS
  <2>2. PICK new : new = asks'[r][n]
    OBVIOUS
  <2>3. seq \in Seq(AskStatus) /\ Len(seq) \in Nat /\ DOMAIN seq = 1 .. Len(seq)
    BY <1>2, <2>1, Listed
  <2>4. /\ i = Len(seq) /\ i \in 1 .. Len(seq) /\ new = [seq EXCEPT ![i] = verdict]
        /\ Len(new) = Len(seq)
    BY <1>1, <2>1, <2>2 DEF Answering
  <2>5. new[Len(new)] = verdict /\ new # <<>>
    BY <2>3, <2>4
  <2>6. QED
    BY <2>2, <2>5 DEF Newly, Last
<1>10. PICK q : q = Questions
  OBVIOUS
<1>11. PICK p : p = Questions'
  OBVIOUS
<1>12. PICK d : d = Dones
  OBVIOUS
<1>13. PICK c : c = Dones'
  OBVIOUS
<1>14. /\ p = [q EXCEPT ![r][n] = Newly(asks'[r][n])]
       /\ c = [d EXCEPT ![r][n] = Succeeded(rows'[r][n])]
  BY <1>2, <1>10, <1>11, <1>12, <1>13, CellsMove
<1>15. p = [q EXCEPT ![r][n] = verdict] /\ c = [d EXCEPT ![r][n] = (verdict = "approved")]
  BY <1>6, <1>7, <1>9, <1>14
<1>16. q[r][n] = "pending"
  BY <1>2, <1>8, <1>10 DEF Questions
<1>17. QED
  BY <1>2, <1>10, <1>11, <1>12, <1>13, <1>15, <1>16, PromiseMoves

\* A clearance is no business of a gate.
LEMMA ClearPromise ==
    ASSUME IInv, Flow(exec, rows, asks, api), NEW h \in Handlers, Clear(h), ~TidyRows
    PROVE  UNCHANGED Promise!vars
<1>1. PICK r, n : Clearing(r, n)
  BY ClearKnows
<1>2. r \in Runs /\ n \in Nodes /\ n \notin Gates /\ TouchesOnly(r, n)
  BY <1>1 DEF Clearing, Gates
<1>3. PICK q : q = Questions
  OBVIOUS
<1>4. PICK p : p = Questions'
  OBVIOUS
<1>5. PICK d : d = Dones
  OBVIOUS
<1>6. PICK c : c = Dones'
  OBVIOUS
<1>7. p = q /\ c = d
  BY <1>2, <1>3, <1>4, <1>5, <1>6, CellsMove
<1>8. QED
  BY <1>2, <1>3, <1>4, <1>5, <1>6, <1>7, PromiseMoves

\* Every step is a step of GateProtocol, or none.
LEMMA PromiseStep ==
    ASSUME IInv, IInv', AskTypes, OneOpenQuestion, Flow(exec, rows, asks, api), [Next]_vars
    PROVE  [Promise!Next]_(Promise!vars)
<1>0. AskStep
  BY EveryStepAsks
<1>1. CASE TidyRows /\ CalmAsks
  BY <1>0, <1>1, TidyPromise
<1>2. CASE UNCHANGED <<rows, asks>>
  BY <1>1, <1>2, SameTidies, SameCalms
<1>3. ASSUME NEW w \in Workers, NEW n \in Nodes, WritesRow(w, n)
      PROVE  [Promise!Next]_(Promise!vars)
  <2>1. CASE StartNode(w, n)
    BY <2>1, StartPromise
  <2>2. CASE OpenGate(w, n) /\ asks' # asks
    BY <2>2, OpenPromise
  <2>3. CASE \/ NodeSucceeds(w, n) \/ NodeFails(w, n) \/ OpenTask(w, n)
             \/ OpenGate(w, n) /\ asks' = asks
    <3>1. \E s \in NodeStatus, x \in {"ok", "failed", "backoff", "halted"} :
             /\ Checkpoint(w, n, s, x) /\ asks' = asks
             /\ s = "succeeded" => n \notin Gates \/ n \in Conditional
      <4>1. {"succeeded", "failed", "awaiting_approval", "awaiting_human_task"} \subseteq NodeStatus
        BY DEF NodeStatus
      <4>2. Kind[n] = "work" => n \notin Gates
        BY DEF Gates
      <4>3. QED
        BY <2>3, <4>1, <4>2 DEF NodeSucceeds, NodeFails, OpenTask, OpenGate
    <3>2. QED
      BY <3>1, CheckpointPromise
  <2>4. QED
    BY <1>3, <2>1, <2>2, <2>3 DEF WritesRow
<1>4. CASE \E w \in Workers : Work(w)
  BY <1>1, <1>3, <1>4, WorkerTidies DEF Work
<1>5. ASSUME NEW h \in Handlers,
             ControlStep(h) \/ DecisionStep(h) \/ ControlRequest(h) \/ DecisionRequest(h)
      PROVE  [Promise!Next]_(Promise!vars)
  <2>1. CASE Clear(h) /\ TidyRows
    BY <1>1, <2>1, SameCalms DEF Clear
  <2>2. CASE Clear(h) /\ ~TidyRows
    BY <2>2, ClearPromise
  <2>3. CASE \E verdict \in {"approved", "rejected"} : Decide(h, verdict)
    BY <2>3, DecidePromise
  <2>4. QED
    BY <1>1, <1>5, <2>1, <2>2, <2>3, RequestTidies
<1>6. CASE \E h \in Handlers : Serve(h)
  BY <1>5, <1>6 DEF Serve
<1>7. CASE \E r \in Runs : Expiry(r)
  BY <1>2, <1>7 DEF Expiry, BeatExpires
<1>8. CASE Sweep
  BY <1>1, <1>8, SweepTidies DEF Sweep
<1>9. CASE Surprise
  <2>1. \/ \E h \in Handlers : ControlRequest(h) \/ DecisionRequest(h)
        \/ \E w \in Workers : WorkerCrash(w)
        \/ UNCHANGED <<rows, asks>>
    BY <1>9 DEF Surprise, ApiCrash, SubmitTask, LockExpires, ReaperCrash
  <2>2. CASE \E w \in Workers : WorkerCrash(w)
    BY <1>1, <2>2, CrashTidies
  <2>3. QED
    BY <1>2, <1>5, <2>1, <2>2
<1>10. CASE UNCHANGED vars
  BY <1>2, <1>10 DEF vars
<1>11. QED
  BY <1>4, <1>6, <1>7, <1>8, <1>9, <1>10 DEF Next

-----------------------------------------------------------------------------
(* People take turns                                                        *)

\* Nobody cancels and nobody sweeps. Both end a run by what they saw of it, with
\* a worker at work on it.
NobodyInterferes == "cancel" \notin Requests /\ ~Sweeping

\* No two requests about one run are in progress at the same time.
TakesTurns ==
    \A g, h \in Handlers, r \in Runs : api[g].run = r /\ api[h].run = r => g = h

\* The two ways a run waits for a person.
Parked == {"awaiting_approval", "awaiting_human_task"}

\* A worker has the job and has not marked the run as running yet.
Early == {"loaded", "aborting", "swept"}

\* A worker has decided how its run ends, and has yet to write it.
Ending == {"ending", "finishing"}

\* A run with a worker at work on it says so, and has no job and no other worker.
WorkerFits(w, r) ==
    WorksOn(w, r) =>
        /\ jobs[r] = 0
        /\ exec[w].pc \in Early => status[r] = "queued" /\ exec[w].seen = "queued"
        /\ exec[w].pc \notin Early => status[r] = "running"
        /\ exec[w].pc \in Ending => exec[w].outcome \in Terminal
        /\ \A v \in Workers : WorksOn(v, r) => v = w

\* A run with a job is queued, and nobody works on it.
JobFits(r) ==
    /\ jobs[r] <= 1
    /\ jobs[r] > 0 => status[r] = "queued" /\ \A w \in Workers : ~WorksOn(w, r)

\* What a request in progress has seen of its run, or written to it, still holds.
RequestFits(h, r) ==
    api[h].run = r =>
        /\ api[h].pc \notin {"cancel_flag", "cancel_finish", "cancel_skip"}
        /\ api[h].pc = "launch_commit" => status[r] = "none"
        /\ api[h].pc \in {"launch_enqueue", "enqueue"} =>
              status[r] = "queued" /\ jobs[r] = 0 /\ \A w \in Workers : ~WorksOn(w, r)
        /\ \/ api[h].pc \in {"resume_lock", "reject_skip", "reject_finish"}
           \/ api[h].pc \in {"decide", "clear"} /\ api[h].seen \in Parked
           => status[r] \in Parked
        /\ api[h].pc \in {"retry_lock", "retry_reset", "retry_clear"} => status[r] \in Terminal
        /\ api[h].pc = "requeue" => status[r] \in Parked \cup Terminal

InTurn(r) ==
    /\ JobFits(r)
    /\ \A w \in Workers : WorkerFits(w, r)
    /\ \A h \in Handlers : RequestFits(h, r)

Orderly == reaper.pc = "resting" /\ \A r \in Runs : InTurn(r)

\* A run whose status and jobs stay is in turn as long as the workers at work on
\* it are the same, and the requests about it are.
LEMMA StaysInTurn ==
    ASSUME NEW r \in Runs, InTurn(r), status'[r] = status[r], jobs'[r] = jobs[r],
           \A w \in Workers : WorksOn(w, r)' =>
              /\ WorksOn(w, r)
              /\ exec'[w].seen = exec[w].seen
              /\ exec'[w].pc \in Early <=> exec[w].pc \in Early
              /\ exec'[w].pc \in Ending =>
                    exec'[w].outcome \in Terminal \/ (exec[w].pc \in Ending /\ exec'[w].outcome = exec[w].outcome),
           \A h \in Handlers : api'[h] = api[h] \/ RequestFits(h, r)'
    PROVE  InTurn(r)'
<1>1. JobFits(r)'
  BY DEF InTurn, JobFits
<1>2. ASSUME NEW w \in Workers PROVE WorkerFits(w, r)'
  BY DEF InTurn, WorkerFits
<1>3. ASSUME NEW h \in Handlers PROVE RequestFits(h, r)'
  <2>1. RequestFits(h, r)
    BY DEF InTurn
  <2>2. CASE api'[h] = api[h]
    BY <2>1, <2>2 DEF RequestFits
  <2>3. QED
    BY <2>2
<1>4. QED
  BY <1>1, <1>2, <1>3 DEF InTurn

\* The step of a worker leaves the status of its run and the queue alone.
Steady(w) ==
    /\ status' = status
    /\ jobs' = jobs
    /\ exec'[w].pc \in AtWork =>
          /\ exec[w].pc \in AtWork
          /\ exec'[w].run = exec[w].run
          /\ exec'[w].seen = exec[w].seen
          /\ exec'[w].pc \in Early <=> exec[w].pc \in Early
          /\ exec'[w].pc \in Ending =>
                exec'[w].outcome \in Terminal \/ (exec[w].pc \in Ending /\ exec'[w].outcome = exec[w].outcome)

\* Few steps of a worker do not.
LEMMA WorkerIsSteady ==
    ASSUME IInv, NEW w \in Workers, WorkerStep(w)
    PROVE  \/ \E r \in Runs : Dequeue(w, r)
           \/ AbortFinish(w) \/ MarkRunning(w) \/ ParkOnGate(w) \/ ParkOnTask(w) \/ FinishRun(w)
           \/ Steady(w)
<1>t. exec \in [Workers -> Job]
  BY DEF IInv, TypeOK, ExecTypeOK
<1> USE <1>t DEF Steady, Go, GoFinish, Job, AtWork, Early, Ending, Terminal
<1>1. CASE AbortRelease(w) \/ PauseRelease(w) \/ FinishRelease(w) \/ ClearCancel(w)
  BY <1>1 DEF AbortRelease, PauseRelease, FinishRelease, ClearCancel, Idle
<1>2. CASE Abort(w) \/ SweepStale(w) \/ FirstBeat(w)
  BY <1>2 DEF Abort, SweepStale, FirstBeat
<1>3. CASE BeginPass(w)
  BY <1>3 DEF BeginPass
<1>4. CASE PassesExhausted(w) \/ StopCancelled(w)
  BY <1>4 DEF PassesExhausted, StopCancelled
<1>5. CASE NextWave(w)
  BY <1>5 DEF NextWave
<1>6. CASE EndPass(w)
  BY <1>6 DEF EndPass
<1>7. ASSUME NEW n \in Nodes, NumberNode(w, n) \/ StartNode(w, n) \/ NumberTaken(w, n)
      PROVE  Steady(w)
  BY <1>7 DEF NumberNode, StartNode, NumberTaken
<1>8. ASSUME NEW n \in Nodes, \/ NodeSucceeds(w, n) \/ NodeFails(w, n) \/ RowLost(w, n)
                               \/ FindOpen(w, n) \/ GateTaken(w, n)
      PROVE  Steady(w)
  BY <1>8 DEF NodeSucceeds, NodeFails, Checkpoint, RowLost, FindOpen, GateTaken
<1>9. ASSUME NEW n \in Nodes, OpenGate(w, n) \/ OpenTask(w, n)
      PROVE  Steady(w)
  BY <1>9 DEF OpenGate, OpenTask, Checkpoint
<1>10. CASE EndWave(w)
  <2> DEFINE e == exec[w]
             ended(p) == {n \in Nodes : e.at[n] = p}
             outputs == e.outputs \cup ended("ok")
             cut == Downstream(ended("failed")) \ outputs
  <2>1. PICK next \in {"between", "over_budget"} :
          exec' = [exec EXCEPT ![w].pc = next, ![w].at = NotInWave,
                               ![w].tries = Idle.tries, ![w].base = Idle.base,
                               ![w].outputs = outputs,
                               ![w].halted = @ \cup ended("halted"),
                               ![w].waiting = @ \cup Downstream(ended("halted")),
                               ![w].blocked = @ \cup ended("failed") \cup cut]
    BY <1>10, Zenon DEF EndWave
  <2>2. exec[w].pc = "wave" /\ UNCHANGED <<status, jobs>>
    BY <1>10, Zenon DEF EndWave
  <2> HIDE DEF e, ended, outputs, cut
  <2>3. exec'[w].pc = next /\ exec'[w].run = exec[w].run /\ exec'[w].seen = exec[w].seen
    BY <2>1
  <2>4. QED
    BY <2>2, <2>3
<1>11. CASE StopBroken(w) \/ StopOverBudget(w)
  BY <1>11 DEF StopBroken, StopOverBudget
<1>12. CASE SkipUnreached(w) \/ ExpireGates(w)
  BY <1>12 DEF SkipUnreached, ExpireGates
<1>13. QED
  BY <1>1, <1>2, <1>3, <1>4, <1>5, <1>6, <1>7, <1>8, <1>9, <1>10, <1>11, <1>12 DEF WorkerStep

\* A step of a worker keeps every run in turn, and writes the status of no run
\* that has ended.
LEMMA WorkerKeepsTurns ==
    ASSUME IInv, Orderly, NEW w \in Workers, Work(w), NEW r \in Runs
    PROVE  InTurn(r)' /\ (status'[r] # status[r] => status[r] \notin Terminal)
<1>t. /\ exec \in [Workers -> Job] /\ jobs \in [Runs -> Nat] /\ status \in [Runs -> RunStatus]
      /\ \A v \in Workers : exec[v].pc # "idle" => exec[v].run \in Runs
  BY DEF IInv, TypeOK, ExecTypeOK, StateTypeOK, Seated
<1>a. Alone(w) /\ UNCHANGED api /\ WorkerStep(w)
  BY WorkerMoves DEF Work
<1>o. \A v \in Workers \ {w}, q \in Runs : exec'[v] = exec[v] /\ (WorksOn(v, q)' <=> WorksOn(v, q))
  BY <1>a DEF Alone, WorksOn
<1>s. InTurn(r) /\ JobFits(r) /\ WorkerFits(w, r)
  BY DEF Orderly, InTurn
<1>1. CASE Steady(w)
  <2>1. WorksOn(w, r)' => WorksOn(w, r) /\ exec'[w].seen = exec[w].seen
                          /\ (exec'[w].pc \in Early <=> exec[w].pc \in Early)
                          /\ (exec'[w].pc \in Ending =>
                                \/ exec'[w].outcome \in Terminal
                                \/ exec[w].pc \in Ending /\ exec'[w].outcome = exec[w].outcome)
    BY <1>1 DEF Steady, WorksOn
  <2>2. QED
    BY <1>1, <1>a, <1>o, <1>s, <2>1, StaysInTurn DEF Steady
<1>2. ASSUME exec[w].run # r, exec'[w].pc \in AtWork => exec'[w].run # r,
             status'[r] = status[r], jobs'[r] = jobs[r]
      PROVE  InTurn(r)' /\ (status'[r] # status[r] => status[r] \notin Terminal)
  <2>1. ~WorksOn(w, r)'
    BY <1>2 DEF WorksOn
  <2>2. QED
    BY <1>2, <1>a, <1>o, <1>s, <2>1, StaysInTurn
\* The worker takes the job of r, marks r as running, ends it or parks it.
<1>3. ASSUME \A v \in Workers \ {w} : ~WorksOn(v, r), jobs'[r] = 0,
             status[r] \in {"queued", "running"},
             \A h \in Handlers : api[h].run = r => api[h].pc \notin {"launch_enqueue", "enqueue"},
             \/ /\ ~WorksOn(w, r)'
                /\ status'[r] \in Parked \cup Terminal \cup {status[r]}
             \/ /\ WorksOn(w, r)' /\ exec'[w].pc \in Early
                /\ status'[r] = "queued" /\ exec'[w].seen = "queued"
             \/ WorksOn(w, r)' /\ exec'[w].pc \notin Early \cup Ending /\ status'[r] = "running"
      PROVE  InTurn(r)' /\ (status'[r] # status[r] => status[r] \notin Terminal)
  <2>1. JobFits(r)'
    BY <1>3 DEF JobFits
  <2>2. ASSUME NEW v \in Workers PROVE WorkerFits(v, r)'
    BY <1>3, <1>o DEF WorkerFits, Early, Ending
  <2>3. ASSUME NEW h \in Handlers PROVE RequestFits(h, r)'
    <3>1. RequestFits(h, r) /\ api' = api
      BY <1>a, <1>s DEF InTurn
    <3>2. status[r] \notin Parked \cup Terminal \cup {"none"}
      BY <1>3 DEF Parked, Terminal
    <3>3. QED
      BY <1>3, <3>1, <3>2 DEF RequestFits
  <2>4. status[r] \notin Terminal
    BY <1>3 DEF Terminal
  <2>5. QED
    BY <2>1, <2>2, <2>3, <2>4 DEF InTurn
\* Whoever is at work on r is so alone.
<1>4. ASSUME WorksOn(w, r)
      PROVE  /\ \A v \in Workers \ {w} : ~WorksOn(v, r)
             /\ jobs[r] = 0
             /\ status[r] \in {"queued", "running"}
             /\ exec[w].pc \in Early => status[r] = "queued" /\ exec[w].seen = "queued"
             /\ exec[w].pc \notin Early => status[r] = "running"
             /\ exec[w].pc \in Ending => exec[w].outcome \in Terminal
             /\ \A h \in Handlers : api[h].run = r => api[h].pc \notin {"launch_enqueue", "enqueue"}
  BY <1>s, <1>4 DEF WorkerFits, InTurn, RequestFits
<1>5. ASSUME NEW q \in Runs, Dequeue(w, q)
      PROVE  InTurn(r)' /\ (status'[r] # status[r] => status[r] \notin Terminal)
  <2>1. jobs[q] > 0 /\ jobs' = [jobs EXCEPT ![q] = @ - 1] /\ status' = status /\ exec[w].pc = "idle"
    BY <1>5 DEF Dequeue
  <2>2. JobFits(q) /\ InTurn(q)
    BY DEF Orderly, InTurn
  <2>3. status[q] = "queued" /\ jobs[q] = 1 /\ \A v \in Workers : ~WorksOn(v, q)
    BY <1>t, <2>1, <2>2 DEF JobFits
  <2>4. exec'[w].pc = "loaded" /\ exec'[w].run = q /\ exec'[w].seen = "queued"
    BY <1>5, <1>t, <2>3 DEF Dequeue, Terminal, Idle
  <2>5. CASE q = r
    <3>1. jobs'[r] = 0 /\ WorksOn(w, r)' /\ exec'[w].pc \in Early
      BY <1>t, <2>1, <2>3, <2>4, <2>5 DEF WorksOn, AtWork, Early
    <3>2. \A h \in Handlers : api[h].run = r => api[h].pc \notin {"launch_enqueue", "enqueue"}
      BY <1>s, <2>3, <2>5 DEF InTurn, RequestFits
    <3>3. QED
      BY <1>3, <2>1, <2>3, <2>4, <2>5, <3>1, <3>2
  <2>6. CASE q # r
    <3>1. ~WorksOn(w, r)' /\ jobs'[r] = jobs[r]
      BY <1>t, <2>1, <2>4, <2>6 DEF WorksOn
    <3>2. QED
      BY <1>a, <1>o, <1>s, <2>1, <3>1, StaysInTurn
  <2>7. QED
    BY <2>5, <2>6
<1>6. ASSUME AbortFinish(w) \/ MarkRunning(w) \/ ParkOnGate(w) \/ ParkOnTask(w) \/ FinishRun(w)
      PROVE  InTurn(r)' /\ (status'[r] # status[r] => status[r] \notin Terminal)
  <2>1. jobs' = jobs /\ exec[w].pc \in AtWork /\ exec'[w].run = exec[w].run
    BY <1>6, <1>t DEF AbortFinish, MarkRunning, ParkOnGate, ParkOnTask, FinishRun, Go, AtWork, Job
  <2>2. \A q \in Runs \ {exec[w].run} : status'[q] = status[q]
    BY <1>6, <1>t DEF AbortFinish, MarkRunning, ParkOnGate, ParkOnTask, FinishRun
  <2>3. CASE exec[w].run # r
    BY <1>2, <2>1, <2>2, <2>3
  <2>4. CASE exec[w].run = r
    <3>1. WorksOn(w, r)
      BY <2>1, <2>4 DEF WorksOn
    <3>2. CASE AbortFinish(w)
      <4>1. ~WorksOn(w, r)' /\ status'[r] = "failed"
        BY <1>t, <2>4, <3>2 DEF AbortFinish, Go, WorksOn, AtWork, Job
      <4>2. QED
        BY <1>3, <1>4, <2>1, <3>1, <4>1 DEF Terminal
    <3>3. CASE FinishRun(w)
      <4>1. exec[w].outcome \in Terminal
        BY <1>4, <3>1, <3>3 DEF FinishRun, Ending
      <4>2. ~WorksOn(w, r)' /\ status'[r] = exec[w].outcome
        BY <1>t, <2>4, <3>3 DEF FinishRun, Go, WorksOn, AtWork, Job
      <4>3. QED
        BY <1>3, <1>4, <2>1, <3>1, <4>1, <4>2
    <3>4. CASE MarkRunning(w)
      <4>1. exec[w].pc = "swept" /\ exec[w].seen = "queued"
        BY <1>4, <3>1, <3>4 DEF MarkRunning, Early
      <4>2. WorksOn(w, r)' /\ exec'[w].pc = "marked" /\ status'[r] = "running"
        BY <1>t, <2>4, <3>4, <4>1 DEF MarkRunning, WorksOn, AtWork, Job
      <4>3. exec'[w].pc \notin Early \cup Ending
        BY <4>2 DEF Early, Ending
      <4>4. QED
        BY <1>3, <1>4, <2>1, <3>1, <4>2, <4>3
    <3>5. CASE ParkOnGate(w) \/ ParkOnTask(w)
      <4>1. exec[w].pc \notin Early
        BY <3>5 DEF ParkOnGate, ParkOnTask, Early
      <4>2. \/ ~WorksOn(w, r)' /\ status'[r] \in Parked
            \/ WorksOn(w, r)' /\ exec'[w].pc \notin Early \cup Ending /\ status'[r] = status[r]
        BY <1>t, <2>4, <3>5 DEF ParkOnGate, ParkOnTask, Go, WorksOn, AtWork, Early, Ending, Parked, Job
      <4>3. QED
        BY <1>3, <1>4, <2>1, <3>1, <4>1, <4>2
    <3>6. QED
      BY <1>6, <3>2, <3>3, <3>4, <3>5
  <2>5. QED
    BY <2>3, <2>4
<1>7. QED
  BY <1>1, <1>5, <1>6, <1>a, WorkerIsSteady

\* A request that is the only one about its run does to it what it likes, as long
\* as nobody works on it.
LEMMA AloneInTurn ==
    ASSUME NEW h \in Handlers, NEW r \in Runs, api[h].run = r, TakesTurns, Apart(h),
           UNCHANGED exec, \A w \in Workers : ~WorksOn(w, r),
           jobs'[r] = 0 \/ (jobs'[r] = 1 /\ status'[r] = "queued"),
           RequestFits(h, r)'
    PROVE  InTurn(r)'
<1>1. \A w \in Workers : ~WorksOn(w, r)'
  BY DEF WorksOn
<1>2. JobFits(r)' /\ \A w \in Workers : WorkerFits(w, r)'
  BY <1>1 DEF JobFits, WorkerFits
<1>3. ASSUME NEW g \in Handlers \ {h} PROVE RequestFits(g, r)'
  <2>1. api'[g] = api[g] /\ api[g].run # r
    BY DEF Apart, TakesTurns
  <2>2. QED
    BY <2>1 DEF RequestFits
<1>4. QED
  BY <1>2, <1>3 DEF InTurn

\* Nobody works on a run that is neither queued nor running, and it has no job.
LEMMA NobodyWorks ==
    ASSUME NEW r \in Runs, InTurn(r), jobs[r] \in Nat, status[r] \notin {"queued", "running"}
    PROVE  jobs[r] = 0 /\ \A w \in Workers : ~WorksOn(w, r)
BY DEF InTurn, JobFits, WorkerFits

\* So does a step of a request, and the only ended run whose status it writes is
\* the one it retries.
LEMMA RequestKeepsTurns ==
    ASSUME IInv, Orderly, TakesTurns, NobodyInterferes, NEW h \in Handlers,
           UNCHANGED <<exec, reaper>>,
           \/ ControlStep(h) \/ DecisionStep(h) \/ ControlRequest(h) \/ DecisionRequest(h)
           \/ ApiCrash(h),
           NEW r \in Runs
    PROVE  /\ InTurn(r)'
           /\ status'[r] # status[r] =>
                 \/ status[r] \notin Terminal
                 \/ status'[r] = "queued" /\ api[h].pc = "requeue" /\ api[h].run = r
<1>t. /\ api \in [Handlers -> Handler] /\ jobs \in [Runs -> Nat] /\ status \in [Runs -> RunStatus]
      /\ NoRun # r
  BY RunAssumption DEF IInv, TypeOK, ControlTypeOK, StateTypeOK
<1>a. Apart(h)
  BY RequestsMoveAlone
<1>s. InTurn(r) /\ RequestFits(h, r) /\ jobs[r] \in Nat
  BY <1>t DEF Orderly, InTurn
\* The run keeps its status and its jobs.
<1>k. ASSUME status'[r] = status[r], jobs'[r] = jobs[r], RequestFits(h, r)'
      PROVE  InTurn(r)'
  <2>1. \A w \in Workers : /\ WorksOn(w, r)' <=> WorksOn(w, r)
                           /\ exec'[w] = exec[w]
    BY DEF WorksOn
  <2>2. \A g \in Handlers : api'[g] = api[g] \/ RequestFits(g, r)'
    BY <1>a, <1>k DEF Apart
  <2>3. \A w \in Workers : WorksOn(w, r)' =>
              /\ WorksOn(w, r)
              /\ exec'[w].seen = exec[w].seen
              /\ exec'[w].pc \in Early <=> exec[w].pc \in Early
              /\ exec'[w].pc \in Ending =>
                    exec'[w].outcome \in Terminal \/ (exec[w].pc \in Ending /\ exec'[w].outcome = exec[w].outcome)
    BY <2>1
  <2>4. QED
    BY <1>s, <1>k, <2>2, <2>3, StaysInTurn
<1>1. CASE ControlRequest(h) \/ DecisionRequest(h)
  <2>1. status' = status /\ jobs' = jobs
    BY <1>1 DEF ControlRequest, DecisionRequest, LaunchLock, CancelLoad, RetryLoad, DecideLoad, ClearLoad
  <2>2. CASE ControlRequest(h)
    <3>1. PICK q \in Runs : LaunchLock(h, q) \/ RetryLoad(h, q)
      BY <2>2 DEF ControlRequest, NobodyInterferes
    <3>2. /\ api'[h].run = q
          /\ \/ api'[h].pc = "launch_commit" /\ status[q] = "none"
             \/ api'[h].pc = "retry_lock" /\ status[q] \in Terminal
      BY <1>t, <3>1 DEF LaunchLock, RetryLoad, Load, Free
    <3>3. RequestFits(h, r)'
      BY <2>1, <3>2 DEF RequestFits
    <3>4. QED
      BY <1>k, <2>1, <3>3
  <2>3. CASE DecisionRequest(h)
    <3>1. PICK q, n : q \in Runs /\ n \in Nodes /\ (DecideLoad(h, q, n) \/ ClearLoad(h, q, n))
      BY <2>3 DEF DecisionRequest
    <3>2. /\ api'[h].pc \in {"decide", "clear"}
          /\ api'[h].run = q /\ api'[h].seen = status[q]
      BY <1>t, <3>1 DEF DecideLoad, ClearLoad
    <3>3. RequestFits(h, r)'
      BY <2>1, <3>2 DEF RequestFits
    <3>4. QED
      BY <1>k, <2>1, <3>3
  <2>4. QED
    BY <1>1, <2>2, <2>3
<1>2. CASE ApiCrash(h)
  <2>1. RequestFits(h, r)' /\ status' = status /\ jobs' = jobs
    BY <1>2, <1>t DEF ApiCrash, Done, Free, RequestFits
  <2>2. QED
    BY <1>k, <2>1
<1>3. CASE ControlStep(h)
  <2>1. CASE api[h].run # r
    <3>1. status'[r] = status[r] /\ jobs'[r] = jobs[r] /\ api'[h].run # r
      BY <1>3, <1>t, <2>1, SMTT(30)
         DEF ControlStep, LaunchCommit, LaunchCommitFails, LaunchEnqueue, LaunchFails, CancelFlag,
             CancelFinish, CancelSkip, CloseQuestions, ReleaseLock, RetryLock, RetryReset, RetryClear,
             Requeue, Enqueue, EnqueueFails, To, Done, Free, Handler
    <3>2. QED
      BY <1>k, <3>1 DEF RequestFits
  <2>2. CASE api[h].run = r
    <3>1. ~(CancelFlag(h) \/ CancelFinish(h) \/ CancelSkip(h))
      BY <1>s, <2>2 DEF RequestFits, CancelFlag, CancelFinish, CancelSkip
    <3>2. CASE LaunchCommitFails(h) \/ CloseQuestions(h) \/ ReleaseLock(h) \/ EnqueueFails(h)
      <4>1. RequestFits(h, r)' /\ status' = status /\ jobs' = jobs
        BY <1>t, <3>2 DEF LaunchCommitFails, CloseQuestions, ReleaseLock, EnqueueFails, To, Done,
           Free, Handler, RequestFits
      <4>2. QED
        BY <1>k, <4>1
    <3>3. CASE RetryLock(h) \/ RetryReset(h) \/ RetryClear(h)
      <4>1. status[r] \in Terminal
        BY <1>s, <2>2, <3>3 DEF RequestFits, RetryLock, RetryReset, RetryClear
      <4>2. status' = status /\ jobs' = jobs
        BY <3>3 DEF RetryLock, RetryReset, RetryClear
      <4>3. api'[h].pc \in {"free", "retry_reset", "retry_clear", "release", "requeue"}
        BY <1>t, <3>3 DEF RetryLock, RetryReset, RetryClear, To, Done, Free, Handler
      <4>4. RequestFits(h, r)'
        BY <4>1, <4>2, <4>3 DEF RequestFits
      <4>5. QED
        BY <1>k, <4>2, <4>4
    <3>4. CASE LaunchCommit(h) \/ Requeue(h)
      <4>1. /\ status'[r] = "queued" /\ jobs' = jobs
            /\ api'[h].pc \in {"launch_enqueue", "enqueue"} /\ api[h].pc \in {"launch_commit", "requeue"}
            /\ LaunchCommit(h) => api[h].pc = "launch_commit"
            /\ Requeue(h) => api[h].pc = "requeue"
        BY <1>t, <2>2, <3>4 DEF LaunchCommit, Requeue, To, Handler
      <4>2. /\ status[r] \in {"none"} \cup Parked \cup Terminal
            /\ api[h].pc = "launch_commit" => status[r] = "none"
        BY <1>s, <2>2, <4>1 DEF RequestFits
      <4>3. jobs[r] = 0 /\ \A w \in Workers : ~WorksOn(w, r)
        BY <1>s, <4>2, NobodyWorks DEF Parked, Terminal
      <4>4. RequestFits(h, r)'
        BY <4>1, <4>3 DEF RequestFits, WorksOn
      <4>5. InTurn(r)'
        BY <1>a, <2>2, <4>1, <4>3, <4>4, AloneInTurn
      <4>6. status[r] \notin Terminal \/ api[h].pc = "requeue"
        BY <4>1, <4>2 DEF Terminal
      <4>7. QED
        BY <2>2, <4>1, <4>5, <4>6
    <3>5. CASE LaunchEnqueue(h) \/ Enqueue(h)
      <4>1. status[r] = "queued" /\ jobs[r] = 0 /\ \A w \in Workers : ~WorksOn(w, r)
        BY <1>s, <2>2, <3>5 DEF RequestFits, LaunchEnqueue, Enqueue
      <4>2. /\ status' = status /\ jobs'[r] = 1 /\ api'[h].pc = "free"
        BY <1>t, <2>2, <3>5, <4>1 DEF LaunchEnqueue, Enqueue, Done, Free
      <4>3. RequestFits(h, r)'
        BY <4>2 DEF RequestFits
      <4>4. QED
        BY <1>a, <2>2, <4>1, <4>2, <4>3, AloneInTurn
    <3>6. CASE LaunchFails(h)
      <4>1. status[r] = "queued" /\ jobs[r] = 0 /\ \A w \in Workers : ~WorksOn(w, r)
        BY <1>s, <2>2, <3>6 DEF RequestFits, LaunchFails
      <4>2. jobs' = jobs /\ api'[h].pc = "release"
        BY <1>t, <3>6 DEF LaunchFails, To, Handler
      <4>3. RequestFits(h, r)'
        BY <4>2 DEF RequestFits
      <4>4. InTurn(r)'
        BY <1>a, <2>2, <4>1, <4>2, <4>3, AloneInTurn
      <4>5. QED
        BY <4>1, <4>4 DEF Terminal
    <3>7. QED
      BY <1>3, <3>1, <3>2, <3>3, <3>4, <3>5, <3>6 DEF ControlStep
  <2>3. QED
    BY <2>1, <2>2
<1>4. CASE DecisionStep(h)
  <2>1. CASE api[h].run # r
    <3>1. /\ status'[r] = status[r] /\ jobs'[r] = jobs[r]
          /\ Done(h) \/ \E pc \in ApiPc : To(h, pc)
      BY <1>4, <1>t, <2>1, Zenon
         DEF DecisionStep, Decide, DecideConflict, ResumeLock, RejectSkip, RejectFinish, Clear, ApiPc
    <3>2. api'[h].run # r
      BY <1>t, <2>1, <3>1 DEF To, Done, Free, Handler
    <3>3. QED
      BY <1>k, <3>1, <3>2 DEF RequestFits
  <2>2. CASE api[h].run = r
    <3>1. CASE DecideConflict(h)
      <4>1. RequestFits(h, r)' /\ status' = status /\ jobs' = jobs
        BY <1>t, <3>1 DEF DecideConflict, Done, Free, RequestFits
      <4>2. QED
        BY <1>k, <4>1
    <3>2. CASE (\E verdict \in {"approved", "rejected"} : Decide(h, verdict)) \/ Clear(h)
      <4>1. /\ status' = status /\ jobs' = jobs
            /\ \/ api'[h].pc = "free"
               \/ /\ api[h].pc \in {"decide", "clear"} /\ api[h].seen \in Parked
                  /\ api'[h].pc \in {"resume_lock", "reject_skip"}
        BY <1>t, <3>2 DEF Decide, Clear, To, Done, Free, Handler, Parked
      <4>2. RequestFits(h, r)'
        BY <1>s, <2>2, <4>1 DEF RequestFits
      <4>3. QED
        BY <1>k, <4>1, <4>2
    <3>3. CASE ResumeLock(h) \/ RejectSkip(h)
      <4>1. status[r] \in Parked
        BY <1>s, <2>2, <3>3 DEF RequestFits, ResumeLock, RejectSkip
      <4>2. /\ status' = status /\ jobs' = jobs
            /\ api'[h].pc \in {"free", "requeue", "reject_finish"}
        BY <1>t, <3>3 DEF ResumeLock, RejectSkip, To, Done, Free, Handler
      <4>3. RequestFits(h, r)'
        BY <4>1, <4>2 DEF RequestFits
      <4>4. QED
        BY <1>k, <4>2, <4>3
    <3>4. CASE RejectFinish(h)
      <4>1. status[r] \in Parked
        BY <1>s, <2>2, <3>4 DEF RequestFits, RejectFinish
      <4>2. jobs[r] = 0 /\ \A w \in Workers : ~WorksOn(w, r)
        BY <1>s, <4>1, NobodyWorks DEF Parked
      <4>3. jobs' = jobs /\ api'[h].pc = "expire"
        BY <1>t, <3>4 DEF RejectFinish, To, Handler
      <4>4. RequestFits(h, r)'
        BY <4>3 DEF RequestFits
      <4>5. InTurn(r)'
        BY <1>a, <2>2, <4>2, <4>3, <4>4, AloneInTurn
      <4>6. QED
        BY <4>1, <4>5 DEF Parked, Terminal
    <3>5. QED
      BY <1>4, <3>1, <3>2, <3>3, <3>4 DEF DecisionStep
  <2>3. QED
    BY <2>1, <2>2
<1>5. QED
  BY <1>1, <1>2, <1>3, <1>4

\* Orderly is kept while people take turns, and a run that ended stays ended
\* unless it is retried.
LEMMA TurnsStep ==
    ASSUME IInv, Orderly, TakesTurns, NobodyInterferes, [Next]_vars
    PROVE  /\ Orderly'
           /\ \A r \in Runs : status[r] \in Terminal /\ status'[r] # status[r] =>
                 status'[r] = "queued" /\ \E h \in Handlers : api[h].pc = "requeue" /\ api[h].run = r
<1> DEFINE Final(r) == status[r] \in Terminal /\ status'[r] # status[r] =>
                 status'[r] = "queued" /\ \E h \in Handlers : api[h].pc = "requeue" /\ api[h].run = r
<1>0. reaper.pc = "resting" /\ exec \in [Workers -> Job]
  BY DEF Orderly, IInv, TypeOK, ExecTypeOK
<1>1. SUFFICES reaper'.pc = "resting" /\ \A r \in Runs : InTurn(r)' /\ Final(r)
  BY DEF Orderly
<1>2. ASSUME NEW w \in Workers, Work(w)
      PROVE  reaper'.pc = "resting" /\ \A r \in Runs : InTurn(r)' /\ Final(r)
  BY <1>0, <1>2, WorkerKeepsTurns DEF Work
<1>3. ASSUME NEW h \in Handlers, UNCHANGED <<exec, reaper>>,
             \/ ControlStep(h) \/ DecisionStep(h) \/ ControlRequest(h) \/ DecisionRequest(h)
             \/ ApiCrash(h)
      PROVE  reaper'.pc = "resting" /\ \A r \in Runs : InTurn(r)' /\ Final(r)
  BY <1>0, <1>3, RequestKeepsTurns
\* What touches no run.
<1>4. ASSUME UNCHANGED <<status, jobs, api>>, reaper'.pc = "resting",
             \A w \in Workers : exec'[w] = exec[w] \/ exec'[w] = Idle
      PROVE  reaper'.pc = "resting" /\ \A r \in Runs : InTurn(r)' /\ Final(r)
  <2> SUFFICES ASSUME NEW r \in Runs PROVE InTurn(r)'
    BY <1>4
  <2>1. ASSUME NEW w \in Workers, WorksOn(w, r)' PROVE exec'[w] = exec[w] /\ WorksOn(w, r)
    BY <1>4, <2>1 DEF WorksOn, AtWork, Idle
  <2>2. InTurn(r)
    BY DEF Orderly
  <2>3. \A w \in Workers : WorksOn(w, r)' =>
              /\ WorksOn(w, r)
              /\ exec'[w].seen = exec[w].seen
              /\ exec'[w].pc \in Early <=> exec[w].pc \in Early
              /\ exec'[w].pc \in Ending =>
                    exec'[w].outcome \in Terminal \/ (exec[w].pc \in Ending /\ exec'[w].outcome = exec[w].outcome)
    BY <2>1, <2>2 DEF InTurn, WorkerFits
  <2>4. QED
    BY <1>4, <2>2, <2>3, StaysInTurn
<1>5. CASE Sweep
  BY <1>0, <1>5 DEF Sweep, ReaperStep, ListStale, CheckBeat, ReapLoad, ReapFinish, ReapExpire,
     ReapRelease, NobodyInterferes
<1>6. CASE Surprise
  <2>1. ASSUME NEW w \in Workers, WorkerCrash(w) /\ UNCHANGED <<api, retries, reaper>>
        PROVE  reaper'.pc = "resting" /\ \A r \in Runs : InTurn(r)' /\ Final(r)
    <3>1. UNCHANGED <<status, jobs, api>> /\ reaper'.pc = "resting"
      BY <1>0, <2>1 DEF WorkerCrash
    <3>2. \A v \in Workers : exec'[v] = exec[v] \/ exec'[v] = Idle
      BY <1>0, <2>1 DEF WorkerCrash
    <3>3. QED
      BY <1>4, <3>1, <3>2
  <2>2. ASSUME UNCHANGED <<status, jobs, api, exec, reaper>>
        PROVE  reaper'.pc = "resting" /\ \A r \in Runs : InTurn(r)' /\ Final(r)
    BY <1>0, <1>4, <2>2
  <2>3. \/ \E h \in Handlers : (ControlRequest(h) \/ DecisionRequest(h) \/ ApiCrash(h))
                               /\ UNCHANGED <<exec, reaper>>
        \/ \E w \in Workers : WorkerCrash(w) /\ UNCHANGED <<api, retries, reaper>>
        \/ UNCHANGED <<status, jobs, api, exec, reaper>>
    BY <1>0, <1>6 DEF Surprise, SubmitTask, LockExpires, ReaperCrash
  <2>4. QED
    BY <1>3, <2>1, <2>2, <2>3
<1>7. CASE (\E r \in Runs : Expiry(r)) \/ UNCHANGED vars
  <2>1. UNCHANGED <<status, jobs, api, exec, reaper>>
    BY <1>7 DEF Expiry, BeatExpires, vars
  <2>2. QED
    BY <1>0, <1>4, <2>1
<1>8. QED
  BY <1>2, <1>3, <1>5, <1>6, <1>7 DEF Next, Serve

\* Nothing is out of turn before the first launch.
LEMMA TurnsInit == Init => IInv /\ Orderly
<1> SUFFICES ASSUME Init PROVE Orderly
  BY InitTyped
<1>1. /\ reaper.pc = "resting"
      /\ \A w \in Workers : exec[w].pc = "idle"
      /\ \A h \in Handlers : api[h].pc = "free"
      /\ \A r \in Runs : jobs[r] = 0
  BY DEF Init, StateInit, ExecInit, ControlInit, ReaperInit, Idle, Free, Resting
<1>2. \A w \in Workers, r \in Runs : ~WorksOn(w, r)
  BY <1>1 DEF WorksOn, AtWork
<1>3. QED
  BY <1>1, <1>2 DEF Orderly, InTurn, JobFits, WorkerFits, RequestFits

\* As long as people take turns, no run ever has two workers at work on it, with
\* any number of job slots and any crash: whoever resumes or retries a run found
\* it at rest, and nobody else did. Two decisions on one run at once put two
\* workers into it (double_resume).
THEOREM TurnsExclude == NobodyInterferes => (Spec /\ []TakesTurns => []OneExecutor)
<1> SUFFICES ASSUME NobodyInterferes PROVE Spec /\ []TakesTurns => []OneExecutor
  OBVIOUS
<1>1. Init => IInv /\ Orderly
  BY TurnsInit
<1>2. IInv /\ Orderly /\ TakesTurns /\ [Next]_vars => IInv' /\ Orderly'
  BY StepTyped, TurnsStep
<1>3. Orderly => OneExecutor
  BY DEF Orderly, InTurn, WorkerFits, OneExecutor
<1>4. QED
  BY <1>1, <1>2, <1>3, PTL DEF Spec

\* ... and what ended stays ended, unless somebody retries it: no worker, launch
\* or rejection writes its status over the end of a run (finish_run,
\* mark_running, approvals.park, _close_rejected).
THEOREM EndsAreFinal == NobodyInterferes => (Spec /\ []TakesTurns => EndIsFinal)
<1> SUFFICES ASSUME NobodyInterferes PROVE Spec /\ []TakesTurns => EndIsFinal
  OBVIOUS
<1>1. Init => IInv /\ Orderly
  BY TurnsInit
<1>2. IInv /\ Orderly /\ TakesTurns /\ [Next]_vars => IInv' /\ Orderly'
  BY StepTyped, TurnsStep
<1>3. IInv /\ Orderly /\ TakesTurns /\ [Next]_vars =>
        [\A r \in Runs :
          status[r] \in Terminal /\ status'[r] # status[r] =>
              status'[r] = "queued" /\ \E h \in Handlers : api[h].pc = "requeue" /\ api[h].run = r]_vars
  BY TurnsStep
<1>4. QED
  BY <1>1, <1>2, <1>3, PTL DEF Spec, EndIsFinal

-----------------------------------------------------------------------------
(* What the flow shows                                                      *)

\* The invariant of the wave loop and the questions, for a specification under
\* which no run ever has two workers at work on it.
Working == IInv /\ AskTypes /\ OneOpenQuestion /\ Flow(exec, rows, asks, api)

\* It holds when nothing has been launched.
LEMMA WorkingInit == Init => Working
BY InitTyped, InitFlows DEF Working, Init, StateInit, AskTypes, OneOpenQuestion

\* Every step keeps it.
LEMMA WorkingStep == Working /\ OneExecutor /\ [Next]_vars => Working'
<1> SUFFICES ASSUME Working, OneExecutor, [Next]_vars PROVE Working'
  OBVIOUS
<1>1. IInv /\ AskTypes /\ OneOpenQuestion /\ Flow(exec, rows, asks, api)
  BY DEF Working
<1>2. IInv'
  BY <1>1, StepTyped
<1>3. AskTypes'
  BY <1>1, EveryStepAsks, GateSteps
<1>4. OneOpenQuestion'
  BY <1>1, NewestStaysOpen
<1>5. Flow(exec', rows', asks', api')
  BY <1>1, <1>2, FlowKept
<1>6. QED
  BY <1>2, <1>3, <1>4, <1>5 DEF Working

\* What the rows of a gate say of its questions: an open question has an attempt
\* that awaits the answer, and such an attempt is in flight in no worker.
Awaits(table) == \E a \in DOMAIN table : table[a].status = "awaiting_approval"
Unheld(table) ==
    \A a \in DOMAIN table : table[a].status = "awaiting_approval" => table[a].by = NoWorker
BackedAt(table, seq) == (Open(seq) => Awaits(table)) /\ Unheld(table)

\* What keeps it, however many workers are at work on a run.
Backed ==
    /\ IInv /\ AskTypes /\ OneOpenQuestion
    /\ \A h \in Handlers : Served(api[h], asks)
    /\ \A r \in Runs, n \in Nodes : BackedAt(rows[r][n], asks[r][n])

\* Housekeeping keeps it.
LEMMA TidyBacks ==
    ASSUME NEW old, NEW new, NEW q, NEW p, BackedAt(old, q), Tidy(old, new), Calm(q, p)
    PROVE  BackedAt(new, p)
<1>1. Open(p) => Awaits(new)
  BY DEF BackedAt, Awaits, Tidy, Calm
<1>2. Unheld(new)
  BY DEF BackedAt, Unheld, Tidy
<1>3. QED
  BY <1>1, <1>2 DEF BackedAt

\* A person's answer, and a clearance, end what awaits and start nothing.
LEMMA SetLastBacks ==
    ASSUME NEW table, GoodTable(table), NEW s \in {"succeeded", "failed"}, Unheld(table)
    PROVE  /\ Unheld(SetLast(table, s))
           /\ StatusOf(table) # "awaiting_approval" /\ Awaits(table) => Awaits(SetLast(table, s))
<1>1. PICK new : new = SetLast(table, s)
  OBVIOUS
<1>2. CASE DOMAIN table = {}
  BY <1>1, <1>2 DEF SetLast, Awaits
<1>3. CASE DOMAIN table # {}
  <2>1. PICK a : a = Newest(table)
    OBVIOUS
  <2>2. a \in DOMAIN table /\ \A b \in DOMAIN table : table[b] \in RowTable
    BY <1>3, <2>1, NewestIsGreatest DEF GoodTable, IsTable
  <2>3. new = [table EXCEPT ![a].status = s] /\ StatusOf(table) = table[a].status
    BY <1>1, <1>3, <2>1 DEF SetLast, StatusOf
  <2>4. /\ DOMAIN new = DOMAIN table /\ new[a].status = s
        /\ \A b \in DOMAIN table \ {a} : new[b] = table[b]
    BY <2>2, <2>3 DEF RowTable
  <2>5. Unheld(new)
    BY <2>4 DEF Unheld
  <2>6. table[a].status # "awaiting_approval" /\ Awaits(table) => Awaits(new)
    BY <2>4 DEF Awaits
  <2>7. QED
    BY <1>1, <2>3, <2>5, <2>6
<1>4. QED
  BY <1>2, <1>3

\* One row is rewritten that no question rests on.
LEMMA RowBacks ==
    ASSUME NEW old, NEW new, NEW a, NEW q, NEW p, BackedAt(old, q),
           \A b \in DOMAIN old \ {a} : b \in DOMAIN new /\ new[b] = old[b],
           DOMAIN new \subseteq DOMAIN old \cup {a},
           a \in DOMAIN new,
           a \in DOMAIN old => old[a].status # "awaiting_approval",
           new[a].status = "awaiting_approval" => new[a].by = NoWorker,
           Open(p) => Open(q) \/ new[a].status = "awaiting_approval"
    PROVE  BackedAt(new, p)
<1>1. Open(p) => Awaits(new)
  BY DEF BackedAt, Awaits
<1>2. Unheld(new)
  BY DEF BackedAt, Unheld
<1>3. QED
  BY <1>1, <1>2 DEF BackedAt

\* A worker rewrites only what it holds, and asks only with the proposal.
LEMMA WritesBack ==
    ASSUME Backed, NEW w \in Workers, NEW n \in Nodes, WritesRow(w, n),
           NEW q \in Runs, NEW m \in Nodes
    PROVE  BackedAt(rows'[q][m], asks'[q][m])
<1>1. PICK r : r = exec[w].run
  OBVIOUS
<1>2. PICK old : old = rows[r][n]
  OBVIOUS
<1>3. PICK u : u = rows'[r][n]
  OBVIOUS
<1>4. IInv /\ AskTypes /\ BackedAt(rows[q][m], asks[q][m])
  BY DEF Backed
<1>5. rows = [x \in Runs |-> [y \in Nodes |-> rows[x][y]]]
  BY <1>4 DEF IInv, TypeOK, StateTypeOK
<1>6. exec[w].pc # "idle" => r \in Runs
  BY <1>1, <1>4, Typed
<1>7. ASSUME NEW a, a \in DOMAIN u, r \in Runs,
             \A b \in DOMAIN old \ {a} : b \in DOMAIN u /\ u[b] = old[b],
             DOMAIN u \subseteq DOMAIN old \cup {a},
             a \in DOMAIN old => old[a].status # "awaiting_approval",
             u[a].status = "awaiting_approval" => u[a].by = NoWorker,
             Open(asks'[r][n]) => Open(asks[r][n]) \/ u[a].status = "awaiting_approval",
             \A x \in Runs, y \in Nodes : ~(x = r /\ y = n) =>
                 rows'[x][y] = rows[x][y] /\ asks'[x][y] = asks[x][y]
      PROVE  BackedAt(rows'[q][m], asks'[q][m])
  <2>1. CASE q = r /\ m = n
    <3>1. BackedAt(old, asks[r][n])
      BY <1>2, <1>4, <2>1
    <3>2. BackedAt(u, asks'[r][n])
      BY <1>7, <3>1, RowBacks
    <3>3. QED
      BY <1>3, <2>1, <3>2
  <2>2. CASE ~(q = r /\ m = n)
    <3>1. rows'[q][m] = rows[q][m] /\ asks'[q][m] = asks[q][m]
      BY <1>7, <2>2
    <3>2. QED
      BY <1>4, <3>1
  <2>3. QED
    BY <2>1, <2>2
<1>8. CASE StartNode(w, n)
  <2>1. PICK a : a = Attempt(w, n)
    OBVIOUS
  <2>2. /\ r \in Runs /\ a \notin DOMAIN old /\ asks' = asks
        /\ rows' = [rows EXCEPT ![r][n] = WithRow(old, a, Row("running", w))]
    BY <1>1, <1>2, <1>6, <1>8, <2>1 DEF StartNode
  <2>3. /\ u = WithRow(old, a, Row("running", w))
        /\ \A x \in Runs, y \in Nodes : ~(x = r /\ y = n) => rows'[x][y] = rows[x][y]
    BY <1>3, <1>5, <2>2
  <2>4. /\ DOMAIN u = DOMAIN old \cup {a} /\ u[a] = [status |-> "running", by |-> w]
        /\ \A b \in DOMAIN old : u[b] = old[b]
    BY <2>2, <2>3 DEF WithRow, Row
  <2>5. QED
    BY <1>7, <2>2, <2>3, <2>4
<1>9. ASSUME NEW s, NEW p, Checkpoint(w, n, s, p),
             \/ asks' = asks
             \/ s = "awaiting_approval" /\ \E seq : asks' = [asks EXCEPT ![r][n] = seq]
      PROVE  BackedAt(rows'[q][m], asks'[q][m])
  <2>1. r \in Runs
    BY <1>6, <1>9 DEF Checkpoint
  <2>2. PICK i \in Held(w, n) : rows' = [rows EXCEPT ![r][n][i] = Row(s, NoWorker)]
    BY <1>1, <1>9 DEF Checkpoint
  <2>3. i \in DOMAIN old /\ old[i].by = w /\ w # NoWorker
    BY <1>1, <1>2, RunAssumption DEF Held
  <2>4. /\ u = [old EXCEPT ![i] = Row(s, NoWorker)]
        /\ \A x \in Runs, y \in Nodes : ~(x = r /\ y = n) => rows'[x][y] = rows[x][y]
    BY <1>2, <1>3, <1>5, <2>1, <2>2
  <2>5. /\ DOMAIN u = DOMAIN old /\ u[i].status = s /\ u[i].by = NoWorker
        /\ \A b \in DOMAIN old \ {i} : u[b] = old[b]
    BY <2>3, <2>4 DEF Row
  <2>6. old[i].status # "awaiting_approval"
    <3>1. BackedAt(old, asks[r][n])
      BY <1>2, <2>1 DEF Backed
    <3>2. QED
      BY <2>3, <3>1 DEF BackedAt, Unheld
  <2>7. \A x \in Runs, y \in Nodes : ~(x = r /\ y = n) => asks'[x][y] = asks[x][y]
    BY <1>4, <1>9, <2>1 DEF AskTypes
  <2>8. Open(asks'[r][n]) => Open(asks[r][n]) \/ u[i].status = "awaiting_approval"
    BY <1>9, <2>5
  <2>9. QED
    BY <1>7, <2>1, <2>3, <2>4, <2>5, <2>6, <2>7, <2>8
<1>10. CASE NodeSucceeds(w, n) \/ NodeFails(w, n) \/ OpenTask(w, n)
  BY <1>9, <1>10 DEF NodeSucceeds, NodeFails, OpenTask
<1>11. CASE OpenGate(w, n)
  BY <1>1, <1>9, <1>11 DEF OpenGate
<1>12. QED
  BY <1>8, <1>10, <1>11 DEF WritesRow

\* An answer closes the only open question of its gate.
LEMMA DecideBacks ==
    ASSUME Backed, NEW h \in Handlers, NEW verdict \in {"approved", "rejected"}, Decide(h, verdict),
           NEW q \in Runs, NEW m \in Nodes
    PROVE  BackedAt(rows'[q][m], asks'[q][m])
<1>1. PICK r, n, i : r = api[h].run /\ n = api[h].node /\ i = api[h].ask
  OBVIOUS
<1>2. PICK s : s = IF verdict = "approved" THEN "succeeded" ELSE "failed"
  OBVIOUS
<1>3. /\ asks[r][n][i] = "pending" /\ asks' = [asks EXCEPT ![r][n][i] = verdict]
      /\ rows' = [rows EXCEPT ![r][n] = SetLast(rows[r][n], s)]
      /\ api[h].pc = "decide"
  BY <1>1, <1>2 DEF Decide
<1>4. r \in Runs /\ n \in Nodes /\ i \in 1 .. Len(asks[r][n])
  BY <1>1, <1>3 DEF Backed, Served
<1>5. IInv /\ AskTypes /\ OneOpenQuestion /\ BackedAt(rows[q][m], asks[q][m]) /\ GoodTable(rows[q][m])
  BY Typed DEF Backed
<1>6. rows = [x \in Runs |-> [y \in Nodes |-> rows[x][y]]]
  BY <1>5 DEF IInv, TypeOK, StateTypeOK
<1>7. CASE q = r /\ m = n
  <2>1. PICK seq : seq = asks[r][n]
    OBVIOUS
  <2>2. PICK new : new = asks'[r][n]
    OBVIOUS
  <2>3. seq \in Seq(AskStatus) /\ Len(seq) \in Nat /\ DOMAIN seq = 1 .. Len(seq)
    BY <1>4, <1>5, <2>1 DEF AskTypes
  <2>4. \A j \in 1 .. Len(seq) : seq[j] = "pending" => j = i
    BY <1>3, <1>4, <1>5, <2>1, <2>3 DEF OneOpenQuestion
  <2>5. new = [seq EXCEPT ![i] = verdict]
    BY <1>3, <1>4, <1>5, <2>1, <2>2, Zenon DEF AskTypes
  <2>6. Len(new) = Len(seq) /\ \A j \in 1 .. Len(seq) : new[j] = IF j = i THEN verdict ELSE seq[j]
    BY <2>3, <2>5
  <2>7. ~Open(new)
    BY <2>3, <2>4, <2>6, Zenon DEF Open
  <2>8. rows'[q][m] = SetLast(rows[q][m], s) /\ s \in {"succeeded", "failed"}
    BY <1>2, <1>3, <1>4, <1>6, <1>7
  <2>9. Unheld(rows'[q][m])
    BY <1>5, <2>8, SetLastBacks DEF BackedAt
  <2>10. QED
    BY <1>7, <2>2, <2>7, <2>9 DEF BackedAt
<1>8. CASE ~(q = r /\ m = n)
  <2>1. rows'[q][m] = rows[q][m]
    BY <1>3, <1>4, <1>6, <1>8
  <2>2. asks'[q][m] = asks[q][m]
    BY <1>3, <1>4, <1>5, <1>8 DEF AskTypes
  <2>3. QED
    BY <1>5, <2>1, <2>2
<1>9. QED
  BY <1>7, <1>8

\* A clearance ends no proposal.
LEMMA ClearBacks ==
    ASSUME Backed, NEW h \in Handlers, Clear(h), NEW q \in Runs, NEW m \in Nodes
    PROVE  BackedAt(rows'[q][m], asks'[q][m])
<1>1. PICK r, n : r = api[h].run /\ n = api[h].node
  OBVIOUS
<1>2. IInv /\ BackedAt(rows[q][m], asks[q][m]) /\ GoodTable(rows[q][m])
  BY Typed DEF Backed
<1>3. asks' = asks
  BY DEF Clear
<1>4. CASE rows' = rows
  BY <1>2, <1>3, <1>4
<1>5. CASE rows' # rows
  <2>s. PICK s : s = "succeeded"
    OBVIOUS
  <2>1. /\ Latest(r, n) = "awaiting_human_task" /\ api[h].pc = "clear"
        /\ rows' = [rows EXCEPT ![r][n] = SetLast(rows[r][n], s)]
    BY <1>1, <1>5, <2>s DEF Clear
  <2>2. r \in Runs /\ n \in Nodes
    BY <1>1, <2>1 DEF Backed, Served
  <2>3. rows = [x \in Runs |-> [y \in Nodes |-> rows[x][y]]]
    BY <1>2 DEF IInv, TypeOK, StateTypeOK
  <2>4. CASE q = r /\ m = n
    <3>1. PICK old : old = rows[q][m]
      OBVIOUS
    <3>2. rows'[q][m] = SetLast(old, s) /\ StatusOf(old) # "awaiting_approval"
      BY <2>1, <2>2, <2>3, <2>4, <3>1 DEF Latest, StatusOf
    <3>3. Unheld(SetLast(old, s)) /\ (Awaits(old) => Awaits(SetLast(old, s)))
      BY <1>2, <2>s, <3>1, <3>2, SetLastBacks DEF BackedAt
    <3>4. QED
      BY <1>2, <1>3, <3>1, <3>2, <3>3 DEF BackedAt
  <2>5. CASE ~(q = r /\ m = n)
    <3>1. rows'[q][m] = rows[q][m]
      BY <2>1, <2>2, <2>3, <2>5
    <3>2. QED
      BY <1>2, <1>3, <3>1
  <2>6. QED
    BY <2>4, <2>5
<1>6. QED
  BY <1>4, <1>5

\* Every step keeps every question backed.
LEMMA BackedStep ==
    ASSUME Backed, [Next]_vars, NEW q \in Runs, NEW m \in Nodes
    PROVE  BackedAt(rows'[q][m], asks'[q][m])
<1>0. IInv /\ AskTypes /\ BackedAt(rows[q][m], asks[q][m])
  BY DEF Backed
<1>1. CASE TidyRows /\ CalmAsks
  BY <1>0, <1>1, TidyBacks DEF TidyRows, CalmAsks
<1>2. CASE UNCHANGED <<rows, asks>>
  BY <1>0, <1>2
<1>3. CASE \E w \in Workers : Work(w)
  BY <1>0, <1>1, <1>3, WorkerTidies, WritesBack DEF Work
<1>4. ASSUME NEW h \in Handlers,
             ControlStep(h) \/ DecisionStep(h) \/ ControlRequest(h) \/ DecisionRequest(h)
      PROVE  BackedAt(rows'[q][m], asks'[q][m])
  BY <1>0, <1>1, <1>4, RequestTidies, DecideBacks, ClearBacks
<1>5. CASE \E h \in Handlers : Serve(h)
  BY <1>4, <1>5 DEF Serve
<1>6. CASE \E r \in Runs : Expiry(r)
  BY <1>2, <1>6 DEF Expiry, BeatExpires
<1>7. CASE Sweep
  BY <1>0, <1>1, <1>7, SweepTidies DEF Sweep
<1>8. CASE Surprise
  <2>1. \/ \E h \in Handlers : ControlRequest(h) \/ DecisionRequest(h)
        \/ \E w \in Workers : WorkerCrash(w)
        \/ UNCHANGED <<rows, asks>>
    BY <1>8 DEF Surprise, ApiCrash, SubmitTask, LockExpires, ReaperCrash
  <2>2. QED
    BY <1>0, <1>1, <1>2, <1>4, <2>1, CrashTidies
<1>9. CASE UNCHANGED vars
  BY <1>2, <1>9 DEF vars
<1>10. QED
  BY <1>3, <1>5, <1>6, <1>7, <1>8, <1>9 DEF Next

\* No question is open without an attempt of its gate that awaits the answer, in
\* every pipeline, with any number of executors at work on the same run, retries,
\* sweeps, decisions and processes that die (_open_gate, approvals.open_gate,
\* reset_failed, record_skipped, fail_stale_running, approvals.decide).
THEOREM QuestionsAreBacked == Spec => []QuestionIsBacked
<1>1. Init => Backed
  <2> SUFFICES ASSUME Init PROVE Backed
    OBVIOUS
  <2>1. IInv /\ AskTypes /\ OneOpenQuestion /\ \A h \in Handlers : Served(api[h], asks)
    BY WorkingInit DEF Working, Flow
  <2>2. \A r \in Runs, n \in Nodes : rows[r][n] = NoRows /\ asks[r][n] = <<>>
    BY DEF Init, StateInit
  <2>3. ~Open(<<>>) /\ DOMAIN NoRows = {}
    BY DEF Open, NoRows
  <2>4. QED
    BY <2>1, <2>2, <2>3 DEF Backed, BackedAt, Unheld
<1>2. Backed /\ [Next]_vars => Backed'
  <2> SUFFICES ASSUME Backed, [Next]_vars PROVE Backed'
    OBVIOUS
  <2>1. IInv /\ AskTypes /\ OneOpenQuestion /\ \A h \in Handlers : Served(api[h], asks)
    BY DEF Backed
  <2>2. IInv' /\ AskTypes' /\ OneOpenQuestion'
    BY <2>1, StepTyped, EveryStepAsks, GateSteps, NewestStaysOpen
  <2>3. \A h \in Handlers : Served(api'[h], asks')
    BY <2>1, ServedKept
  <2>4. QED
    BY <2>2, <2>3, BackedStep DEF Backed
<1>3. Backed => QuestionIsBacked
  BY DEF Backed, BackedAt, Awaits, QuestionIsBacked, Pending, Open
<1>4. QED
  BY <1>1, <1>2, <1>3, PTL DEF Spec

\* Another way to keep a run to one worker: people only launch.
THEOREM WorkersExclude == OnlyLaunches => (Spec => []OneExecutor)
<1> SUFFICES ASSUME OnlyLaunches PROVE Spec => []OneExecutor
  OBVIOUS
<1>1. Init => IInv /\ Sole
  BY InitTyped DEF Init, StateInit, ExecInit, ControlInit, ReaperInit, Idle, Free, Resting,
     Sole, OnlyLaunching, HeldFor, Launches, Occupies
<1>2. IInv /\ Sole /\ [Next]_vars => IInv' /\ Sole'
  BY StepTyped, SoleKept
<1>3. IInv /\ Sole => OneExecutor
  BY DEF Sole, HeldFor, OneExecutor, WorksOn, AtWork, Occupies
<1>4. QED
  BY <1>1, <1>2, <1>3, PTL DEF Spec

\* A node is attempted only after everything it depends on succeeded, whichever
\* pass, retry, restart or decision led to it (_run_waves, _run_node).
THEOREM InputsComeFirst == Spec /\ []OneExecutor => []InputsFirst
<1>1. Working => InputsFirst
  <2> SUFFICES ASSUME Working, NEW r \in Runs, NEW n \in Nodes,
                      Latest(r, n) \notin {"absent", "skipped"}, NEW m \in Deps[n]
               PROVE  Latest(r, m) = "succeeded"
    BY DEF InputsFirst
  <2>1. SoundAt(rows[r], asks[r], n) /\ GoodTable(rows[r][n])
    BY Typed DEF Working, Flow, SoundRuns
  <2>2. DOMAIN rows[r][n] # {} /\ rows[r][n][Newest(rows[r][n])].status # "skipped"
    BY DEF Latest
  <2>3. Tried(rows[r][n])
    BY <2>1, <2>2, NewestIsGreatest DEF Tried
  <2>4. Succeeded(rows[r][m])
    BY <2>1, <2>3 DEF SoundAt
  <2>5. QED
    BY <2>4 DEF Succeeded, StatusOf, Latest
<1>2. QED
  BY <1>1, WorkingInit, WorkingStep, PTL DEF Spec

\* Whoever decides sees the proposal of the attempt that asked (_open_gate,
\* approvals.decide).
THEOREM QuestionsHaveProposals == Spec /\ []OneExecutor => []QuestionHasProposal
<1>1. Working => QuestionHasProposal
  <2> SUFFICES ASSUME Working, NEW r \in Runs, NEW n \in Nodes, Pending(r, n)
               PROVE  Latest(r, n) = "awaiting_approval"
    BY DEF QuestionHasProposal
  <2>1. SoundAt(rows[r], asks[r], n)
    BY DEF Working, Flow, SoundRuns
  <2>2. Open(asks[r][n])
    BY DEF Pending, Open
  <2>3. QED
    BY <2>1, <2>2 DEF SoundAt, StatusOf, Latest
<1>2. QED
  BY <1>1, WorkingInit, WorkingStep, PTL DEF Spec

\* No worker calls a run succeeded while a node of it has not (_run_waves), but
\* for the run that exhausts the passes of one execute().
THEOREM SuccessesAreComplete == Spec /\ []OneExecutor => []SuccessIsComplete
<1>1. Working => SuccessIsComplete
  <2> SUFFICES ASSUME Working, NEW w \in Workers, exec[w].outcome = "succeeded",
                      exec[w].pass # MaxGatePasses, NEW n \in Nodes
               PROVE  Latest(exec[w].run, n) = "succeeded"
    BY DEF SuccessIsComplete
  <2>1. Succeeded(rows[exec[w].run][n])
    BY DEF Working, Flow, Wins, Won
  <2>2. QED
    BY <2>1 DEF Succeeded, StatusOf, Latest
<1>2. QED
  BY <1>1, WorkingInit, WorkingStep, PTL DEF Spec

\* The executor, its passes, retries, crashes, the approvals router and the sweep
\* together implement GateProtocol: a gate counts as done only by a person's yes
\* or, if its node may pass unasked, without a question, and no answer is lost.
THEOREM GatesArePromised == Spec /\ []OneExecutor => GatesKept
<1>1. Init => Promise!Init
  <2> SUFFICES ASSUME Init PROVE Promise!Init
    OBVIOUS
  <2>1. \A r \in Runs, g \in Gates : g \in Nodes
    BY GateIsFirm
  <2>2. \A r \in Runs, n \in Nodes : rows[r][n] = NoRows /\ asks[r][n] = <<>>
    BY DEF Init, StateInit
  <2>3. \A r \in Runs, g \in Gates : asks[r][g] = <<>> /\ Latest(r, g) # "succeeded"
    BY <2>1, <2>2 DEF Latest, NoRows
  <2>4. QED
    BY <2>3 DEF Promise!Init
<1>2. Working /\ OneExecutor /\ [Next]_vars => [Promise!Next]_(Promise!vars)
  BY WorkingStep, PromiseStep DEF Working
<1>3. QED
  BY <1>1, <1>2, WorkingInit, WorkingStep, PTL DEF Spec, GatesKept, Promise!Spec

\* One node's success is kept, and it gets no further attempt.
Kept(old, new) == Succeeded(old) => Succeeded(new) /\ DOMAIN new \subseteq DOMAIN old

\* A worker writes to no node that succeeded.
LEMMA WritesKeep ==
    ASSUME IInv, Flow(exec, rows, asks, api), NEW w \in Workers, NEW n \in Nodes, WritesRow(w, n),
           NEW q \in Runs, NEW m \in Nodes, Firm(m)
    PROVE  Kept(rows[q][m], rows'[q][m])
<1>1. CASE StartNode(w, n)
  <2>1. PICK e, f, r, old, u, a : /\ r = exec[w].run /\ old = rows[r][n] /\ u = rows'[r][n]
                                  /\ Started(e, f, r, n, old, u, a, w)
    BY <1>1, StartKnows
  <2>2. TouchesOnly(r, n) /\ (Firm(n) => ~Succeeded(old))
    BY <2>1 DEF Started
  <2>3. CASE q = r /\ m = n
    BY <2>1, <2>2, <2>3 DEF Kept
  <2>4. CASE ~(q = r /\ m = n)
    <3>1. rows'[q][m] = rows[q][m]
      BY <2>2, <2>4 DEF TouchesOnly
    <3>2. QED
      BY <3>1 DEF Kept
  <2>5. QED
    BY <2>3, <2>4
<1>2. CASE NodeSucceeds(w, n) \/ NodeFails(w, n) \/ OpenGate(w, n) \/ OpenTask(w, n)
  <2>1. PICK s, x : s \in NodeStatus /\ Checkpoint(w, n, s, x)
    <3>1. {"succeeded", "failed", "awaiting_human_task", "awaiting_approval"} \subseteq NodeStatus
      BY DEF NodeStatus
    <3>2. QED
      BY <1>2, <3>1 DEF NodeSucceeds, NodeFails, OpenGate, OpenTask
  <2>2. PICK e, f, r, old, u : /\ r = exec[w].run /\ old = rows[r][n] /\ u = rows'[r][n]
                               /\ Checkpointed(e, f, r, n, s, x, old, u, w)
    BY <2>1, CheckpointRow
  <2>3. /\ \A y \in Runs \ {r} : rows'[y] = rows[y]
        /\ \A y \in Nodes \ {n} : rows'[r][y] = rows[r][y]
        /\ ~Succeeded(old)
    BY <2>2 DEF Checkpointed, Succeeded
  <2>4. CASE q = r /\ m = n
    BY <2>2, <2>3, <2>4 DEF Kept
  <2>5. CASE ~(q = r /\ m = n)
    <3>1. rows'[q][m] = rows[q][m]
      BY <2>3, <2>5
    <3>2. QED
      BY <3>1 DEF Kept
  <2>6. QED
    BY <2>4, <2>5
<1>3. QED
  BY <1>1, <1>2 DEF WritesRow

\* No step starts a node that succeeded, or takes its success.
LEMMA KeepStep ==
    ASSUME IInv, IInv', AskTypes, OneOpenQuestion, Flow(exec, rows, asks, api), [Next]_vars,
           NEW q \in Runs, NEW m \in Nodes, Firm(m)
    PROVE  Kept(rows[q][m], rows'[q][m])
<1>1. CASE TidyRows
  <2>1. Tidy(rows[q][m], rows'[q][m])
    BY <1>1 DEF TidyRows
  <2>2. Succeeded(rows[q][m]) => DOMAIN rows[q][m] # {}
    BY DEF Succeeded, StatusOf
  <2>3. QED
    BY <2>1, <2>2 DEF Tidy, Kept, Succeeded
<1>2. CASE UNCHANGED rows
  BY <1>1, <1>2, SameTidies
<1>3. CASE \E w \in Workers : Work(w)
  BY <1>1, <1>3, WorkerTidies, WritesKeep DEF Work
<1>4. ASSUME NEW r \in Runs, NEW n \in Nodes, TouchesOnly(r, n), ~Succeeded(rows[r][n])
      PROVE  Kept(rows[q][m], rows'[q][m])
  <2>1. CASE q = r /\ m = n
    BY <1>4, <2>1 DEF Kept
  <2>2. CASE ~(q = r /\ m = n)
    <3>1. rows'[q][m] = rows[q][m]
      BY <1>4, <2>2 DEF TouchesOnly
    <3>2. QED
      BY <3>1 DEF Kept
  <2>3. QED
    BY <2>1, <2>2
<1>5. ASSUME NEW h \in Handlers,
             ControlStep(h) \/ DecisionStep(h) \/ ControlRequest(h) \/ DecisionRequest(h)
      PROVE  Kept(rows[q][m], rows'[q][m])
  <2>1. ASSUME NEW verdict \in {"approved", "rejected"}, Decide(h, verdict)
        PROVE  Kept(rows[q][m], rows'[q][m])
    <3>1. PICK r, n, i, s : Answering(r, n, i, verdict, s)
      BY <2>1, DecideKnows
    <3>2. r \in Runs /\ n \in Nodes /\ TouchesOnly(r, n) /\ ~Succeeded(rows[r][n])
      BY <3>1, GateIsFirm DEF Answering, Succeeded
    <3>3. QED
      BY <1>4, <3>2
  <2>2. CASE Clear(h) /\ ~TidyRows
    <3>1. PICK r, n : Clearing(r, n)
      BY <2>2, ClearKnows
    <3>2. r \in Runs /\ n \in Nodes /\ TouchesOnly(r, n) /\ ~Succeeded(rows[r][n])
      BY <3>1 DEF Clearing, Succeeded
    <3>3. QED
      BY <1>4, <3>2
  <2>3. QED
    BY <1>1, <1>5, <2>1, <2>2, RequestTidies
<1>6. CASE \E h \in Handlers : Serve(h)
  BY <1>5, <1>6 DEF Serve
<1>7. CASE \E r \in Runs : Expiry(r)
  BY <1>2, <1>7 DEF Expiry, BeatExpires
<1>8. CASE Sweep
  BY <1>1, <1>8, SweepTidies DEF Sweep
<1>9. CASE Surprise
  <2>1. \/ \E h \in Handlers : ControlRequest(h) \/ DecisionRequest(h)
        \/ \E w \in Workers : WorkerCrash(w)
        \/ UNCHANGED rows
    BY <1>9 DEF Surprise, ApiCrash, SubmitTask, LockExpires, ReaperCrash
  <2>2. QED
    BY <1>1, <1>2, <1>5, <2>1, CrashTidies
<1>10. CASE UNCHANGED vars
  BY <1>2, <1>10 DEF vars
<1>11. QED
  BY <1>3, <1>6, <1>7, <1>8, <1>9, <1>10 DEF Next

\* A node that succeeded is never attempted again. The exception is a node whose
\* person-task is cleared from outside while a worker is about to attempt it
\* once more: NoRework is about the pipelines that have none.
THEOREM SuccessIsNeverRedone ==
    (\A n \in Nodes : Firm(n)) => (Spec /\ []OneExecutor => NoRework)
<1> SUFFICES ASSUME \A n \in Nodes : Firm(n) PROVE Spec /\ []OneExecutor => NoRework
  OBVIOUS
<1>1. Working /\ OneExecutor /\ [Next]_vars =>
          [\A r \in Runs, n \in Nodes : Latest(r, n) = "succeeded" =>
              Latest(r, n)' = "succeeded" /\ DOMAIN rows[r][n]' \subseteq DOMAIN rows[r][n]]_vars
  <2> SUFFICES ASSUME Working, OneExecutor, [Next]_vars, NEW r \in Runs, NEW n \in Nodes,
                      Latest(r, n) = "succeeded"
               PROVE  Latest(r, n)' = "succeeded" /\ DOMAIN rows[r][n]' \subseteq DOMAIN rows[r][n]
    OBVIOUS
  <2>1. Working'
    BY WorkingStep
  <2>2. Kept(rows[r][n], rows'[r][n])
    BY <2>1, KeepStep DEF Working
  <2>3. Succeeded(rows[r][n])
    BY DEF Succeeded, StatusOf, Latest
  <2>4. Succeeded(rows'[r][n]) /\ DOMAIN rows'[r][n] \subseteq DOMAIN rows[r][n]
    BY <2>2, <2>3 DEF Kept
  <2>5. QED
    BY <2>4 DEF Succeeded, StatusOf, Latest
<1>2. QED
  BY <1>1, WorkingInit, WorkingStep, PTL DEF Spec, NoRework

-----------------------------------------------------------------------------
(* Nobody fails an attempt under the worker that runs it                    *)

\* No attempt in flight is failed and left with its worker.
Spared(old, new) ==
    \A a \in DOMAIN old \cap DOMAIN new :
        /\ old[a].status = "running" /\ old[a].by # NoWorker
        /\ new[a].status = "failed"
        => new[a].by = NoWorker

SparesRows == \A r \in Runs, n \in Nodes : Spared(rows[r][n], rows'[r][n])

\* A step that writes no row fails none.
LEMMA SameSpares == ASSUME rows' = rows PROVE SparesRows
BY DEF SparesRows, Spared

\* Nor does one that only drops what a session held.
LEMMA DisownSpares == ASSUME NEW old, NEW w PROVE Spared(old, Disown(old, w)) /\ Spared(old, old)
<1>1. PICK new : new = Disown(old, w)
  OBVIOUS
<1>2. \A a \in DOMAIN old : new[a] =
         IF old[a].by = w THEN [old[a] EXCEPT !.by = NoWorker] ELSE old[a]
  BY <1>1 DEF Disown
<1>3. ASSUME NEW a \in DOMAIN old, old[a].status = "running"
      PROVE  new[a].status # "failed"
  <2>1. PICK row : row = old[a]
    OBVIOUS
  <2>2. new[a] = [row EXCEPT !.by = NoWorker] \/ new[a] = row
    BY <1>2, <2>1
  <2>3. row.status = "running" /\ [row EXCEPT !.by = NoWorker].status = row.status
    BY <1>3, <2>1
  <2>4. QED
    BY <2>2, <2>3
<1>4. QED
  BY <1>1, <1>3 DEF Spared

\* The rows of one run are rewritten.
LEMMA SpareRun ==
    ASSUME IInv, NEW r \in Runs, NEW tables, rows' = [rows EXCEPT ![r] = tables],
           \A n \in Nodes : Spared(rows[r][n], tables[n])
    PROVE  SparesRows
<1>1. DOMAIN rows = Runs
  BY DEF IInv, TypeOK, StateTypeOK
<1>2. ASSUME NEW q \in Runs, NEW n \in Nodes PROVE Spared(rows[q][n], rows'[q][n])
  <2>1. CASE q = r
    <3>1. rows'[q] = tables
      BY <1>1, <2>1
    <3>2. QED
      BY <2>1, <3>1
  <2>2. CASE q # r
    <3>1. rows'[q][n] = rows[q][n]
      BY <1>1, <2>2
    <3>2. QED
      BY <3>1 DEF Spared
  <2>3. QED
    BY <2>1, <2>2
<1>3. QED
  BY <1>2 DEF SparesRows

\* record_skipped fails nothing.
LEMMA SkipSpares ==
    ASSUME IInv, NEW r \in Runs, NEW S, rows' = [rows EXCEPT ![r] = Skip(@, S)]
    PROVE  SparesRows
<1>1. PICK tables : tables = Skip(rows[r], S)
  OBVIOUS
<1>2. ASSUME NEW n \in Nodes PROVE Spared(rows[r][n], tables[n])
  <2>1. PICK old : old = rows[r][n]
    OBVIOUS
  <2>2. PICK new : new = tables[n]
    OBVIOUS
  <2>3. GoodTable(old) /\ (new = SkipOne(old) \/ new = old)
    BY <1>1, <2>1, <2>2, Typed DEF Skip
  <2>4. CASE new = old
    BY <2>1, <2>2, <2>4 DEF Spared
  <2>5. CASE DOMAIN old = {}
    BY <2>1, <2>2, <2>5 DEF Spared
  <2>6. CASE new = SkipOne(old) /\ new # old /\ DOMAIN old # {}
    <3>1. /\ old[Newest(old)].status = "running" /\ new = SetLast(old, "skipped")
          /\ ~(StatusOf(old) = "succeeded")
      BY <2>6 DEF SkipOne, StatusOf
    <3>2. PICK s : s = "skipped"
      OBVIOUS
    <3>3. s \in NodeStatus /\ new = SetLast(old, s)
      BY <3>1, <3>2 DEF NodeStatus
    <3>4. /\ DOMAIN new = DOMAIN old /\ StatusOf(new) = s
          /\ \A b \in DOMAIN old \ {Newest(old)} : new[b] = old[b]
      BY <2>3, <2>6, <3>1, <3>3, AnsweredRow
    <3>5. new[Newest(old)].status = "skipped"
      BY <2>6, <3>2, <3>4 DEF StatusOf, Newest
    <3>6. QED
      BY <2>1, <2>2, <3>4, <3>5 DEF Spared
  <2>7. QED
    BY <2>3, <2>4, <2>5, <2>6
<1>3. rows' = [rows EXCEPT ![r] = tables]
  BY <1>1
<1>4. QED
  BY <1>2, <1>3, SpareRun

\* reset_failed leaves the rows it does not delete as they are.
LEMMA ResetSpares ==
    ASSUME IInv, NEW r \in Runs, rows' = [rows EXCEPT ![r] = Reset(@)]
    PROVE  SparesRows
<1>1. PICK tables : tables = Reset(rows[r])
  OBVIOUS
<1>2. ASSUME NEW n \in Nodes PROVE Spared(rows[r][n], tables[n])
  <2>1. \A a \in DOMAIN tables[n] : tables[n][a] = rows[r][n][a]
    BY <1>1 DEF Reset, Restrict
  <2>2. QED
    BY <2>1 DEF Spared
<1>3. rows' = [rows EXCEPT ![r] = tables]
  BY <1>1
<1>4. QED
  BY <1>2, <1>3, SpareRun

\* Nothing is in flight in a run that a worker has just taken, so its sweep of
\* the stale rows (fail_stale_running) meets only those of dead workers.
LEMMA SweepSpares ==
    ASSUME IInv, Flow(exec, rows, asks, api), OneExecutor, NEW w \in Workers, SweepStale(w)
    PROVE  SparesRows
<1>1. PICK r : r = exec[w].run
  OBVIOUS
<1>2. exec[w].pc = "loaded" /\ rows' = [rows EXCEPT ![r] = FailStale(@)]
  BY <1>1 DEF SweepStale
<1>3. r \in Runs
  BY <1>1, <1>2, Typed
<1>4. ASSUME NEW n \in Nodes, NEW a \in DOMAIN rows[r][n], rows[r][n][a].by # NoWorker
      PROVE  FALSE
  <2>1. PICK v : v = rows[r][n][a].by
    OBVIOUS
  <2>2. HeldAt(exec[v], r, n, a, rows[r][n][a])
    BY <1>3, <1>4, <2>1 DEF Flow, Holds
  <2>3. v \in Workers
    BY <1>3, <1>4, <2>1, Typed DEF GoodTable, IsTable, RowTable
  <2>4. WorksOn(v, r) /\ WorksOn(w, r) /\ exec[v].pc = "wave"
    BY <1>1, <1>2, <2>2 DEF HeldAt, WorksOn, AtWork
  <2>5. v = w
    BY <1>3, <2>3, <2>4 DEF OneExecutor
  <2>6. QED
    BY <1>2, <2>4, <2>5
<1>5. PICK tables : tables = FailStale(rows[r])
  OBVIOUS
<1>6. \A n \in Nodes : Spared(rows[r][n], tables[n])
  BY <1>4 DEF Spared
<1>7. rows' = [rows EXCEPT ![r] = tables]
  BY <1>2, <1>5
<1>8. QED
  BY <1>3, <1>6, <1>7, SpareRun

\* A worker that writes to its node.
LEMMA WritesSpare ==
    ASSUME IInv, Flow(exec, rows, asks, api), NEW w \in Workers, NEW n \in Nodes, WritesRow(w, n)
    PROVE  SparesRows
<1>r. exec[w].run \in Runs /\ rows = [q \in Runs |-> [m \in Nodes |-> rows[q][m]]]
  <2>1. exec[w].pc = "wave"
    BY Zenon DEF WritesRow, StartNode, NodeSucceeds, NodeFails, OpenGate, OpenTask, Checkpoint
  <2>2. QED
    BY <2>1, Typed DEF IInv, TypeOK, StateTypeOK
<1>1. PICK r : r = exec[w].run
  OBVIOUS
<1>2. CASE StartNode(w, n)
  <2>1. PICK e, f, old, u, a : /\ old = rows[r][n] /\ u = rows'[r][n]
                               /\ Started(e, f, r, n, old, u, a, w)
    BY <1>1, <1>2, StartKnows
  <2>2. TouchesOnly(r, n) /\ \A b \in DOMAIN old : u[b] = old[b]
    BY <2>1 DEF Started
  <2>3. ASSUME NEW q \in Runs, NEW m \in Nodes PROVE Spared(rows[q][m], rows'[q][m])
    <3>1. \A b \in DOMAIN rows[q][m] : rows'[q][m][b] = rows[q][m][b]
      BY <2>1, <2>2 DEF TouchesOnly
    <3>2. QED
      BY <3>1 DEF Spared
  <2>4. QED
    BY <2>3 DEF SparesRows
<1>3. CASE NodeSucceeds(w, n) \/ NodeFails(w, n) \/ OpenGate(w, n) \/ OpenTask(w, n)
  <2>1. PICK s, x : Checkpoint(w, n, s, x)
    BY <1>3 DEF NodeSucceeds, NodeFails, OpenGate, OpenTask
  <2>2. PICK i \in DOMAIN rows[r][n] : rows' = [rows EXCEPT ![r][n][i] = Row(s, NoWorker)]
    BY <1>1, <2>1 DEF Checkpoint, Held
  <2>3. PICK row : row = Row(s, NoWorker)
    OBVIOUS
  <2>x. row.by = NoWorker
    BY <2>3 DEF Row
  <2>4. ASSUME NEW q \in Runs, NEW m \in Nodes PROVE Spared(rows[q][m], rows'[q][m])
    <3>1. rows' = [rows EXCEPT ![r][n][i] = row]
      BY <2>2, <2>3
    <3>2. \A b \in DOMAIN rows[q][m] : rows'[q][m][b] = rows[q][m][b] \/ rows'[q][m][b] = row
      BY <1>r, <1>1, <3>1
    <3>3. QED
      BY <2>x, <3>2 DEF Spared
  <2>5. QED
    BY <2>4 DEF SparesRows
<1>4. QED
  BY <1>2, <1>3 DEF WritesRow

\* A worker spares what is in flight.
LEMMA WorkerSpares ==
    ASSUME IInv, Flow(exec, rows, asks, api), OneExecutor, NEW w \in Workers, WorkerStep(w)
    PROVE  SparesRows
<1>0. exec[w].pc # "idle" => exec[w].run \in Runs
  BY Typed
<1>1. CASE Abort(w)
  BY <1>0, <1>1, SkipSpares DEF Abort
<1>2. CASE SweepStale(w)
  BY <1>2, SweepSpares
<1>3. CASE EndWave(w)
  <2>1. PICK e : e = exec[w]
    OBVIOUS
  <2>2. PICK f : f = exec'[w]
    OBVIOUS
  <2>3. rows' = [rows EXCEPT ![e.run] = Skip(@, Cut(e))] /\ e.pc = "wave"
    BY <1>3, <2>1, <2>2, EndWaveSets
  <2>4. QED
    BY <1>0, <2>1, <2>3, SkipSpares
<1>4. CASE SkipUnreached(w)
  <2>1. exec[w].run \in Runs
    BY <1>0, <1>4 DEF SkipUnreached
  <2>2. CASE exec[w].outcome = "succeeded"
    BY <1>4, <2>2, SameSpares DEF SkipUnreached
  <2>3. CASE exec[w].outcome # "succeeded"
    BY <1>4, <2>1, <2>3, SkipSpares DEF SkipUnreached
  <2>4. QED
    BY <2>2, <2>3
<1>5. CASE \E n \in Nodes : WritesRow(w, n)
  BY <1>5, WritesSpare
<1>6. CASE UNCHANGED rows
  BY <1>6, SameSpares
<1>g. ASSUME NEW n \in Nodes, GateTaken(w, n) PROVE SparesRows
  <2>1. PICK r : r = exec[w].run
    OBVIOUS
  <2>2. rows' = [rows EXCEPT ![r][n] = Disown(@, w)] /\ r \in Runs
    BY <1>0, <1>g, <2>1 DEF GateTaken
  <2>3. rows = [q \in Runs |-> [m \in Nodes |-> rows[q][m]]]
    BY DEF IInv, TypeOK, StateTypeOK
  <2>4. \A q \in Runs, m \in Nodes :
           rows'[q][m] = rows[q][m] \/ rows'[q][m] = Disown(rows[q][m], w)
    BY <2>2, <2>3
  <2>5. QED
    BY <2>4, DisownSpares DEF SparesRows
<1>7. \/ Abort(w) \/ SweepStale(w) \/ EndWave(w) \/ SkipUnreached(w)
      \/ (\E n \in Nodes : WritesRow(w, n) \/ GateTaken(w, n)) \/ UNCHANGED rows
  <2>1. CASE \E n \in Nodes : \/ NumberNode(w, n) \/ NumberTaken(w, n) \/ RowLost(w, n)
                             \/ FindOpen(w, n)
    BY <2>1, SMTT(30) DEF NumberNode, NumberTaken, RowLost, FindOpen
  <2>2. CASE \/ \E r \in Runs : Dequeue(w, r)
             \/ AbortFinish(w) \/ AbortRelease(w)
             \/ MarkRunning(w) \/ FirstBeat(w) \/ BeginPass(w) \/ PassesExhausted(w)
    BY <2>2, Zenon DEF Dequeue, AbortFinish, AbortRelease, MarkRunning, FirstBeat, BeginPass,
                PassesExhausted
  <2>3. CASE \/ StopCancelled(w) \/ NextWave(w) \/ EndPass(w)
             \/ StopBroken(w) \/ StopOverBudget(w) \/ ParkOnGate(w) \/ ParkOnTask(w)
             \/ PauseRelease(w) \/ FinishRun(w) \/ ExpireGates(w) \/ FinishRelease(w)
             \/ ClearCancel(w)
    BY <2>3, Zenon DEF StopCancelled, NextWave, EndPass, StopBroken, StopOverBudget, ParkOnGate,
                ParkOnTask, PauseRelease, FinishRun, ExpireGates, FinishRelease, ClearCancel
  <2>4. QED
    BY <2>1, <2>2, <2>3 DEF WorkerStep, WritesRow
<1>8. QED
  BY <1>1, <1>2, <1>3, <1>4, <1>5, <1>6, <1>7, <1>g

\* A request spares what is in flight: the row that a decision or a clearance
\* writes waits for a person.
LEMMA RequestSpares ==
    ASSUME IInv, AskTypes, OneOpenQuestion, Flow(exec, rows, asks, api), NEW h \in Handlers,
           ControlStep(h) \/ DecisionStep(h) \/ ControlRequest(h) \/ DecisionRequest(h)
    PROVE  SparesRows
<1>1. CASE CancelSkip(h)
  <2>1. rows' = [rows EXCEPT ![api[h].run] = Skip(@, Nodes)]
    BY <1>1 DEF CancelSkip
  <2>2. CASE api[h].run \in Runs
    BY <2>1, <2>2, SkipSpares
  <2>3. CASE api[h].run = NoRun
    BY <2>1, <2>3, NoRunNoWrite, SameSpares
  <2>4. QED
    BY <2>2, <2>3, RequestRun
<1>2. CASE RejectSkip(h)
  <2>1. rows' = [rows EXCEPT ![api[h].run] = Skip(@, Descendants(Deps, api[h].node))]
    BY <1>2 DEF RejectSkip
  <2>2. CASE api[h].run \in Runs
    BY <2>1, <2>2, SkipSpares
  <2>3. CASE api[h].run = NoRun
    BY <2>1, <2>3, NoRunNoWrite, SameSpares
  <2>4. QED
    BY <2>2, <2>3, RequestRun
<1>3. CASE RetryReset(h)
  <2>1. rows' = [rows EXCEPT ![api[h].run] = Reset(@)]
    BY <1>3 DEF RetryReset
  <2>2. CASE api[h].run \in Runs
    BY <2>1, <2>2, ResetSpares
  <2>3. CASE api[h].run = NoRun
    BY <2>1, <2>3, NoRunNoWrite, SameSpares
  <2>4. QED
    BY <2>2, <2>3, RequestRun
<1>4. ASSUME NEW r \in Runs, NEW n \in Nodes, TouchesOnly(r, n), NEW s \in NodeStatus,
             rows'[r][n] = SetLast(rows[r][n], s),
             StatusOf(rows[r][n]) \in {"awaiting_approval", "awaiting_human_task"}
      PROVE  SparesRows
  <2>1. PICK old : old = rows[r][n]
    OBVIOUS
  <2>2. PICK new : new = rows'[r][n]
    OBVIOUS
  <2>3. GoodTable(old) /\ DOMAIN old # {} /\ ~(StatusOf(old) = "succeeded") /\ new = SetLast(old, s)
    BY <1>4, <2>1, <2>2, Typed DEF StatusOf
  <2>4. DOMAIN new = DOMAIN old /\ \A b \in DOMAIN old \ {Newest(old)} : new[b] = old[b]
    BY <2>3, AnsweredRow
  <2>5. old[Newest(old)].status # "running"
    BY <1>4, <2>1, <2>3 DEF StatusOf
  <2>6. Spared(old, new)
    BY <2>4, <2>5 DEF Spared
  <2>7. ASSUME NEW q \in Runs, NEW m \in Nodes PROVE Spared(rows[q][m], rows'[q][m])
    <3>1. CASE q = r /\ m = n
      BY <2>1, <2>2, <2>6, <3>1
    <3>2. CASE ~(q = r /\ m = n)
      <4>1. rows'[q][m] = rows[q][m]
        BY <1>4, <3>2 DEF TouchesOnly
      <4>2. QED
        BY <4>1 DEF Spared
    <3>3. QED
      BY <3>1, <3>2
  <2>8. QED
    BY <2>7 DEF SparesRows
<1>5. ASSUME NEW verdict \in {"approved", "rejected"}, Decide(h, verdict)
      PROVE  SparesRows
  <2>1. PICK r, n, i, s : Answering(r, n, i, verdict, s)
    BY <1>5, DecideKnows
  <2>2. /\ r \in Runs /\ n \in Nodes /\ TouchesOnly(r, n) /\ s \in NodeStatus
        /\ rows'[r][n] = SetLast(rows[r][n], s)
        /\ StatusOf(rows[r][n]) \in {"awaiting_approval", "awaiting_human_task"}
    BY <2>1, GateIsFirm DEF Answering, NodeStatus
  <2>3. QED
    BY <1>4, <2>2
<1>6. CASE Clear(h)
  <2>1. CASE TidyRows /\ rows' = rows
    BY <2>1, SameSpares
  <2>2. CASE ~TidyRows
    <3>1. PICK r, n : Clearing(r, n)
      BY <1>6, <2>2, ClearKnows
    <3>2. PICK s : s = "succeeded"
      OBVIOUS
    <3>3. /\ r \in Runs /\ n \in Nodes /\ TouchesOnly(r, n) /\ s \in NodeStatus
          /\ rows'[r][n] = SetLast(rows[r][n], s)
          /\ StatusOf(rows[r][n]) \in {"awaiting_approval", "awaiting_human_task"}
      BY <3>1, <3>2 DEF Clearing, NodeStatus
    <3>4. QED
      BY <1>4, <3>3
  <2>3. CASE TidyRows /\ rows' # rows
    <3>1. PICK r : r = api[h].run
      OBVIOUS
    <3>2. PICK n : n = api[h].node
      OBVIOUS
    <3>3. PICK s : s = "succeeded"
      OBVIOUS
    <3>4. /\ Latest(r, n) = "awaiting_human_task"
          /\ rows' = [rows EXCEPT ![r][n] = SetLast(rows[r][n], s)]
      BY <1>6, <2>3, <3>1, <3>2, <3>3 DEF Clear
    <3>5. ASSUME r \in Runs, n \in Nodes PROVE FALSE
      <4>1. PICK old : old = rows[r][n]
        OBVIOUS
      <4>2. PICK new : new = rows'[r][n]
        OBVIOUS
      <4>3. new = SetLast(old, s)
        <5>1. rows = [q \in Runs |-> [m \in Nodes |-> rows[q][m]]]
          BY DEF IInv, TypeOK, StateTypeOK
        <5>2. QED
          BY <3>4, <3>5, <4>1, <4>2, <5>1
      <4>4. GoodTable(old) /\ DOMAIN old # {} /\ ~(StatusOf(old) = "succeeded")
            /\ old[Newest(old)].status = "awaiting_human_task"
        BY <3>4, <3>5, <4>1, Typed DEF StatusOf, Latest
      <4>5. DOMAIN new = DOMAIN old /\ StatusOf(new) = s
        BY <3>3, <4>3, <4>4, AnsweredRow DEF NodeStatus
      <4>6. Newest(old) \in DOMAIN new /\ new[Newest(old)].status = "succeeded"
        BY <3>3, <4>4, <4>5, NewestIsGreatest DEF StatusOf, Newest
      <4>7. Tidy(old, new)
        BY <2>3, <3>5, <4>1, <4>2 DEF TidyRows
      <4>8. QED
        BY <4>4, <4>6, <4>7 DEF Tidy
    <3>6. CASE ~(r \in Runs /\ n \in Nodes)
      <4>1. rows = [q \in Runs |-> [m \in Nodes |-> rows[q][m]]]
        BY DEF IInv, TypeOK, StateTypeOK
      <4>2. rows' = rows
        BY <3>4, <3>6, <4>1
      <4>3. QED
        BY <2>3, <4>2
    <3>7. QED
      BY <3>5, <3>6
  <2>4. QED
    BY <2>1, <2>2, <2>3
<1>7. CASE UNCHANGED rows
  BY <1>7, SameSpares
<1>8. \/ CancelSkip(h) \/ RejectSkip(h) \/ RetryReset(h)
      \/ UNCHANGED rows \/ Clear(h)
      \/ \E verdict \in {"approved", "rejected"} : Decide(h, verdict)
  <2>1. CASE ControlStep(h)
    BY <2>1 DEF ControlStep, LaunchCommit, LaunchCommitFails, LaunchEnqueue, LaunchFails,
       CancelFlag, CancelFinish, CloseQuestions, ReleaseLock, RetryLock, RetryClear, Requeue,
       Enqueue, EnqueueFails
  <2>2. CASE DecisionStep(h)
    BY <2>2 DEF DecisionStep, DecideConflict, ResumeLock, RejectFinish, CloseQuestions
  <2>3. CASE ControlRequest(h)
    BY <2>3 DEF ControlRequest, LaunchLock, CancelLoad, RetryLoad
  <2>4. CASE DecisionRequest(h)
    BY <2>4 DEF DecisionRequest, DecideLoad, ClearLoad
  <2>5. QED
    BY <2>1, <2>2, <2>3, <2>4
<1>9. QED
  BY <1>1, <1>2, <1>3, <1>5, <1>6, <1>7, <1>8

\* A dying worker drops its attempts and writes nothing.
LEMMA CrashSpares == ASSUME NEW w \in Workers, WorkerCrash(w) PROVE SparesRows
<1>1. \A r \in Runs, n \in Nodes : rows'[r][n] = Disown(rows[r][n], w)
  BY DEF WorkerCrash
<1>2. QED
  BY <1>1, DisownSpares DEF SparesRows

\* While nobody sweeps, every step spares what is in flight.
LEMMA StepSpares ==
    ASSUME Working, OneExecutor, reaper.pc = "resting", ~Sweeping, [Next]_vars
    PROVE  SparesRows /\ reaper'.pc = "resting"
<1>0. IInv /\ AskTypes /\ OneOpenQuestion /\ Flow(exec, rows, asks, api)
  BY DEF Working
<1>1. CASE \E w \in Workers : Work(w)
  BY <1>0, <1>1, WorkerSpares DEF Work
<1>2. CASE \E h \in Handlers : Serve(h)
  BY <1>0, <1>2, RequestSpares DEF Serve
<1>3. CASE \E r \in Runs : Expiry(r)
  BY <1>3, SameSpares DEF Expiry, BeatExpires
<1>4. CASE Sweep
  BY <1>4 DEF Sweep, ReaperStep, ListStale, CheckBeat, ReapLoad, ReapFinish, ReapExpire,
              ReapRelease
<1>5. CASE Surprise
  <2>1. \/ \E h \in Handlers : ControlRequest(h) \/ DecisionRequest(h)
        \/ \E w \in Workers : WorkerCrash(w)
        \/ UNCHANGED rows
    BY <1>5 DEF Surprise, ApiCrash, SubmitTask, LockExpires, ReaperCrash
  <2>2. SparesRows
    BY <1>0, <2>1, RequestSpares, CrashSpares, SameSpares
  <2>3. reaper'.pc = "resting"
    BY <1>5 DEF Surprise, ReaperCrash
  <2>4. QED
    BY <2>2, <2>3
<1>6. CASE UNCHANGED vars
  BY <1>6, SameSpares DEF vars
<1>7. QED
  BY <1>1, <1>2, <1>3, <1>4, <1>5, <1>6 DEF Next

\* An attempt in flight in a live worker is failed by nobody else: the sweep a
\* worker starts with meets only what dead workers left (fail_stale_running).
\* The sweep of the reaper, which runs elsewhere, goes by the heartbeat alone.
THEOREM LiveRowsAreSpared == ~Sweeping => (Spec /\ []OneExecutor => NoLiveRowFailed)
<1> SUFFICES ASSUME ~Sweeping PROVE Spec /\ []OneExecutor => NoLiveRowFailed
  OBVIOUS
<1>1. Init => Working /\ reaper.pc = "resting"
  BY WorkingInit DEF Init, ReaperInit, Resting
<1>2. Working /\ reaper.pc = "resting" /\ OneExecutor /\ [Next]_vars =>
          Working' /\ (reaper.pc = "resting")'
  BY WorkingStep, StepSpares
<1>3. Working /\ reaper.pc = "resting" /\ OneExecutor /\ [Next]_vars =>
          [\A r \in Runs, n \in Nodes : \A a \in DOMAIN rows[r][n] \cap DOMAIN rows[r][n]' :
             /\ rows[r][n][a].status = "running" /\ rows[r][n][a].by # NoWorker
             /\ rows[r][n][a].status' = "failed"
             => rows[r][n][a].by' = NoWorker]_vars
  BY StepSpares DEF SparesRows, Spared
<1>4. QED
  BY <1>1, <1>2, <1>3, PTL DEF Spec, NoLiveRowFailed

\* What one executor promises is promised whenever people take turns, however
\* many job slots there are and wherever a process dies.
THEOREM TurnsKeepPromises ==
    NobodyInterferes =>
        (Spec /\ []TakesTurns =>
            /\ []InputsFirst /\ []QuestionHasProposal /\ []SuccessIsComplete
            /\ GatesKept /\ NoLiveRowFailed
            /\ (\A n \in Nodes : Firm(n)) => NoRework)
<1>1. NobodyInterferes => (Spec /\ []TakesTurns => []OneExecutor)
  BY TurnsExclude
<1>2. NobodyInterferes => (Spec /\ []OneExecutor => NoLiveRowFailed)
  BY LiveRowsAreSpared DEF NobodyInterferes
<1>3. (\A n \in Nodes : Firm(n)) => (Spec /\ []OneExecutor => NoRework)
  BY SuccessIsNeverRedone
<1>4. QED
  BY <1>1, <1>2, <1>3, InputsComeFirst, QuestionsHaveProposals, SuccessesAreComplete,
     GatesArePromised, PTL

=============================================================================
