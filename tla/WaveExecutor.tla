---------------------------- MODULE WaveExecutor ----------------------------
(***************************************************************************)
(* RunExecutor.execute (orchestrator/executor.py) inside the worker's jobs. *)
(* Every action is the code between two commits or two Redis commands of    *)
(* one worker, so that the requests and the reaper can come in between.     *)
(* The nodes of one wave run concurrently and commit on their own sessions. *)
(***************************************************************************)
EXTENDS RunState

CONSTANTS
    WaveConcurrency,    \* nodes of one wave in flight at a time
    MaxNodeAttempts,    \* attempts per node and pass, the first included
    MaxGatePasses       \* passes of one execute() over the waves

ASSUME ExecutorAssumption ==
    /\ WaveConcurrency \in Nat \ {0}
    /\ MaxNodeAttempts \in Nat \ {0}
    /\ MaxGatePasses \in Nat \ {0}

VARIABLE exec           \* what each worker is doing, with its local variables

\* Where a node of the current wave is: not in it, not started, its attempt
\* numbered, in flight, waiting to be retried, or done one way or another;
\* "broken" when the database refused one of its writes. An attempt in flight
\* that needs a person has looked for an open question, and "found" one or is
\* "asking" its own.
Underway == {"running", "found", "asking"}
Progress == {"none", "todo", "numbered", "backoff", "ok", "halted", "failed",
             "broken"} \cup Underway

NotInWave == [n \in Nodes |-> "none"]

\* pc: the last step done.  seen: run.status as this session loaded it.
\* outputs, halted, waiting, blocked: the sets _run_waves keeps; wave, at and
\* tries: the wave it runs, how far each node is and how often it was tried;
\* base: the number of the node's first attempt in the wave; pass: how often the
\* gate-pass loop was entered; outcome: the terminal status about to be written.
Idle == [pc |-> "idle", run |-> NoRun, seen |-> "none",
         outputs |-> {}, halted |-> {}, waiting |-> {}, blocked |-> {},
         wave |-> 0, at |-> NotInWave, tries |-> [n \in Nodes |-> 0],
         base |-> [n \in Nodes |-> 0], pass |-> 0, outcome |-> "none"]

ExecPc == {"idle", "loaded", "aborting", "aborted", "swept", "marked", "pass",
           "between", "wave", "over_budget", "parking", "park_tasks", "paused",
           "ending", "finishing", "finished", "expired", "released"}

Job == [pc : ExecPc, run : Runs \cup {NoRun}, seen : RunStatus,
        outputs : SUBSET Nodes, halted : SUBSET Nodes, waiting : SUBSET Nodes,
        blocked : SUBSET Nodes, wave : Nat, at : [Nodes -> Progress],
        tries : [Nodes -> Nat], base : [Nodes -> Nat], pass : Nat,
        outcome : Terminal \cup {"none"}]

ExecTypeOK == exec \in [Workers -> Job]

ExecInit == exec = [w \in Workers |-> Idle]

Go(w, pc) == exec' = [exec EXCEPT ![w].pc = pc]
GoFinish(w, outcome) ==
    exec' = [exec EXCEPT ![w].pc = "ending", ![w].outcome = outcome,
                         ![w].at = NotInWave, ![w].tries = Idle.tries,
                         ![w].base = Idle.base]

\* The background task of RunHeartbeat ticks from its first beat to the end of
\* the wave loop, and the key outlives the few writes that follow.
Beating(w, r) ==
    exec[w].run = r /\ exec[w].pc \notin {"idle", "loaded", "swept", "marked", "aborting", "aborted"}

Downstream(S) == UNION {Descendants(Deps, n) : n \in S}

-----------------------------------------------------------------------------
(* Before the first wave                                                    *)

\* Mutant: a job is handed out again while it is executed.
DequeueAgain(w, r) ==
    /\ exec[w].pc = "idle"
    /\ status[r] \notin Terminal \cup {"none"}
    /\ jobs' = [jobs EXCEPT ![r] = @ - 1]
    /\ exec' = [exec EXCEPT ![w] =
                  [Idle EXCEPT !.pc = "loaded", !.run = r, !.seen = status[r]]]
    /\ UNCHANGED <<status, started, rows, asks, tasks, lock, cancel, beat>>

\* The job is taken and the run loaded; a run that already ended is left alone.
Dequeue(w, r) ==
    /\ exec[w].pc = "idle"
    /\ jobs[r] > 0
    /\ jobs' = [jobs EXCEPT ![r] = @ - 1]
    /\ exec' = IF status[r] \in Terminal THEN exec
               ELSE [exec EXCEPT ![w] =
                        [Idle EXCEPT !.pc = "loaded", !.run = r, !.seen = status[r]]]
    /\ UNCHANGED <<status, started, rows, asks, tasks, lock, cancel, beat>>

\* Selected nodes that will now never run.
Unreached(r) == InStatus(r, "absent") \cup InStatus(r, "running")

\* A credential, the routing, the plan input or the creative input is missing:
\* _abort skips everything, fails the run and gives the lock back.
Abort(w) ==
    /\ exec[w].pc = "loaded"
    /\ "resources" \in Faults
    /\ rows' = [rows EXCEPT ![exec[w].run] = Skip(@, Unreached(exec[w].run))]
    /\ Go(w, "aborting")
    /\ UNCHANGED <<status, started, asks, tasks, jobs, lock, cancel, beat>>

AbortFinish(w) ==
    /\ exec[w].pc = "aborting"
    /\ status' = [status EXCEPT ![exec[w].run] = "failed"]
    /\ Go(w, "aborted")
    /\ UNCHANGED <<started, rows, asks, tasks, jobs, lock, cancel, beat>>

\* Mutant: the early exit forgets the lock.
AbortKeepsLock(w) ==
    /\ exec[w].pc = "aborted"
    /\ exec' = [exec EXCEPT ![w] = Idle]
    /\ UNCHANGED <<status, started, rows, asks, tasks, jobs, lock, cancel, beat>>

AbortRelease(w) ==
    /\ exec[w].pc = "aborted"
    /\ lock' = Released(exec[w].run)
    /\ exec' = [exec EXCEPT ![w] = Idle]
    /\ UNCHANGED <<status, started, rows, asks, tasks, jobs, cancel, beat>>

\* Mutant: the sweep forgets to filter by run.
SweepEveryRun(w) ==
    /\ exec[w].pc = "loaded"
    /\ rows' = [r \in Runs |-> FailStale(rows[r])]
    /\ Go(w, "swept")
    /\ UNCHANGED <<status, started, asks, tasks, jobs, lock, cancel, beat>>

\* Rows a dead worker left in flight are closed out.
SweepStale(w) ==
    /\ exec[w].pc = "loaded"
    /\ rows' = [rows EXCEPT ![exec[w].run] = FailStale(@)]
    /\ Go(w, "swept")
    /\ UNCHANGED <<status, started, asks, tasks, jobs, lock, cancel, beat>>

\* mark_running. The session writes the status only if it differs from the one
\* it loaded.
MarkRunning(w) ==
    /\ exec[w].pc = "swept"
    /\ status' = IF exec[w].seen = "running" THEN status
                 ELSE [status EXCEPT ![exec[w].run] = "running"]
    /\ started' = [started EXCEPT ![exec[w].run] = TRUE]
    /\ exec' = [exec EXCEPT ![w].pc = "marked", ![w].seen = "none"]
    /\ UNCHANGED <<rows, asks, tasks, jobs, lock, cancel, beat>>

\* RunHeartbeat.__aenter__: one beat before the first wave.
FirstBeat(w) ==
    /\ exec[w].pc = "marked"
    /\ beat' = [beat EXCEPT ![exec[w].run] = TRUE]
    /\ Go(w, "pass")
    /\ UNCHANGED <<status, started, rows, asks, tasks, jobs, lock, cancel>>

-----------------------------------------------------------------------------
(* One pass over the waves                                                  *)

\* _run_waves starts from the rows: what succeeded is an output, an open gate
\* halts its branch.
BeginPass(w) ==
    LET r == exec[w].run
        open == InStatus(r, "awaiting_approval")
    IN  /\ exec[w].pc = "pass"
        /\ exec[w].pass < MaxGatePasses
        /\ exec' = [exec EXCEPT ![w].pc = "between",
                                ![w].pass = @ + 1,
                                ![w].wave = 0,
                                ![w].outputs = InStatus(r, "succeeded"),
                                ![w].halted = open,
                                ![w].waiting = Downstream(open),
                                ![w].blocked = {}]
        /\ UNCHANGED <<status, started, rows, asks, tasks, jobs, lock, cancel, beat>>

\* The for loop over MAX_GATE_PASSES is exhausted: the status it started from
\* is kept.
PassesExhausted(w) ==
    /\ exec[w].pc = "pass"
    /\ exec[w].pass = MaxGatePasses
    /\ GoFinish(w, "succeeded")
    /\ UNCHANGED <<status, started, rows, asks, tasks, jobs, lock, cancel, beat>>

\* Mutants: one of the sets a wave leaves out is forgotten.
ToRunOpen(e, k) == Wave(Deps, k) \ (e.outputs \cup e.blocked \cup e.waiting)
ToRunWaiting(e, k) == Wave(Deps, k) \ (e.outputs \cup e.blocked \cup e.halted)

\* What worker e still has to run in wave k.
ToRun(e, k) == Wave(Deps, k) \ (e.outputs \cup e.blocked \cup e.halted \cup e.waiting)

Later(e) == {k \in (e.wave + 1)..Cardinality(Nodes) : ToRun(e, k) # {}}

\* _check_cancelled before every wave and after it.
StopCancelled(w) ==
    /\ exec[w].pc = "between"
    /\ cancel[exec[w].run]
    /\ GoFinish(w, "cancelled")
    /\ UNCHANGED <<status, started, rows, asks, tasks, jobs, lock, cancel, beat>>

NextWave(w) ==
    /\ exec[w].pc = "between"
    /\ ~cancel[exec[w].run]
    /\ \E k \in Later(exec[w]) :
         /\ \A j \in Later(exec[w]) : k <= j
         /\ exec' = [exec EXCEPT
                      ![w].pc = "wave", ![w].wave = k,
                      ![w].at = [n \in Nodes |->
                          IF n \in ToRun(exec[w], k) THEN "todo" ELSE "none"]]
    /\ UNCHANGED <<status, started, rows, asks, tasks, jobs, lock, cancel, beat>>

\* Mutant: a run whose gates are open is taken for complete.
EndPassHalted(w) ==
    /\ exec[w].pc = "between"
    /\ ~cancel[exec[w].run]
    /\ Later(exec[w]) = {}
    /\ GoFinish(w, IF exec[w].blocked # {} THEN "failed" ELSE "succeeded")
    /\ UNCHANGED <<status, started, rows, asks, tasks, jobs, lock, cancel, beat>>

\* The last wave is done: a blocked node fails the run, no halted node means it
\* succeeded, and otherwise the run may park.
EndPass(w) ==
    /\ exec[w].pc = "between"
    /\ ~cancel[exec[w].run]
    /\ Later(exec[w]) = {}
    /\ IF exec[w].blocked # {} THEN GoFinish(w, "failed")
       ELSE IF exec[w].halted = {} THEN GoFinish(w, "succeeded")
       ELSE Go(w, "parking")
    /\ UNCHANGED <<status, started, rows, asks, tasks, jobs, lock, cancel, beat>>

-----------------------------------------------------------------------------
(* One node of the wave                                                     *)

InFlight(w) == {n \in Nodes : exec[w].at[n] \in {"numbered", "backoff"} \cup Underway}

\* A node takes a slot of the wave's semaphore and numbers its first attempt
\* after the newest there is (_next_attempt).
NumberNode(w, n) ==
    LET table == rows[exec[w].run][n]
    IN  /\ exec[w].pc = "wave"
        /\ exec[w].at[n] = "todo"
        /\ Cardinality(InFlight(w)) < WaveConcurrency
        /\ exec' = [exec EXCEPT ![w].at[n] = "numbered",
                                ![w].base[n] = IF DOMAIN table = {} THEN 1
                                               ELSE Newest(table) + 1]
        /\ UNCHANGED <<status, started, rows, asks, tasks, jobs, lock, cancel, beat>>

\* The attempt the node is about to start.
Attempt(w, n) == exec[w].base[n] + exec[w].tries[n]

\* The row of the attempt is committed.
StartNode(w, n) ==
    LET table == rows[exec[w].run][n]
    IN  /\ exec[w].pc = "wave"
        /\ exec[w].at[n] \in {"numbered", "backoff"}
        /\ Attempt(w, n) \notin DOMAIN table
        /\ rows' = [rows EXCEPT ![exec[w].run][n] =
                       WithRow(@, Attempt(w, n), Row("running", w))]
        /\ exec' = [exec EXCEPT ![w].at[n] = "running", ![w].tries[n] = @ + 1]
        /\ UNCHANGED <<status, started, asks, tasks, jobs, lock, cancel, beat>>

\* uq_node_run_attempt: another executor has taken the number, the insert
\* raises outside of what _run_node handles.
NumberTaken(w, n) ==
    /\ exec[w].pc = "wave"
    /\ exec[w].at[n] \in {"numbered", "backoff"}
    /\ Attempt(w, n) \in DOMAIN rows[exec[w].run][n]
    /\ exec' = [exec EXCEPT ![w].at[n] = "broken"]
    /\ UNCHANGED <<status, started, rows, asks, tasks, jobs, lock, cancel, beat>>

\* The attempts of node n that worker w has in flight.
Held(w, n) == {i \in DOMAIN rows[exec[w].run][n] : rows[exec[w].run][n][i].by = w}

\* What a session that is gone held is in flight in nobody.
Disown(table, w) ==
    [a \in DOMAIN table |->
        IF table[a].by = w THEN [table[a] EXCEPT !.by = NoWorker] ELSE table[a]]

\* The checkpoint of an attempt: its row gets status s, whatever was written
\* there meanwhile, and the wave sees result p.
Checkpoint(w, n, s, p) ==
    /\ exec[w].pc = "wave"
    /\ exec[w].at[n] \in Underway
    /\ \E i \in Held(w, n) : rows' = [rows EXCEPT ![exec[w].run][n][i] = Row(s, NoWorker)]
    /\ exec' = [exec EXCEPT ![w].at[n] = p]

\* reset_failed deleted the row under the attempt: the flush finds nothing to
\* update and the exception leaves the node's retry loop.
RowLost(w, n) ==
    /\ exec[w].pc = "wave"
    /\ exec[w].at[n] \in Underway
    /\ Held(w, n) = {}
    /\ exec' = [exec EXCEPT ![w].at[n] = "broken"]
    /\ UNCHANGED <<status, started, rows, asks, tasks, jobs, lock, cancel, beat>>

\* Mutant: a gate's own output is taken for the answer.
NodeSucceedsUnasked(w, n) ==
    /\ exec[w].at[n] = "running"
    /\ Checkpoint(w, n, "succeeded", "ok")
    /\ UNCHANGED <<status, started, asks, tasks, jobs, lock, cancel, beat>>

NodeSucceeds(w, n) ==
    /\ exec[w].at[n] = "running"
    /\ Kind[n] = "work" \/ n \in Conditional
    /\ Checkpoint(w, n, "succeeded", "ok")
    /\ UNCHANGED <<status, started, asks, tasks, jobs, lock, cancel, beat>>

\* The attempt raised. A credential error ends the node at once; anything else
\* is retried until the attempts are used up.
NodeFails(w, n) ==
    /\ exec[w].at[n] = "running"
    /\ \/ Checkpoint(w, n, "failed", "failed")
       \/ /\ exec[w].tries[n] < MaxNodeAttempts
          /\ Checkpoint(w, n, "failed", "backoff")
    /\ UNCHANGED <<status, started, asks, tasks, jobs, lock, cancel, beat>>

\* The SELECT of approvals.open_gate and of tasks.open_task: is the question, or
\* the person-task, open already?
FindOpen(w, n) ==
    LET r == exec[w].run
    IN  /\ exec[w].pc = "wave"
        /\ exec[w].at[n] = "running"
        /\ Kind[n] # "work"
        /\ exec' = [exec EXCEPT ![w].at[n] =
                        IF Pending(r, n) \/ Outstanding(r, n) THEN "found" ELSE "asking"]
        /\ UNCHANGED <<status, started, rows, asks, tasks, jobs, lock, cancel, beat>>

\* _open_gate: the proposal and the question commit together; a question that
\* was found open is not asked again.
OpenGate(w, n) ==
    LET r == exec[w].run
    IN  /\ Kind[n] = "gate"
        /\ \/ exec[w].at[n] = "found" /\ UNCHANGED asks
           \/ /\ exec[w].at[n] = "asking" /\ ~Pending(r, n)
              /\ asks' = [asks EXCEPT ![r][n] = Append(@, "pending")]
        /\ Checkpoint(w, n, "awaiting_approval", "halted")
        /\ UNCHANGED <<status, started, tasks, jobs, lock, cancel, beat>>

\* uq_approval_pending_per_gate: another executor has asked since. The INSERT
\* raises, and so does the attempt to record that on the same session: the row
\* stays as it is, in flight in nobody.
GateTaken(w, n) ==
    LET r == exec[w].run
    IN  /\ exec[w].pc = "wave"
        /\ exec[w].at[n] = "asking"
        /\ Kind[n] = "gate"
        /\ Pending(r, n)
        /\ rows' = [rows EXCEPT ![r][n] = Disown(@, w)]
        /\ exec' = [exec EXCEPT ![w].at[n] = "broken"]
        /\ UNCHANGED <<status, started, asks, tasks, jobs, lock, cancel, beat>>

\* _open_human_task: the same for a person-task, but no index forbids a second.
OpenTask(w, n) ==
    LET r == exec[w].run
    IN  /\ Kind[n] \in {"attest", "clear"}
        /\ \/ exec[w].at[n] = "found" /\ UNCHANGED tasks
           \/ /\ exec[w].at[n] = "asking"
              /\ tasks' = [tasks EXCEPT ![r][n] = Append(@, "outstanding")]
        /\ Checkpoint(w, n, "awaiting_human_task", "halted")
        /\ UNCHANGED <<status, started, asks, jobs, lock, cancel, beat>>

\* gather() returned: halted branches wait, failed ones are recorded skipped,
\* then the budget and the cancel flag are read.
EndWave(w) ==
    LET e == exec[w]
        Ended(p) == {n \in Nodes : e.at[n] = p}
        outputs == e.outputs \cup Ended("ok")
        cut == Downstream(Ended("failed")) \ outputs
    IN  /\ e.pc = "wave"
        /\ \A n \in Nodes : e.at[n] \in {"none", "ok", "halted", "failed"}
        /\ rows' = [rows EXCEPT ![e.run] = Skip(@, cut)]
        /\ \E next \in {"between", "over_budget"} :
             exec' = [exec EXCEPT ![w].pc = next, ![w].at = NotInWave,
                                  ![w].tries = Idle.tries, ![w].base = Idle.base,
                                  ![w].outputs = outputs,
                                  ![w].halted = @ \cup Ended("halted"),
                                  ![w].waiting = @ \cup Downstream(Ended("halted")),
                                  ![w].blocked = @ \cup Ended("failed") \cup cut]
        /\ UNCHANGED <<status, started, asks, tasks, jobs, lock, cancel, beat>>

\* An exception no node handles ends the run as failed, nothing of the wave is
\* recorded. (asyncio.gather raises at once; here the wave's other nodes finish
\* first.)
StopBroken(w) ==
    /\ exec[w].pc = "wave"
    /\ \A n \in Nodes : exec[w].at[n] \in {"none", "ok", "halted", "failed", "broken"}
    /\ \E n \in Nodes : exec[w].at[n] = "broken"
    /\ GoFinish(w, "failed")
    /\ UNCHANGED <<status, started, rows, asks, tasks, jobs, lock, cancel, beat>>

\* RunLedger.enforce raised.
StopOverBudget(w) ==
    /\ exec[w].pc = "over_budget"
    /\ GoFinish(w, "failed")
    /\ UNCHANGED <<status, started, rows, asks, tasks, jobs, lock, cancel, beat>>

-----------------------------------------------------------------------------
(* Parking                                                                  *)

\* approvals.park: under the row lock, park only if a question is still open.
ParkOnGate(w) ==
    LET r == exec[w].run
    IN  /\ exec[w].pc = "parking"
        /\ IF \E n \in Nodes : Pending(r, n)
           THEN status' = [status EXCEPT ![r] = "awaiting_approval"] /\ Go(w, "paused")
           ELSE UNCHANGED status /\ Go(w, "park_tasks")
        /\ UNCHANGED <<started, rows, asks, tasks, jobs, lock, cancel, beat>>

\* Mutant: the run leaves the worker although its task closed meanwhile.
ParkOnNothing(w) ==
    LET r == exec[w].run
    IN  /\ exec[w].pc = "park_tasks"
        /\ IF \E n \in Nodes : Outstanding(r, n)
           THEN status' = [status EXCEPT ![r] = "awaiting_human_task"]
           ELSE UNCHANGED status
        /\ Go(w, "paused")
        /\ UNCHANGED <<started, rows, asks, tasks, jobs, lock, cancel, beat>>

\* tasks.park, after the gates; if nothing is open, go round again.
ParkOnTask(w) ==
    LET r == exec[w].run
    IN  /\ exec[w].pc = "park_tasks"
        /\ IF \E n \in Nodes : Outstanding(r, n)
           THEN status' = [status EXCEPT ![r] = "awaiting_human_task"] /\ Go(w, "paused")
           ELSE UNCHANGED status /\ Go(w, "pass")
        /\ UNCHANGED <<started, rows, asks, tasks, jobs, lock, cancel, beat>>

\* The lock goes back, because a run can sit on a gate for days.
PauseRelease(w) ==
    /\ exec[w].pc = "paused"
    /\ lock' = Released(exec[w].run)
    /\ exec' = [exec EXCEPT ![w] = Idle]
    /\ UNCHANGED <<status, started, rows, asks, tasks, jobs, cancel, beat>>

-----------------------------------------------------------------------------
(* The end                                                                  *)

SkipUnreached(w) ==
    LET r == exec[w].run
    IN  /\ exec[w].pc = "ending"
        /\ rows' = IF exec[w].outcome = "succeeded" THEN rows
                   ELSE [rows EXCEPT ![r] = Skip(@, Unreached(r))]
        /\ Go(w, "finishing")
        /\ UNCHANGED <<status, started, asks, tasks, jobs, lock, cancel, beat>>

FinishRun(w) ==
    /\ exec[w].pc = "finishing"
    /\ status' = [status EXCEPT ![exec[w].run] = exec[w].outcome]
    /\ Go(w, "finished")
    /\ UNCHANGED <<started, rows, asks, tasks, jobs, lock, cancel, beat>>

ExpireGates(w) ==
    /\ exec[w].pc = "finished"
    /\ asks' = [asks EXCEPT ![exec[w].run] = Expire(@)]
    /\ Go(w, "expired")
    /\ UNCHANGED <<status, started, rows, tasks, jobs, lock, cancel, beat>>

FinishRelease(w) ==
    /\ exec[w].pc = "expired"
    /\ lock' = Released(exec[w].run)
    /\ Go(w, "released")
    /\ UNCHANGED <<status, started, rows, asks, tasks, jobs, cancel, beat>>

ClearCancel(w) ==
    /\ exec[w].pc = "released"
    /\ cancel' = [cancel EXCEPT ![exec[w].run] = FALSE]
    /\ exec' = [exec EXCEPT ![w] = Idle]
    /\ UNCHANGED <<status, started, rows, asks, tasks, jobs, lock, beat>>

-----------------------------------------------------------------------------
(* Failure and time                                                         *)

\* The process is killed or the job times out. MAX_TRIES = 1: the job is gone.
WorkerCrash(w) ==
    /\ "worker_crash" \in Faults
    /\ exec[w].pc # "idle"
    /\ exec' = [exec EXCEPT ![w] = Idle]
    /\ rows' = [r \in Runs |-> [n \in Nodes |-> Disown(rows[r][n], w)]]
    /\ UNCHANGED <<status, started, asks, tasks, jobs, lock, cancel, beat>>

\* The heartbeat key's TTL runs out once nobody beats.
BeatExpires(r) ==
    /\ beat[r]
    /\ ~\E w \in Workers : Beating(w, r)
    /\ beat' = [beat EXCEPT ![r] = FALSE]
    /\ UNCHANGED <<status, started, rows, asks, tasks, jobs, lock, cancel, exec>>

\* The lock's TTL runs out: its run waited too long in the queue, or nobody is
\* left to give the lock back. A worker inside the run refreshes it after every
\* wave, so it can only be late for the first.
LockExpires ==
    /\ "lock_ttl" \in Faults
    /\ lock # NoRun
    /\ \A w \in Workers : exec[w].run = lock => exec[w].wave = 0 /\ exec[w].pass <= 1
    /\ lock' = NoRun
    /\ UNCHANGED <<status, started, rows, asks, tasks, jobs, cancel, beat, exec>>

\* One step of worker w that does not depend on anybody's choice to fail it.
WorkerStep(w) ==
    \/ \E r \in Runs : Dequeue(w, r)
    \/ Abort(w) \/ AbortFinish(w) \/ AbortRelease(w)
    \/ SweepStale(w) \/ MarkRunning(w) \/ FirstBeat(w)
    \/ BeginPass(w) \/ PassesExhausted(w)
    \/ StopCancelled(w) \/ NextWave(w) \/ EndPass(w)
    \/ \E n \in Nodes : \/ NumberNode(w, n) \/ StartNode(w, n) \/ NumberTaken(w, n)
                        \/ NodeSucceeds(w, n) \/ NodeFails(w, n)
                        \/ FindOpen(w, n) \/ OpenGate(w, n) \/ GateTaken(w, n)
                        \/ OpenTask(w, n) \/ RowLost(w, n)
    \/ EndWave(w) \/ StopBroken(w) \/ StopOverBudget(w)
    \/ ParkOnGate(w) \/ ParkOnTask(w) \/ PauseRelease(w)
    \/ SkipUnreached(w) \/ FinishRun(w) \/ ExpireGates(w)
    \/ FinishRelease(w) \/ ClearCancel(w)

=============================================================================
