----------------------------- MODULE RunControl -----------------------------
(***************************************************************************)
(* The requests an operator makes about a run: launch (orchestrator/        *)
(* launch.py), cancel and retry-failed (api/routes_runs.py).  A request is  *)
(* one handler with local variables; every action is the code between two   *)
(* commits or two Redis commands, and run.status is what the handler's      *)
(* session loaded at the start, however long ago that was.                  *)
(***************************************************************************)
EXTENDS RunState

CONSTANTS
    Handlers,       \* requests that may be in progress at the same time
    Requests,       \* the kinds of request people make in the instance
    MaxRetries      \* bound: accepted retry-failed requests per run

RequestKinds == {"launch", "cancel", "retry", "decide", "task"}

ASSUME ControlAssumption ==
    /\ Requests \subseteq RequestKinds
    /\ MaxRetries \in Nat

VARIABLES
    api,            \* what each handler is doing, with its local variables
    retries         \* retry-failed requests accepted so far, for the bound

\* node and ask name the approval row a decision is about.
Free == [pc |-> "free", run |-> NoRun, seen |-> "none", node |-> "none", ask |-> 0]

ApiPc == {"free", "launch_commit", "launch_enqueue", "cancel_flag", "cancel_finish",
          "cancel_skip", "expire", "release", "retry_lock", "retry_reset",
          "retry_clear", "requeue", "enqueue", "decide", "resume_lock",
          "reject_skip", "reject_finish", "clear"}

Handler == [pc : ApiPc, run : Runs \cup {NoRun}, seen : RunStatus,
            node : Nodes \cup {"none"}, ask : Nat]

ControlTypeOK ==
    /\ api \in [Handlers -> Handler]
    /\ retries \in [Runs -> Nat]

ControlInit ==
    /\ api = [h \in Handlers |-> Free]
    /\ retries = [r \in Runs |-> 0]

To(h, pc) == api' = [api EXCEPT ![h].pc = pc]
Done(h) == api' = [api EXCEPT ![h] = Free]

\* A handler starts: it loads run r and goes on at pc.
Load(h, r, pc) ==
    /\ api[h].pc = "free"
    /\ api' = [api EXCEPT ![h] = [Free EXCEPT !.pc = pc, !.run = r, !.seen = status[r]]]

-----------------------------------------------------------------------------
(* launch                                                                   *)

\* Mutant: SET without NX.
LaunchLockTaken(h, r) ==
    /\ status[r] = "none"
    /\ \A g \in Handlers : api[g].run # r
    /\ Load(h, r, "launch_commit")
    /\ lock' = r
    /\ UNCHANGED <<status, started, rows, asks, tasks, jobs, cancel, beat, retries>>

\* SET NX on the lock for a run whose row is flushed and not committed. If it
\* is taken the launch is refused and leaves nothing behind.
LaunchLock(h, r) ==
    /\ status[r] = "none"
    /\ lock = NoRun
    /\ \A g \in Handlers : api[g].run # r
    /\ Load(h, r, "launch_commit")
    /\ lock' = r
    /\ UNCHANGED <<status, started, rows, asks, tasks, jobs, cancel, beat, retries>>

LaunchCommit(h) ==
    /\ api[h].pc = "launch_commit"
    /\ status' = [status EXCEPT ![api[h].run] = "queued"]
    /\ To(h, "launch_enqueue")
    /\ UNCHANGED <<started, rows, asks, tasks, jobs, lock, cancel, beat, retries>>

\* The commit fails: the lock is given back and no row exists.
LaunchCommitFails(h) ==
    /\ api[h].pc = "launch_commit"
    /\ "commit" \in Faults
    /\ To(h, "release")
    /\ UNCHANGED <<status, started, rows, asks, tasks, jobs, lock, cancel, beat, retries>>

LaunchEnqueue(h) ==
    /\ api[h].pc = "launch_enqueue"
    /\ jobs' = [jobs EXCEPT ![api[h].run] = @ + 1]
    /\ Done(h)
    /\ UNCHANGED <<status, started, rows, asks, tasks, lock, cancel, beat, retries>>

\* The queue is unreachable: the run is failed, then the lock given back.
LaunchFails(h) ==
    /\ api[h].pc = "launch_enqueue"
    /\ "enqueue" \in Faults
    /\ status' = [status EXCEPT ![api[h].run] = "failed"]
    /\ To(h, "release")
    /\ UNCHANGED <<started, rows, asks, tasks, jobs, lock, cancel, beat, retries>>

-----------------------------------------------------------------------------
(* cancel                                                                   *)

CancelLoad(h, r) ==
    /\ status[r] \notin Terminal \cup {"none"}
    /\ Load(h, r, "cancel_flag")
    /\ UNCHANGED <<status, started, rows, asks, tasks, jobs, lock, cancel, beat, retries>>

\* The flag is set whatever the status; the run is finalised here only if no
\* worker was inside it when it was loaded.
CancelFlag(h) ==
    /\ api[h].pc = "cancel_flag"
    /\ cancel' = [cancel EXCEPT ![api[h].run] = TRUE]
    /\ IF api[h].seen \in {"queued", "awaiting_approval"}
       THEN To(h, "cancel_finish") ELSE Done(h)
    /\ UNCHANGED <<status, started, rows, asks, tasks, jobs, lock, beat, retries>>

CancelFinish(h) ==
    /\ api[h].pc = "cancel_finish"
    /\ status' = [status EXCEPT ![api[h].run] = "cancelled"]
    /\ To(h, "cancel_skip")
    /\ UNCHANGED <<started, rows, asks, tasks, jobs, lock, cancel, beat, retries>>

CancelSkip(h) ==
    /\ api[h].pc = "cancel_skip"
    /\ rows' = [rows EXCEPT ![api[h].run] = Skip(@, Nodes)]
    /\ To(h, "expire")
    /\ UNCHANGED <<status, started, asks, tasks, jobs, lock, cancel, beat, retries>>

\* Shared by every handler that ends a run: the open questions are closed, the
\* lock goes back.
CloseQuestions(h) ==
    /\ api[h].pc = "expire"
    /\ asks' = [asks EXCEPT ![api[h].run] = Expire(@)]
    /\ To(h, "release")
    /\ UNCHANGED <<status, started, rows, tasks, jobs, lock, cancel, beat, retries>>

ReleaseLock(h) ==
    /\ api[h].pc = "release"
    /\ lock' = Released(api[h].run)
    /\ Done(h)
    /\ UNCHANGED <<status, started, rows, asks, tasks, jobs, cancel, beat, retries>>

-----------------------------------------------------------------------------
(* retry-failed                                                             *)

RetryLoad(h, r) ==
    /\ status[r] \in Terminal
    /\ retries[r] < MaxRetries
    /\ Load(h, r, "retry_lock")
    /\ retries' = [retries EXCEPT ![r] = @ + 1]
    /\ UNCHANGED <<status, started, rows, asks, tasks, jobs, lock, cancel, beat>>

\* The lock comes first; another run's lock refuses the request.
RetryLock(h) ==
    LET r == api[h].run
    IN  /\ api[h].pc = "retry_lock"
        /\ IF LockFree(r) THEN lock' = r /\ To(h, "retry_reset")
           ELSE UNCHANGED lock /\ Done(h)
        /\ UNCHANGED <<status, started, rows, asks, tasks, jobs, cancel, beat, retries>>

\* Mutant: with nothing to retry the request returns at once.
RetryNothing(h) ==
    LET r == api[h].run
        found == \E n \in Nodes : \E a \in DOMAIN rows[r][n] : Retryable(rows[r][n][a])
    IN  /\ api[h].pc = "retry_reset"
        /\ rows' = [rows EXCEPT ![r] = Reset(@)]
        /\ IF found THEN To(h, "retry_clear") ELSE Done(h)
        /\ UNCHANGED <<status, started, asks, tasks, jobs, lock, cancel, beat, retries>>

\* reset_failed; with nothing to retry the lock is given back.
RetryReset(h) ==
    LET r == api[h].run
        found == \E n \in Nodes : \E a \in DOMAIN rows[r][n] : Retryable(rows[r][n][a])
    IN  /\ api[h].pc = "retry_reset"
        /\ rows' = [rows EXCEPT ![r] = Reset(@)]
        /\ To(h, IF found THEN "retry_clear" ELSE "release")
        /\ UNCHANGED <<status, started, asks, tasks, jobs, lock, cancel, beat, retries>>

RetryClear(h) ==
    /\ api[h].pc = "retry_clear"
    /\ cancel' = [cancel EXCEPT ![api[h].run] = FALSE]
    /\ To(h, "requeue")
    /\ UNCHANGED <<status, started, rows, asks, tasks, jobs, lock, beat, retries>>

-----------------------------------------------------------------------------
(* Shared by retry and by every resume                                      *)

\* Mutant: the status says queued and nothing is put in the queue.
RequeueOnly(h) ==
    /\ api[h].pc = "requeue"
    /\ status' = [status EXCEPT ![api[h].run] = "queued"]
    /\ Done(h)
    /\ UNCHANGED <<started, rows, asks, tasks, jobs, lock, cancel, beat, retries>>

\* The run is queued again, then its job is put in the queue.
Requeue(h) ==
    /\ api[h].pc = "requeue"
    /\ status' = [status EXCEPT ![api[h].run] = "queued"]
    /\ To(h, "enqueue")
    /\ UNCHANGED <<started, rows, asks, tasks, jobs, lock, cancel, beat, retries>>

Enqueue(h) ==
    /\ api[h].pc = "enqueue"
    /\ jobs' = [jobs EXCEPT ![api[h].run] = @ + 1]
    /\ Done(h)
    /\ UNCHANGED <<status, started, rows, asks, tasks, lock, cancel, beat, retries>>

\* The queue is unreachable: the exception leaves the committed row as it is.
EnqueueFails(h) ==
    /\ api[h].pc = "enqueue"
    /\ "enqueue" \in Faults
    /\ Done(h)
    /\ UNCHANGED <<status, started, rows, asks, tasks, jobs, lock, cancel, beat, retries>>

\* The API process dies with the request half done.
ApiCrash(h) ==
    /\ "api_crash" \in Faults
    /\ api[h].pc # "free"
    /\ Done(h)
    /\ UNCHANGED <<status, started, rows, asks, tasks, jobs, lock, cancel, beat, retries>>

\* The next step of a request that is in progress.
ControlStep(h) ==
    \/ LaunchCommit(h) \/ LaunchCommitFails(h)
    \/ LaunchEnqueue(h) \/ LaunchFails(h)
    \/ CancelFlag(h) \/ CancelFinish(h) \/ CancelSkip(h)
    \/ CloseQuestions(h) \/ ReleaseLock(h)
    \/ RetryLock(h) \/ RetryReset(h) \/ RetryClear(h)
    \/ Requeue(h) \/ Enqueue(h) \/ EnqueueFails(h)

ControlRequest(h) ==
    \E r \in Runs :
        \/ "launch" \in Requests /\ LaunchLock(h, r)
        \/ "cancel" \in Requests /\ CancelLoad(h, r)
        \/ "retry" \in Requests /\ RetryLoad(h, r)

=============================================================================
