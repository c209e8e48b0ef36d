------------------------------ MODULE RunState ------------------------------
(***************************************************************************)
(* What outlives a process: the rows the API and the workers share through  *)
(* Postgres, and the keys they share through Redis (orchestrator/state.py,  *)
(* orchestrator/heartbeat.py, queue.py), with the writes RunStore, RunLock  *)
(* and CancelFlag make to them.  All runs of the model are runs of one      *)
(* project and one stage, so they compete for one lock key.                 *)
(***************************************************************************)
EXTENDS Dag, Sequences, SequencesExt

CONSTANTS
    Runs,           \* ids of the runs that may be launched
    Workers,        \* job slots of the worker process (max_jobs)
    NoWorker,       \* no session holds the row
    Deps,           \* the selected nodes and what each depends on
    Kind,           \* what each node does when its output validates
    Conditional,    \* gate and person-task nodes that may succeed without asking:
                    \* they found nothing to ask, or their output was cached
    NoRun,          \* nobody holds the lock
    Faults          \* the failures an instance may meet

Nodes == DOMAIN Deps

\* What a node's output leads to: nothing, an approval, an attested person-task
\* (H1 and H2), or the creative exception clearance (H3).
Kinds == {"work", "gate", "attest", "clear"}

\* A process dies in a job, in the sweep or in a request; a launch cannot commit;
\* an enqueue is refused; the lock's TTL runs out; the resources of a run cannot
\* be built.
FaultKinds == {"worker_crash", "reaper_crash", "api_crash", "commit", "enqueue",
               "lock_ttl", "resources"}

ASSUME GraphAssumption ==
    /\ IsFiniteSet(DOMAIN Deps)
    /\ Deps \in [DOMAIN Deps -> SUBSET DOMAIN Deps]
    /\ Acyclic(Deps)

ASSUME RunAssumption ==
    /\ NoRun \notin Runs
    /\ NoWorker \notin Workers
    /\ Kind \in [DOMAIN Deps -> Kinds]
    /\ Conditional \subseteq DOMAIN Deps
    /\ Faults \subseteq FaultKinds

VARIABLES
    status,     \* run.status; "none" until the launch commits the row
    started,    \* run.started_at is set
    rows,       \* node_run rows of each run and node, by attempt number: the status,
                \* and the worker whose session holds the row until its checkpoint
    asks,       \* approval rows of each run and gate, in the order asked
    tasks,      \* human_task rows of each run and person-task node
    jobs,       \* execute_run jobs waiting in the queue
    lock,       \* the run named in the project's lock key
    cancel,     \* the cancel flag of each run
    beat        \* the heartbeat key of each run exists

Terminal == {"succeeded", "failed", "cancelled"}

RunStatus == {"none", "queued", "running", "awaiting_approval",
              "awaiting_human_task"} \cup Terminal

NodeStatus == {"running", "awaiting_approval", "awaiting_human_task",
               "succeeded", "failed", "skipped"}

AskStatus == {"pending", "approved", "rejected", "expired"}

TaskStatus == {"outstanding", "closed"}

\* A node that was never reached.
NoRows == [a \in {} |-> a]

StateInit ==
    /\ status = [r \in Runs |-> "none"]
    /\ started = [r \in Runs |-> FALSE]
    /\ rows = [r \in Runs |-> [n \in Nodes |-> NoRows]]
    /\ asks = [r \in Runs |-> [n \in Nodes |-> <<>>]]
    /\ tasks = [r \in Runs |-> [n \in Nodes |-> <<>>]]
    /\ jobs = [r \in Runs |-> 0]
    /\ lock = NoRun
    /\ cancel = [r \in Runs |-> FALSE]
    /\ beat = [r \in Runs |-> FALSE]

RowTable == [status : NodeStatus, by : Workers \cup {NoWorker}]

IsTable(table) == DOMAIN table \subseteq Nat /\ table \in [DOMAIN table -> RowTable]

StateTypeOK ==
    /\ status \in [Runs -> RunStatus]
    /\ started \in [Runs -> BOOLEAN]
    /\ rows = [r \in Runs |-> [n \in Nodes |-> rows[r][n]]]
    /\ \A r \in Runs, n \in Nodes : IsTable(rows[r][n])
    /\ asks \in [Runs -> [Nodes -> Seq(AskStatus)]]
    /\ tasks \in [Runs -> [Nodes -> Seq(TaskStatus)]]
    /\ jobs \in [Runs -> Nat]
    /\ lock \in Runs \cup {NoRun}
    /\ cancel \in [Runs -> BOOLEAN]
    /\ beat \in [Runs -> BOOLEAN]

-----------------------------------------------------------------------------
(* Reads                                                                    *)

\* The status of the newest attempt, "absent" when the node was never reached.
Newest(table) == Max(DOMAIN table)
Latest(r, n) ==
    IF DOMAIN rows[r][n] = {} THEN "absent" ELSE rows[r][n][Newest(rows[r][n])].status

\* Nodes whose newest attempt has status s.
InStatus(r, s) == {n \in Nodes : Latest(r, n) = s}

\* The node's question is still open.
Pending(r, n) == \E i \in 1..Len(asks[r][n]) : asks[r][n][i] = "pending"

Outstanding(r, n) == \E i \in 1..Len(tasks[r][n]) : tasks[r][n][i] = "outstanding"

\* The lock is free for run r: nobody holds it, or r itself does.
LockFree(r) == lock \in {NoRun, r}

-----------------------------------------------------------------------------
(* Writes: the new value of a run's rows, or of the lock                    *)

Row(s, w) == [status |-> s, by |-> w]

\* The row of attempt a is inserted.
WithRow(table, a, row) == [i \in DOMAIN table \cup {a} |-> IF i = a THEN row ELSE table[i]]

\* The newest row gets status s; no row, no write.
SetLast(table, s) ==
    IF DOMAIN table = {} THEN table ELSE [table EXCEPT ![Newest(table)].status = s]

\* Every row that has status s gets status t.
Move(table, s, t) ==
    [a \in DOMAIN table |->
        IF table[a].status = s THEN [table[a] EXCEPT !.status = t] ELSE table[a]]

\* RunStore.record_skipped: nodes of S that were never reached or are in
\* flight become skipped; rows that already say what happened stay.
SkipOne(table) ==
    IF DOMAIN table = {} THEN WithRow(table, 1, Row("skipped", NoWorker))
    ELSE IF table[Newest(table)].status = "running" THEN SetLast(table, "skipped")
    ELSE table
Skip(tables, S) == [n \in Nodes |-> IF n \in S THEN SkipOne(tables[n]) ELSE tables[n]]

\* RunStore.fail_stale_running: every row a dead worker left in flight.
FailStale(tables) == [n \in Nodes |-> Move(tables[n], "running", "failed")]

\* Mutant: retry-failed starts from nothing, what succeeded included.
RetryableAnything(row) == row.status # "awaiting_approval"

\* Mutant: what waits for a person is taken for unfinished work, too.
RetryableWaiting(row) == row.status # "succeeded"

\* RunStore.reset_failed deletes the failed and the skipped rows.
Retryable(row) == row.status \in {"failed", "skipped"}
Reset(tables) ==
    [n \in Nodes |->
        Restrict(tables[n], {a \in DOMAIN tables[n] : ~Retryable(tables[n][a])})]

\* Mutant: the UPDATE closes every question of the run, answered ones too.
ExpireAnswered(table) ==
    [n \in Nodes |-> [i \in 1..Len(table[n]) |-> "expired"]]

\* approvals.expire_pending: close the questions that are still open.
Expire(table) ==
    [n \in Nodes |->
        [i \in 1..Len(table[n]) |->
            IF table[n][i] = "pending" THEN "expired" ELSE table[n][i]]]

\* RunLock.release: only if r still holds it.
Released(r) == IF lock = r THEN NoRun ELSE lock

=============================================================================
