------------------------------ MODULE Decisions ------------------------------
(***************************************************************************)
(* What people answer: an approval decided (api/routes_approvals.py with    *)
(* orchestrator/approvals.py), an attestation submitted (api/routes_tasks.  *)
(* py), the creative exceptions cleared or withdrawn (api/                  *)
(* routes_creative_exceptions.py), and how an answer wakes or ends the run. *)
(***************************************************************************)
EXTENDS RunControl

\* The approval is found pending, then its run is loaded.
DecideLoad(h, r, n) ==
    /\ Pending(r, n)
    /\ api[h].pc = "free"
    /\ api' = [api EXCEPT ![h] = [pc |-> "decide", run |-> r, seen |-> status[r],
                                  node |-> n, ask |-> Len(asks[r][n])]]
    /\ UNCHANGED <<status, started, rows, asks, tasks, jobs, lock, cancel, beat, retries>>

\* Mutant: every decision resumes, also one made while the run executes.
DecideResumes(h, verdict) ==
    LET r == api[h].run
        n == api[h].node
    IN  /\ api[h].pc = "decide"
        /\ asks[r][n][api[h].ask] = "pending"
        /\ asks' = [asks EXCEPT ![r][n][api[h].ask] = verdict]
        /\ rows' = [rows EXCEPT ![r][n] =
                      SetLast(@, IF verdict = "approved" THEN "succeeded" ELSE "failed")]
        /\ To(h, IF verdict = "approved" THEN "resume_lock" ELSE "reject_skip")
        /\ UNCHANGED <<status, started, tasks, jobs, lock, cancel, beat, retries>>

\* approvals.decide, committed with the audit row under the run's row lock: the
\* UPDATE requires the approval to be pending still, the newest attempt of the
\* gate follows the verdict, and whether to resume is read off the run as it
\* was loaded.
Decide(h, verdict) ==
    LET r == api[h].run
        n == api[h].node
    IN  /\ api[h].pc = "decide"
        /\ asks[r][n][api[h].ask] = "pending"
        /\ asks' = [asks EXCEPT ![r][n][api[h].ask] = verdict]
        /\ rows' = [rows EXCEPT ![r][n] =
                      SetLast(@, IF verdict = "approved" THEN "succeeded" ELSE "failed")]
        /\ IF api[h].seen # "awaiting_approval" THEN Done(h)
           ELSE To(h, IF verdict = "approved" THEN "resume_lock" ELSE "reject_skip")
        /\ UNCHANGED <<status, started, tasks, jobs, lock, cancel, beat, retries>>

\* ApprovalConflict: somebody decided or closed it first, and is named.
DecideConflict(h) ==
    /\ api[h].pc = "decide"
    /\ asks[api[h].run][api[h].node][api[h].ask] # "pending"
    /\ Done(h)
    /\ UNCHANGED <<status, started, rows, asks, tasks, jobs, lock, cancel, beat, retries>>

\* _resume re-acquires the project's lock; if another run has it the decision
\* stands and the run stays paused.
ResumeLock(h) ==
    LET r == api[h].run
    IN  /\ api[h].pc = "resume_lock"
        /\ IF LockFree(r) THEN lock' = r /\ To(h, "requeue")
           ELSE UNCHANGED lock /\ Done(h)
        /\ UNCHANGED <<status, started, rows, asks, tasks, jobs, cancel, beat, retries>>

\* _close_rejected: the branch below the gate is skipped, the run fails, and
\* the questions and the lock follow as in every other ending.
RejectSkip(h) ==
    LET r == api[h].run
    IN  /\ api[h].pc = "reject_skip"
        /\ rows' = [rows EXCEPT ![r] = Skip(@, Descendants(Deps, api[h].node))]
        /\ To(h, "reject_finish")
        /\ UNCHANGED <<status, started, asks, tasks, jobs, lock, cancel, beat, retries>>

RejectFinish(h) ==
    /\ api[h].pc = "reject_finish"
    /\ status' = [status EXCEPT ![api[h].run] = "failed"]
    /\ To(h, "expire")
    /\ UNCHANGED <<started, rows, asks, tasks, jobs, lock, cancel, beat, retries>>

-----------------------------------------------------------------------------
(* Person-tasks                                                             *)

CloseTask(r, n, i) ==
    /\ tasks[r][n][i] = "outstanding"
    /\ tasks' = [tasks EXCEPT ![r][n][i] = "closed"]

\* H1 and H2: the attestation completes the task, and only the task.
SubmitTask(r, n) ==
    /\ "task" \in Requests
    /\ Kind[n] = "attest"
    /\ \E i \in DOMAIN tasks[r][n] : CloseTask(r, n, i)
    /\ UNCHANGED <<status, started, rows, asks, jobs, lock, cancel, beat, api, retries>>

\* H3: the run is loaded, then the task's row is locked.
ClearLoad(h, r, n) ==
    /\ Kind[n] = "clear"
    /\ Outstanding(r, n)
    /\ api[h].pc = "free"
    /\ api' = [api EXCEPT ![h] = [pc |-> "clear", run |-> r, seen |-> status[r],
                                  node |-> n, ask |-> 0]]
    /\ UNCHANGED <<status, started, rows, asks, tasks, jobs, lock, cancel, beat, retries>>

\* The exceptions are cleared, or the last one is withdrawn: the newest task closes
\* and the node succeeds in one commit, and a run seen parked is resumed. A
\* task closed meanwhile only returns the stored receipt, and a node that is
\* being re-executed has no card yet, so nothing is in the set to clear.
Clear(h) ==
    LET r == api[h].run
        n == api[h].node
    IN  /\ api[h].pc = "clear"
        /\ IF /\ tasks[r][n] # <<>> /\ Last(tasks[r][n]) = "outstanding"
              /\ Latest(r, n) = "awaiting_human_task"
           THEN /\ CloseTask(r, n, Len(tasks[r][n]))
                /\ rows' = [rows EXCEPT ![r][n] = SetLast(@, "succeeded")]
                /\ IF api[h].seen = "awaiting_human_task"
                   THEN To(h, "resume_lock") ELSE Done(h)
           ELSE UNCHANGED <<tasks, rows>> /\ Done(h)
        /\ UNCHANGED <<status, started, asks, jobs, lock, cancel, beat, retries>>

DecisionStep(h) ==
    \/ \E verdict \in {"approved", "rejected"} : Decide(h, verdict)
    \/ DecideConflict(h) \/ ResumeLock(h)
    \/ RejectSkip(h) \/ RejectFinish(h)
    \/ Clear(h)

DecisionRequest(h) ==
    \E r \in Runs, n \in Nodes :
        \/ "decide" \in Requests /\ DecideLoad(h, r, n)
        \/ "task" \in Requests /\ ClearLoad(h, r, n)

=============================================================================
