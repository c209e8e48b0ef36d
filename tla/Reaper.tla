------------------------------- MODULE Reaper -------------------------------
(***************************************************************************)
(* The sweep that fails runs whose worker is gone (scheduling/reaper.py),   *)
(* every minute and when a worker starts.                                   *)
(***************************************************************************)
EXTENDS RunState

CONSTANT Sweeping   \* the sweep comes round in the instance

ASSUME ReaperAssumption == Sweeping \in BOOLEAN

VARIABLE reaper     \* the run being closed out, and how far that is

Resting == [pc |-> "resting", run |-> NoRun]

ReaperTypeOK ==
    reaper \in [pc : {"resting", "listed", "picked", "swept", "failed", "expired"},
                run : Runs \cup {NoRun}]

ReaperInit == reaper = Resting

Reap(pc) == reaper' = [reaper EXCEPT !.pc = pc]

\* Mutant: the query leaves out the queued runs.
ListRunning(r) ==
    /\ Sweeping
    /\ reaper.pc = "resting"
    /\ status[r] = "running"
    /\ reaper' = [pc |-> "listed", run |-> r]
    /\ UNCHANGED <<status, started, rows, asks, tasks, jobs, lock, cancel, beat>>

\* Candidates: running, or queued past the grace period without ever having
\* started. Any queued run may be that old.
ListStale(r) ==
    /\ Sweeping
    /\ reaper.pc = "resting"
    /\ status[r] = "running" \/ (status[r] = "queued" /\ ~started[r])
    /\ reaper' = [pc |-> "listed", run |-> r]
    /\ UNCHANGED <<status, started, rows, asks, tasks, jobs, lock, cancel, beat>>

\* A run whose heartbeat key exists is left alone.
CheckBeat ==
    /\ reaper.pc = "listed"
    /\ IF beat[reaper.run] THEN reaper' = Resting ELSE Reap("picked")
    /\ UNCHANGED <<status, started, rows, asks, tasks, jobs, lock, cancel, beat>>

\* _reap reloads the run: one that finished on its own is left alone.
ReapLoad ==
    LET r == reaper.run
    IN  /\ reaper.pc = "picked"
        /\ IF status[r] \in {"running", "queued"}
           THEN rows' = [rows EXCEPT ![r] = FailStale(@)] /\ Reap("swept")
           ELSE UNCHANGED rows /\ reaper' = Resting
        /\ UNCHANGED <<status, started, asks, tasks, jobs, lock, cancel, beat>>

ReapFinish ==
    /\ reaper.pc = "swept"
    /\ status' = [status EXCEPT ![reaper.run] = "failed"]
    /\ Reap("failed")
    /\ UNCHANGED <<started, rows, asks, tasks, jobs, lock, cancel, beat>>

ReapExpire ==
    /\ reaper.pc = "failed"
    /\ asks' = [asks EXCEPT ![reaper.run] = Expire(@)]
    /\ Reap("expired")
    /\ UNCHANGED <<status, started, rows, tasks, jobs, lock, cancel, beat>>

\* Only after the row is durable.
ReapRelease ==
    /\ reaper.pc = "expired"
    /\ lock' = Released(reaper.run)
    /\ reaper' = Resting
    /\ UNCHANGED <<status, started, rows, asks, tasks, jobs, cancel, beat>>

\* The worker process that runs the sweep is killed in the middle of it.
ReaperCrash ==
    /\ "reaper_crash" \in Faults
    /\ reaper.pc # "resting"
    /\ reaper' = Resting
    /\ UNCHANGED <<status, started, rows, asks, tasks, jobs, lock, cancel, beat>>

ReaperStep ==
    (\E r \in Runs : ListStale(r)) \/ CheckBeat \/ ReapLoad \/ ReapFinish \/ ReapExpire \/ ReapRelease

=============================================================================
