------------------------------ MODULE MediaJobs ------------------------------
(***************************************************************************)
(* The generation jobs of one creative run (media/jobs.py): nodes submit and *)
(* await them, "Check again" jobs (worker.check_generation_job) pick up what *)
(* timed out or was cut off, over the rows in Postgres, the reservations in  *)
(* Redis, and the provider.                                                  *)
(***************************************************************************)
EXTENDS MediaBudget

CONSTANTS
    Tasks,      \* asyncio tasks: node attempts and check jobs
    Modality,   \* of each job: "image" or "video"
    Submits,    \* the jobs each task submits for a node
    Checks,     \* the jobs each task checks again
    NoJob,
    MaxPosts    \* bound: an image with as many POSTs is not checked again

Modalities == {"image", "video"}

ASSUME MediaAssumption ==
    /\ Modality \in [Jobs -> Modalities]
    /\ Submits \in [Tasks -> SUBSET Jobs] /\ Checks \in [Tasks -> SUBSET Jobs]
    /\ NoJob \notin Jobs

VARIABLES
    row,      \* the generation_job rows: status, provider id saved or not, cost (0: none)
    task,     \* the step each task is at, for which job
    floor,    \* the committed spend each task has read
    asked,    \* the checks in the queue
    posts,    \* POSTs sent for each job
    remote,   \* what became of each job at the provider
    charged,  \* what the provider charged for each job
    quoted    \* what it said that the job cost (0: nothing)

rest == <<floor, asked, posts, remote, charged, quoted>>
vars == <<hold, spent, reserved, row, task, floor, asked, posts, remote, charged, quoted>>

Statuses == {"absent", "queued", "submitting", "submitted", "in_progress", "completed", "failed",
             "timed_out", "unknown", "blocked"}

\* Cancelled and expired are handled as failed.
Terminal == {"completed", "failed", "blocked", "unknown"}
Finished == {"completed", "failed"}

Steps == {"idle", "inputs", "reserve", "refused", "slot", "claim", "post", "sent", "store",
          "save", "lost", "drop", "fail", "settle", "resettle", "await", "polling", "note",
          "heard", "reopen", "requeue"}

Idle == [pc |-> "idle", job |-> NoJob, by |-> "node", bill |-> 0]

MediaTypeOK ==
    /\ row \in [Jobs -> [status : Statuses, id : BOOLEAN, cost : Nat]]
    /\ task \in [Tasks -> [pc : Steps, job : Jobs \cup {NoJob}, by : {"node", "check"}, bill : Nat]]
    /\ \A t \in Tasks : task[t].pc # "idle" => task[t].job \in Jobs
    /\ floor \in [Tasks -> Nat]
    /\ asked \subseteq Jobs
    /\ posts \in [Jobs -> Nat]
    /\ remote \in [Jobs -> {"none", "rendering", "completed", "failed", "nothing"}]
    /\ charged \in [Jobs -> Nat] /\ quoted \in [Jobs -> Nat]

TypeOK == BudgetTypeOK /\ MediaTypeOK

Init ==
    /\ BudgetInit
    /\ row = [j \in Jobs |-> [status |-> "absent", id |-> FALSE, cost |-> 0]]
    /\ task = [t \in Tasks |-> Idle]
    /\ floor = [t \in Tasks |-> 0]
    /\ asked = {}
    /\ posts = [j \in Jobs |-> 0]
    /\ remote = [j \in Jobs |-> "none"]
    /\ charged = [j \in Jobs |-> 0]
    /\ quoted = [j \in Jobs |-> 0]

-----------------------------------------------------------------------------

At(t, pc) == task[t].pc = pc
Job(t) == task[t].job
Mode(t) == Modality[Job(t)]

Go(t, pc) == task' = [task EXCEPT ![t].pc = pc]
Begin(t, j, pc, by) == task' = [task EXCEPT ![t] = [Idle EXCEPT !.pc = pc, !.job = j, !.by = by]]
Return(t) == task' = [task EXCEPT ![t] = Idle]
Wait(t) == task' = [task EXCEPT ![t].pc = "await", ![t].bill = 0]

SetStatus(j, status) == row' = [row EXCEPT ![j].status = status]

\* _finish: whatever the row says by now.
Finish(j, status, cost) == row' = [row EXCEPT ![j].status = status, ![j].cost = cost]

Committed == Total([j \in Jobs |-> row[j].cost], Jobs)

-----------------------------------------------------------------------------

(* submit_or_resume                                                          *)

\* The row is inserted if there is none and read under its lock, in one
\* transaction.
SubmitOrResume(t, j) ==
    LET now == row[j]
    IN  /\ At(t, "idle")
        /\ j \in Submits[t]
        /\ \/ /\ now.status \in {"absent", "queued"}
              /\ SetStatus(j, "queued")
              /\ Begin(t, j, "inputs", "node")
           \/ /\ now.status = "submitting" /\ ~now.id
              /\ SetStatus(j, "unknown")
              /\ UNCHANGED task
           \/ /\ now.status \in Finished
              /\ task' = [task EXCEPT ![t] = [Idle EXCEPT !.pc = "resettle", !.job = j, !.bill = now.cost]]
              /\ UNCHANGED row
           \/ /\ now.id /\ now.status \notin Finished \cup {"blocked"}
              /\ Begin(t, j, "await", "node")
              /\ UNCHANGED row
        /\ UNCHANGED <<budget, rest>>

\* The spend gate is asserted and the committed spend is read.
BudgetInputs(t) ==
    /\ At(t, "inputs")
    /\ floor' = [floor EXCEPT ![t] = Committed]
    /\ Go(t, "reserve")
    /\ UNCHANGED <<budget, row, asked, posts, remote, charged, quoted>>

ReserveEstimate(t) ==
    /\ At(t, "reserve")
    /\ Reserve(Job(t), floor[t])
    /\ Go(t, IF AlreadyBacked(Job(t)) \/ Fits(Job(t), floor[t]) THEN "slot" ELSE "refused")
    /\ floor' = [floor EXCEPT ![t] = 0]
    /\ UNCHANGED <<row, asked, posts, remote, charged, quoted>>

Refuse(t) ==
    /\ At(t, "refused")
    /\ SetStatus(Job(t), "blocked")
    /\ Return(t)
    /\ UNCHANGED <<budget, rest>>

\* A slot of the modality's semaphore comes free, at any time, or does not for
\* SEMAPHORE_WAIT_SECONDS.
TakeSlot(t) ==
    /\ At(t, "slot")
    /\ Go(t, "claim") \/ Return(t)
    /\ UNCHANGED <<budget, row, rest>>

\* Under the row lock: another worker that got here first owns the submit.
Claim(t) ==
    LET j == Job(t)
    IN  /\ At(t, "claim")
        /\ IF row[j].status = "queued"
           THEN SetStatus(j, "submitting") /\ Go(t, "post")
           ELSE /\ UNCHANGED row
                /\ IF row[j].id /\ row[j].status # "blocked" THEN Wait(t) ELSE Return(t)
        /\ UNCHANGED <<budget, rest>>

Post(t) ==
    /\ At(t, "post")
    /\ posts' = [posts EXCEPT ![Job(t)] = @ + 1]
    /\ Go(t, "sent")
    /\ UNCHANGED <<budget, row, floor, asked, remote, charged, quoted>>

\* The provider takes a video on, whoever still waits for its answer.
Accept(j) ==
    /\ Modality[j] = "video" /\ posts[j] > 0 /\ remote[j] = "none"
    /\ remote' = [remote EXCEPT ![j] = "rendering"]
    /\ UNCHANGED <<budget, row, task, floor, asked, posts, charged, quoted>>

\* An image that nobody got an answer for may have been billed.
Bill(t, cost) ==
    /\ cost <= Estimate[Job(t)] /\ (cost > 0 => At(t, "sent") /\ Mode(t) = "image")
    /\ charged' = [charged EXCEPT ![Job(t)] = @ + cost]

\* A 4xx created no job; a POST for an image fails in other ways, too.
PostFails(t) ==
    /\ At(t, "sent")
    /\ Mode(t) = "video" => remote[Job(t)] = "none"
    /\ remote' = [remote EXCEPT ![Job(t)] = "nothing"]
    /\ \E cost \in 0 .. Estimate[Job(t)] : Bill(t, cost)
    /\ Go(t, "drop")
    /\ UNCHANGED <<budget, row, floor, asked, posts, quoted>>

\* Mutant: as if no answer meant no video.
PostUnansweredDrops(t) ==
    /\ At(t, "sent") /\ Mode(t) = "video"
    /\ Go(t, "drop")
    /\ UNCHANGED <<budget, row, rest>>

\* A video's POST that was not answered.
PostUnanswered(t) ==
    /\ At(t, "sent") /\ Mode(t) = "video"
    /\ Go(t, "lost")
    /\ UNCHANGED <<budget, row, rest>>

\* What was made costs its estimate if the provider does not say what it cost.
CostOf(j, said) == IF said > 0 THEN said ELSE Estimate[j]

ImageMade(t) ==
    /\ At(t, "sent") /\ Mode(t) = "image"
    /\ remote' = [remote EXCEPT ![Job(t)] = "completed"]
    /\ \E cost \in 0 .. Estimate[Job(t)] : \E said \in {0, cost} :
          /\ Bill(t, cost)
          /\ quoted' = [quoted EXCEPT ![Job(t)] = said]
          /\ task' = [task EXCEPT ![t].pc = "store", ![t].bill = CostOf(Job(t), said)]
    /\ UNCHANGED <<budget, row, floor, asked, posts>>

VideoTaken(t) ==
    /\ At(t, "sent") /\ Mode(t) = "video"
    /\ remote[Job(t)] # "none"
    /\ Go(t, "save")
    /\ UNCHANGED <<budget, row, rest>>

SaveId(t) ==
    /\ At(t, "save")
    /\ row' = [row EXCEPT ![Job(t)].id = TRUE, ![Job(t)].status = "submitted"]
    /\ Wait(t)
    /\ UNCHANGED <<budget, rest>>

\* The reservation of a video that may exist is kept.
RecordUnknown(t) ==
    /\ At(t, "lost")
    /\ SetStatus(Job(t), "unknown")
    /\ Return(t)
    /\ UNCHANGED <<budget, rest>>

\* The files are stored, then the cost is committed; the budget comes after.
Complete(t) ==
    /\ At(t, "store")
    /\ Finish(Job(t), "completed", task[t].bill)
    /\ Go(t, "settle")
    /\ UNCHANGED <<budget, rest>>

\* What came to nothing gives its money back before its row says so.
DropReservation(t) ==
    /\ At(t, "drop")
    /\ Release(Job(t))
    /\ Go(t, "fail")
    /\ UNCHANGED <<row, rest>>

Fail(t) ==
    /\ At(t, "fail")
    /\ SetStatus(Job(t), "failed")
    /\ Return(t)
    /\ UNCHANGED <<budget, rest>>

\* reconcile or release, after a row ended; a resumed node goes on to wait.
Settle(t) ==
    /\ At(t, "settle") \/ At(t, "resettle")
    /\ IF task[t].bill > 0 THEN Reconcile(Job(t), task[t].bill) ELSE Release(Job(t))
    /\ IF At(t, "resettle") THEN Wait(t) ELSE Return(t)
    /\ UNCHANGED <<row, rest>>

-----------------------------------------------------------------------------

(* await_video                                                               *)

BeginWait(t) ==
    LET now == row[Job(t)]
    IN  /\ At(t, "await")
        /\ IF now.status \in Finished \/ ~now.id THEN Return(t) ELSE Go(t, "polling")
        /\ UNCHANGED <<budget, row, rest>>

Deadline(t) ==
    /\ At(t, "polling")
    /\ SetStatus(Job(t), "timed_out")
    /\ Return(t)
    /\ UNCHANGED <<budget, rest>>

\* The answer is applied after it was given.
Poll(t) ==
    /\ At(t, "polling")
    /\ Go(t, CASE remote[Job(t)] = "rendering" -> "note"
               [] remote[Job(t)] = "nothing" -> "drop"
               [] OTHER -> "heard")
    /\ UNCHANGED <<budget, row, rest>>

NoteProgress(t) ==
    /\ At(t, "note")
    /\ SetStatus(Job(t), "in_progress")
    /\ Go(t, "polling")
    /\ UNCHANGED <<budget, rest>>

\* Mutant: the row is priced at the estimate.
ConcludeAtEstimate(t) ==
    LET j == Job(t)
        made == remote[j] = "completed"
    IN  /\ At(t, "heard")
        /\ Finish(j, IF made THEN "completed" ELSE "failed", Estimate[j])
        /\ task' = [task EXCEPT ![t].pc = "settle",
                                ![t].bill = IF made THEN CostOf(j, quoted[j]) ELSE quoted[j]]
        /\ UNCHANGED <<budget, rest>>

\* _conclude: a completed video is downloaded first; one that failed costs what the
\* provider says, or nothing.
Conclude(t) ==
    LET j == Job(t)
        made == remote[j] = "completed"
        cost == IF made THEN CostOf(j, quoted[j]) ELSE quoted[j]
    IN  /\ At(t, "heard")
        /\ Finish(j, IF made THEN "completed" ELSE "failed", cost)
        /\ task' = [task EXCEPT ![t].pc = "settle", ![t].bill = cost]
        /\ UNCHANGED <<budget, rest>>

-----------------------------------------------------------------------------

(* Check again                                                               *)

\* The route queues a check of what `checkable` accepts.
Ask(j) ==
    /\ \/ row[j].status = "timed_out" /\ row[j].id
       \/ row[j].status = "unknown" /\ Modality[j] = "image"
    /\ asked' = asked \cup {j}
    /\ UNCHANGED <<budget, row, task, floor, posts, remote, charged, quoted>>

\* The job reads the row again, and acts on what it read.
Check(t, j) ==
    LET now == row[j]
        begin(pc) == Begin(t, j, pc, "check")
    IN  /\ At(t, "idle")
        /\ j \in asked \cap Checks[t]
        /\ asked' = asked \ {j}
        /\ \/ now.status = "timed_out" /\ now.id /\ begin("reopen")
           \/ now.status \in {"submitted", "in_progress"} /\ begin("await")
           \/ now.status = "unknown" /\ Modality[j] = "image" /\ posts[j] < MaxPosts
              /\ begin("requeue")
           \* ... or has nothing to do, or a reference that may no longer be sent.
           \/ now.status \notin {"timed_out", "submitted", "in_progress"}
              /\ UNCHANGED task
        /\ UNCHANGED <<budget, row, floor, posts, remote, charged, quoted>>

Reopen(t) ==
    /\ At(t, "reopen")
    /\ SetStatus(Job(t), "submitted")
    /\ Go(t, "await")
    /\ UNCHANGED <<budget, rest>>

Requeue(t) ==
    /\ At(t, "requeue")
    /\ SetStatus(Job(t), "queued")
    /\ Go(t, "inputs")
    /\ UNCHANGED <<budget, rest>>

-----------------------------------------------------------------------------

\* A video ends at the provider: "nothing" is a job that is gone or has no outputs. It
\* costs at most what was estimated, and the provider says so or does not.
ProviderEnds(j, end, cost, said) ==
    /\ Modality[j] = "video" /\ remote[j] = "rendering"
    /\ remote' = [remote EXCEPT ![j] = end]
    /\ charged' = [charged EXCEPT ![j] = cost]
    /\ quoted' = [quoted EXCEPT ![j] = said]
    /\ UNCHANGED <<budget, row, task, floor, asked, posts>>

\* A task is killed, cancelled (the first clip to fail cancels its siblings) or
\* stopped by a call that raises; a check whose worker was killed is delivered
\* again.
Stop(t) ==
    /\ ~At(t, "idle")
    /\ Return(t)
    /\ \/ asked' = asked
       \/ task[t].by = "check" /\ asked' = asked \cup {Job(t)}
    /\ floor' = [floor EXCEPT ![t] = 0]
    /\ \E cost \in 0 .. Estimate[Job(t)] : Bill(t, cost)
    /\ UNCHANGED <<budget, row, posts, remote, quoted>>

Step(t) ==
    \/ BudgetInputs(t) \/ ReserveEstimate(t) \/ Refuse(t) \/ TakeSlot(t)
    \/ Claim(t) \/ Post(t) \/ PostFails(t) \/ PostUnanswered(t) \/ VideoTaken(t)
    \/ ImageMade(t) \/ SaveId(t) \/ RecordUnknown(t) \/ Complete(t) \/ DropReservation(t) \/ Fail(t) \/ Settle(t)
    \/ BeginWait(t) \/ Deadline(t) \/ Poll(t) \/ NoteProgress(t) \/ Conclude(t)
    \/ Reopen(t) \/ Requeue(t)

Next ==
    \/ \E t \in Tasks, j \in Jobs : SubmitOrResume(t, j) \/ Check(t, j)
    \/ \E t \in Tasks : Step(t) \/ Stop(t)
    \/ \E j \in Jobs : Ask(j) \/ Accept(j)
    \/ \E j \in Jobs, end \in {"completed", "failed", "nothing"} :
          \E cost \in 0 .. Estimate[j] : \E said \in {0, cost} : ProviderEnds(j, end, cost, said)

Spec == Init /\ [][Next]_vars

-----------------------------------------------------------------------------

Videos == {j \in Jobs : Modality[j] = "video"}
Images == Jobs \ Videos

Account == INSTANCE SpendControl WITH
    Jobs <- Videos,
    backed <- {j \in Videos : AlreadyBacked(j)},
    sent <- [j \in Videos |-> posts[j]],
    known <- {j \in Videos : remote[j] \in {"completed", "failed", "nothing"}}

\* Whatever is killed, resumed, checked again or submitted twice, a video is
\* POSTed at most once, with its estimate reserved, and the estimate stays
\* reserved until the provider's verdict is in (submit_or_resume, _submit,
\* await_video and check against Laws 37 and 43).
PaidWorkIsControlled == Account!Spec

\* The run's counter of reserved money is the sum of the jobs' reservations,
\* however reserve, reconcile and release interleave (the Lua scripts).
ReservedExact ==
    reserved = Total(Estimate, {j \in Jobs : hold[j] = "reserved"})

\* The code takes these for free, and gives their reservations back: a POST for an
\* image that failed, a video that came to nothing, and one that failed without a cost.
TakenForFree(j) == remote[j] = "nothing" \/ (remote[j] = "failed" /\ quoted[j] = 0)

WithinCaps(billed) == billed <= MediaCap /\ (billed > 0 => TextSpent + billed <= CreativeCap)

\* Neither cap is overshot by what the provider charges for what the code does not
\* take for free, whether the provider says what it charged or not, and whatever the
\* text half has spent, while no image has been POSTed a second time (Law 43, _RESERVE).
BilledWithinCaps ==
    (\A j \in Images : posts[j] < 2) =>
        WithinCaps(Total(charged, {j \in Jobs : ~TakenForFree(j)}))

\* "Cannot jointly overshoot either" cap (budget.py), of all that the provider charges.
EverythingWithinCaps ==
    (\A j \in Images : posts[j] < 2) => WithinCaps(Total(charged, Jobs))

\* A job the budget refused has cost nothing, as its gap says, unless it was POSTed a
\* second time or its POST failed, which the code takes for free: what is killed and
\* resumed or checked again after its POST is not refused any more (_submit). Claimed
\* of jobs that one task at a time submits.
BlockedIsUnspent ==
    \A j \in Jobs : row[j].status = "blocked" /\ posts[j] < 2 /\ ~TakenForFree(j) => charged[j] = 0

\* A completed row records what its one POST was charged if the provider said so, and
\* the estimate if it did not, whoever waited for it, timed out or checked it again
\* (_conclude, _generate_image).
CostIsBill ==
    \A j \in Jobs : row[j].status = "completed" /\ posts[j] = 1 =>
        row[j].cost = IF quoted[j] > 0 THEN charged[j] ELSE Estimate[j]

\* "Replace the job's reservation with what it cost" (budget.py): the run is
\* charged each cost once.
SpentOnce == spent <= Committed

=============================================================================
