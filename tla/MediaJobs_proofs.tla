--------------------------- MODULE MediaJobs_proofs ---------------------------
(***************************************************************************)
(* What holds of the generation jobs of every creative run, whatever its     *)
(* caps, its jobs and the tasks that submit, await and check them: a video is *)
(* POSTed at most once, and its money is not let go before its end is known.  *)
(***************************************************************************)
EXTENDS MediaJobs, TLAPS

\* The types of everything but the amounts, which no fact below depends on.
RowType == [Jobs -> [status : Statuses, id : BOOLEAN, cost : Nat]]
TaskType == [Tasks -> [pc : Steps, job : Jobs \cup {NoJob}, by : {"node", "check"}, bill : Nat]]

Types ==
    /\ hold \in [Jobs -> {"none", "reserved", "reconciled", "released"}]
    /\ row \in RowType
    /\ task \in TaskType
    /\ \A t \in Tasks : task[t].pc # "idle" => task[t].job \in Jobs
    /\ asked \subseteq Jobs
    /\ posts \in [Jobs -> Nat]
    /\ remote \in [Jobs -> {"none", "rendering", "completed", "failed", "nothing"}]
    /\ quoted \in [Jobs -> Nat]

Known(j) == remote[j] \in {"completed", "failed", "nothing"}

\* What the row of a video says about its POST and its end.
VideoRow(j) ==
    /\ posts[j] \in {0, 1}
    /\ posts[j] = 1 => row[j].status \notin {"absent", "queued"}
    /\ row[j].status \in Finished => Known(j)
    /\ row[j].id => remote[j] # "none"
    /\ remote[j] # "none" => posts[j] = 1

\* What a task at work on a video may rely on, whatever the others do.
VideoTask(t) ==
    LET j == Job(t)
    IN  /\ task[t].pc \notin {"requeue", "store"}
        /\ task[t].pc \in {"slot", "claim"} /\ posts[j] = 0 => AlreadyBacked(j)
        /\ At(t, "post") =>
              posts[j] = 0 /\ AlreadyBacked(j) /\ row[j].status \notin {"absent", "queued"}
        /\ task[t].pc \in {"sent", "lost"} => posts[j] = 1
        /\ task[t].pc \in {"save", "polling", "note"} => remote[j] # "none"
        /\ task[t].pc \in {"drop", "fail", "settle", "resettle", "heard"} => Known(j)
        /\ At(t, "heard") => remote[j] # "nothing"

OnVideo(t) == ~At(t, "idle") /\ Job(t) \in Videos

\* One task at a time is about to POST a video.
OnePoster ==
    \A t, u \in Tasks :
        OnVideo(t) /\ At(t, "post") /\ At(u, "post") /\ Job(u) = Job(t) => u = t

IInv ==
    /\ Types
    /\ \A j \in Videos : VideoRow(j)
    /\ \A t \in Tasks : OnVideo(t) => VideoTask(t)
    /\ OnePoster

-----------------------------------------------------------------------------
(* Writes                                                                   *)

\* Task t is at pc for job j now, and the others are where they were.
Moved(t, pc, j) ==
    /\ task' \in TaskType
    /\ task'[t].pc = pc /\ task'[t].job = j
    /\ \A u \in Tasks \ {t} : task'[u] = task[u]

LEMMA GoMoves ==
    ASSUME task \in TaskType, NEW t \in Tasks, NEW pc \in Steps, Go(t, pc)
    PROVE  Moved(t, pc, Job(t))
BY DEF TaskType, Go, Moved, Job

LEMMA BeginMoves ==
    ASSUME task \in TaskType, NEW t \in Tasks, NEW j \in Jobs, NEW pc \in Steps,
           NEW by \in {"node", "check"}, Begin(t, j, pc, by)
    PROVE  Moved(t, pc, j)
BY DEF TaskType, Begin, Moved, Idle

LEMMA ReturnMoves ==
    ASSUME task \in TaskType, NEW t \in Tasks, Return(t)
    PROVE  Moved(t, "idle", NoJob)
BY DEF TaskType, Return, Moved, Idle, Steps

LEMMA WaitMoves ==
    ASSUME task \in TaskType, NEW t \in Tasks, Wait(t)
    PROVE  Moved(t, "await", Job(t))
BY ZenonT(60) DEF TaskType, Wait, Moved, Job, Steps

LEMMA BillMoves ==
    ASSUME task \in TaskType, NEW t \in Tasks, NEW pc \in Steps, NEW cost \in Nat,
           task' = [task EXCEPT ![t].pc = pc, ![t].bill = cost]
    PROVE  Moved(t, pc, Job(t))
BY DEF TaskType, Moved, Job

\* The row of job j says status now, and the others what they said.
Wrote(j, status, id) ==
    /\ row' \in RowType
    /\ row'[j].status = status /\ row'[j].id = id
    /\ \A k \in Jobs \ {j} : row'[k] = row[k]

LEMMA SetStatusWrites ==
    ASSUME row \in RowType, NEW j \in Jobs, NEW status \in Statuses, SetStatus(j, status)
    PROVE  Wrote(j, status, row[j].id)
BY DEF RowType, SetStatus, Wrote

LEMMA FinishWrites ==
    ASSUME row \in RowType, NEW j \in Jobs, NEW status \in Statuses, NEW cost \in Nat,
           Finish(j, status, cost)
    PROVE  Wrote(j, status, row[j].id)
BY DEF RowType, Finish, Wrote

LEMMA SaveWrites ==
    ASSUME row \in RowType, NEW j \in Jobs,
           row' = [row EXCEPT ![j].id = TRUE, ![j].status = "submitted"]
    PROVE  Wrote(j, "submitted", TRUE)
BY DEF RowType, Wrote, Statuses

-----------------------------------------------------------------------------
(* Steps                                                                    *)

\* What a step may do to a video under the feet of task u: POST it, if u is not
\* about to; let its money go, once it was sent; learn how it ends.
Calm(u) ==
    \A k \in Videos :
        /\ posts'[k] = posts[k] \/ (posts'[k] = 1 /\ ~(At(u, "post") /\ Job(u) = k))
        /\ AlreadyBacked(k) /\ posts[k] = 0 => AlreadyBacked(k)'
        /\ remote[k] # "none" => remote'[k] # "none"
        /\ Known(k) => remote'[k] = remote[k]
        /\ row[k].status \notin {"absent", "queued"} => row'[k].status \notin {"absent", "queued"}

LEMMA BystanderKeeps ==
    ASSUME IInv, NEW u \in Tasks, task'[u] = task[u], Calm(u), OnVideo(u)'
    PROVE  VideoTask(u)'
<1>1. OnVideo(u) /\ Job(u) \in Videos
  BY DEF OnVideo, At, Job, Videos
<1>2. VideoTask(u) /\ VideoRow(Job(u))
  BY <1>1 DEF IInv
<1>3. Job(u)' = Job(u) /\ task'[u].pc = task[u].pc
  BY DEF Job
<1>4. QED
  BY <1>1, <1>2, <1>3 DEF VideoTask, VideoRow, At, Calm, Known

\* A step of task t.
LEMMA StepKeeps ==
    ASSUME IInv, NEW t \in Tasks, NEW pc \in Steps, NEW j \in Jobs \cup {NoJob}, Moved(t, pc, j),
           \A u \in Tasks \ {t} : Calm(u),
           OnVideo(t)' => VideoTask(t)',
           pc = "post" /\ j \in Videos => \A u \in Tasks \ {t} : ~(At(u, "post") /\ Job(u) = j),
           Types', \A k \in Videos : VideoRow(k)'
    PROVE  IInv'
<1>1. ASSUME NEW u \in Tasks, OnVideo(u)' PROVE VideoTask(u)'
  <2>1. CASE u = t
    BY <1>1, <2>1
  <2>2. CASE u # t
    BY <1>1, <2>2, BystanderKeeps DEF Moved
  <2>3. QED
    BY <2>1, <2>2
<1>2. OnePoster'
  <2>1. SUFFICES ASSUME NEW u \in Tasks, NEW v \in Tasks, Job(u)' \in Videos,
                        At(u, "post")', At(v, "post")', Job(v)' = Job(u)'
                 PROVE  v = u
    BY DEF OnePoster, OnVideo
  <2>2. CASE u # t /\ v # t
    BY <2>1, <2>2 DEF IInv, OnePoster, OnVideo, At, Job, Moved, Videos
  <2>3. CASE u = t \/ v = t
    BY <2>1, <2>3 DEF At, Job, Moved
  <2>4. QED
    BY <2>2, <2>3
<1>3. QED
  BY <1>1, <1>2 DEF IInv

\* A step that moves no task.
LEMMA EventKeeps ==
    ASSUME IInv, UNCHANGED task, \A u \in Tasks : Calm(u), Types',
           \A k \in Videos : VideoRow(k)'
    PROVE  IInv'
<1>1. ASSUME NEW u \in Tasks, OnVideo(u)' PROVE VideoTask(u)'
  BY <1>1, BystanderKeeps
<1>2. OnePoster'
  BY DEF IInv, OnePoster, OnVideo, At, Job, Videos
<1>3. QED
  BY <1>1, <1>2 DEF IInv

\* A step that moves one task and changes nothing that any task relies on.
LEMMA MoveKeeps ==
    ASSUME IInv, NEW t \in Tasks, NEW pc \in Steps \ {"post"}, NEW j \in Jobs \cup {NoJob},
           Moved(t, pc, j), pc # "idle" => j \in Jobs, OnVideo(t)' => VideoTask(t)',
           asked' \subseteq Jobs, UNCHANGED <<hold, row, posts, remote, quoted>>
    PROVE  IInv'
<1>1. Types'
  BY DEF IInv, Types, Moved
<1>2. \A k \in Videos : VideoRow(k)'
  BY DEF IInv, VideoRow, Known
<1>3. \A u \in Tasks : Calm(u)
  BY DEF Calm, AlreadyBacked, Known
<1>4. QED
  BY <1>1, <1>2, <1>3, StepKeeps

\* A step that moves no task and changes nothing that any task relies on.
LEMMA QuietKeeps ==
    ASSUME IInv, asked' \subseteq Jobs, UNCHANGED <<hold, row, task, posts, remote, quoted>>
    PROVE  IInv'
<1>1. Types'
  BY DEF IInv, Types
<1>2. \A k \in Videos : VideoRow(k)'
  BY DEF IInv, VideoRow, Known
<1>3. \A u \in Tasks : Calm(u)
  BY DEF Calm, AlreadyBacked, Known
<1>4. QED
  BY <1>1, <1>2, <1>3, EventKeeps

\* A step that moves one task and writes the row of its job j.
LEMMA WriteKeeps ==
    ASSUME IInv, NEW t \in Tasks, NEW pc \in Steps \ {"post"}, NEW i \in Jobs \cup {NoJob},
           Moved(t, pc, i), pc # "idle" => i \in Jobs,
           NEW j \in Jobs, NEW status \in Statuses, NEW id \in BOOLEAN, Wrote(j, status, id),
           j \in Videos =>
               /\ posts[j] = 1 => status \notin {"absent", "queued"}
               /\ status \in {"absent", "queued"} => row[j].status \in {"absent", "queued"}
               /\ status \in Finished => Known(j)
               /\ id => remote[j] # "none",
           OnVideo(t)' => VideoTask(t)',
           UNCHANGED <<hold, asked, posts, remote, quoted>>
    PROVE  IInv'
<1>1. Types'
  BY DEF IInv, Types, Moved, Wrote
<1>2. ASSUME NEW k \in Videos PROVE VideoRow(k)'
  <2>1. VideoRow(k) /\ k \in Jobs
    BY DEF IInv, Videos
  <2>2. QED
    BY <2>1 DEF VideoRow, Known, Wrote
<1>3. ASSUME NEW u \in Tasks \ {t} PROVE Calm(u)
  BY DEF Calm, AlreadyBacked, Known, Wrote, Videos
<1>4. QED
  BY <1>1, <1>2, <1>3, StepKeeps

-----------------------------------------------------------------------------
(* The actions                                                              *)

LEMMA InitHolds == Init => IInv
<1> SUFFICES ASSUME Init PROVE IInv
  OBVIOUS
<1>1. Types
  BY DEF Init, BudgetInit, Types, RowType, TaskType, Statuses, Steps, Idle
<1>2. ASSUME NEW j \in Videos PROVE VideoRow(j)
  <2>1. /\ posts[j] = 0 /\ remote[j] = "none"
        /\ row[j] = [status |-> "absent", id |-> FALSE, cost |-> 0]
    BY DEF Init, Videos
  <2>2. QED
    BY <2>1 DEF VideoRow, Finished
<1>3. \A t \in Tasks : At(t, "idle")
  BY DEF Init, At, Idle
<1>4. QED
  BY <1>1, <1>2, <1>3 DEF IInv, OnVideo, OnePoster, At

\* Each step of a task at work.
LEMMA WorkKeeps ==
    ASSUME IInv, NEW t \in Tasks, Step(t)
    PROVE  IInv'
<1>a. ~At(t, "idle")
  BY DEF Step, At, BudgetInputs, ReserveEstimate, Refuse, TakeSlot, Claim, Post, PostFails,
         PostUnanswered, VideoTaken, ImageMade, SaveId, RecordUnknown, Complete,
         DropReservation, Fail, Settle, BeginWait, Deadline, Poll, NoteProgress, Conclude,
         Reopen, Requeue
<1>b. PICK j \in Jobs : Job(t) = j
  BY <1>a DEF IInv, Types, At, Job
<1>0. /\ Job(t) = j
      /\ task \in TaskType /\ row \in RowType
      /\ remote[j] \in {"none", "rendering", "completed", "failed", "nothing"}
      /\ quoted[j] \in Nat /\ asked \subseteq Jobs /\ row[j].id \in BOOLEAN
      /\ row[j].status \in Statuses /\ posts[j] \in Nat
      /\ j \in Videos => VideoRow(j) /\ VideoTask(t)
      /\ j \in Videos <=> Mode(t) = "video"
  <2>1. row[j] \in [status : Statuses, id : BOOLEAN, cost : Nat]
    BY DEF IInv, Types, RowType
  <2>2. QED
    BY <1>a, <1>b, <2>1 DEF IInv, Types, OnVideo, Videos, Mode
<1>1. CASE BudgetInputs(t)
  <2>1. Moved(t, "reserve", j)
    BY <1>0, <1>1, GoMoves DEF BudgetInputs, Steps
  <2>2. OnVideo(t)' => VideoTask(t)'
    BY <2>1 DEF VideoTask, Moved, At
  <2>3. QED
    BY <1>0, <1>1, <2>1, <2>2, MoveKeeps DEF BudgetInputs, budget, Steps
<1>2. CASE ReserveEstimate(t)
  <2> DEFINE pc == IF AlreadyBacked(j) \/ Fits(j, floor[t]) THEN "slot" ELSE "refused"
  <2>1. pc \in Steps \ {"post", "idle"}
    BY DEF Steps
  <2>2. Moved(t, pc, j)
    BY <1>0, <1>2, <2>1, GoMoves DEF ReserveEstimate
  <2>3. /\ hold' \in [Jobs -> {"none", "reserved", "reconciled", "released"}]
        /\ \A k \in Jobs : AlreadyBacked(k) => AlreadyBacked(k)'
        /\ pc = "slot" => AlreadyBacked(j)'
    <3>1. hold \in [Jobs -> {"none", "reserved", "reconciled", "released"}] /\ Reserve(j, floor[t])
      BY <1>0, <1>2 DEF ReserveEstimate, IInv, Types
    <3>2. CASE AlreadyBacked(j)
      BY <3>1, <3>2 DEF Reserve, AlreadyBacked, budget
    <3>3. CASE ~AlreadyBacked(j) /\ Fits(j, floor[t])
      BY <1>0, <3>1, <3>3 DEF Reserve, AlreadyBacked
    <3>4. CASE ~AlreadyBacked(j) /\ ~Fits(j, floor[t])
      BY <3>1, <3>4 DEF Reserve, AlreadyBacked
    <3>5. QED
      BY <3>2, <3>3, <3>4
  <2>4. OnVideo(t)' => VideoTask(t)'
    <3>1. task'[t].pc = pc /\ Job(t)' = j /\ pc \in {"slot", "refused"}
      BY <2>2 DEF Moved, Job
    <3>2. QED
      BY <2>3, <3>1 DEF VideoTask, At
  <2>5. Types'
    BY <1>0, <1>2, <2>2, <2>3 DEF IInv, Types, Moved, ReserveEstimate
  <2>6. \A k \in Videos : VideoRow(k)'
    BY <1>2 DEF ReserveEstimate, IInv, VideoRow, Known
  <2>7. \A u \in Tasks : Calm(u)
    BY <1>2, <2>3 DEF ReserveEstimate, Calm, Known, Videos
  <2>8. QED
    BY <1>0, <2>1, <2>2, <2>4, <2>5, <2>6, <2>7, StepKeeps
<1>3. CASE Refuse(t)
  <2>1. Moved(t, "idle", NoJob) /\ Wrote(j, "blocked", row[j].id)
    BY <1>0, <1>3, ReturnMoves, SetStatusWrites DEF Refuse, Statuses
  <2>2. ~OnVideo(t)'
    BY <2>1 DEF OnVideo, Moved, At
  <2>3. QED
    BY <1>0, <1>3, <2>1, <2>2, WriteKeeps DEF Refuse, budget, rest, Steps, Statuses, Finished, VideoRow
<1>4. CASE TakeSlot(t)
  <2>1. CASE Return(t)
    <3>1. Moved(t, "idle", NoJob)
      BY <1>0, <2>1, ReturnMoves
    <3>2. ~OnVideo(t)'
      BY <3>1 DEF OnVideo, Moved, At
    <3>3. QED
      BY <1>0, <1>4, <3>1, <3>2, MoveKeeps DEF TakeSlot, budget, rest, Steps
  <2>2. CASE Go(t, "claim")
    <3>1. Moved(t, "claim", j)
      BY <1>0, <2>2, GoMoves DEF Steps
    <3>2. OnVideo(t)' => VideoTask(t)'
      BY <1>0, <1>4, <3>1 DEF TakeSlot, budget, rest, AlreadyBacked, VideoTask, Moved, At, OnVideo, Job, Videos
    <3>3. QED
      BY <1>0, <1>4, <3>1, <3>2, MoveKeeps DEF TakeSlot, budget, rest, Steps
  <2>3. QED
    BY <1>4, <2>1, <2>2 DEF TakeSlot
<1>5. CASE Claim(t)
  <2>1. CASE row[j].status = "queued"
    <3>1. Moved(t, "post", j) /\ Wrote(j, "submitting", row[j].id)
      BY <1>0, <1>5, <2>1, GoMoves, SetStatusWrites DEF Claim, Steps, Statuses
    <3>2. j \in Videos => posts[j] = 0
      BY <1>0, <2>1 DEF VideoRow
    <3>3. OnVideo(t)' => VideoTask(t)'
      BY <1>0, <1>5, <3>1, <3>2 DEF Claim, budget, rest, AlreadyBacked, VideoTask, Moved, Wrote, At, OnVideo, Job, Videos
    <3>4. j \in Videos => \A u \in Tasks \ {t} : ~(At(u, "post") /\ Job(u) = j)
      BY <2>1 DEF IInv, VideoTask, OnVideo, At
    <3>5. Types'
      BY <1>0, <1>5, <3>1 DEF IInv, Types, Moved, Wrote, Claim, budget, rest
    <3>6. ASSUME NEW k \in Videos PROVE VideoRow(k)'
      <4>1. VideoRow(k) /\ k \in Jobs
        BY DEF IInv, Videos
      <4>2. QED
        BY <1>5, <2>1, <3>1, <4>1 DEF Claim, budget, rest, VideoRow, Known, Wrote, Finished
    <3>7. \A u \in Tasks : Calm(u)
      BY <1>5, <2>1, <3>1 DEF Claim, budget, rest, Calm, AlreadyBacked, Known, Wrote, Videos
    <3>8. QED
      BY <1>0, <3>1, <3>3, <3>4, <3>5, <3>6, <3>7, StepKeeps DEF Steps
  <2>2. CASE row[j].status # "queued" /\ Return(t)
    <3>1. Moved(t, "idle", NoJob)
      BY <1>0, <2>2, ReturnMoves
    <3>2. ~OnVideo(t)'
      BY <3>1 DEF OnVideo, Moved, At
    <3>3. QED
      BY <1>0, <1>5, <2>2, <3>1, <3>2, MoveKeeps DEF Claim, budget, rest, Steps
  <2>3. CASE row[j].status # "queued" /\ Wait(t)
    <3>1. Moved(t, "await", j)
      BY <1>0, <2>3, WaitMoves
    <3>2. OnVideo(t)' => VideoTask(t)'
      BY <3>1 DEF VideoTask, Moved, At
    <3>3. QED
      BY <1>0, <1>5, <2>3, <3>1, <3>2, MoveKeeps DEF Claim, budget, rest, Steps
  <2>4. QED
    BY <1>0, <1>5, <2>1, <2>2, <2>3 DEF Claim
<1>6. CASE Post(t)
  <2>1. Moved(t, "sent", j)
    BY <1>0, <1>6, GoMoves DEF Post, Steps
  <2>2. /\ posts' \in [Jobs -> Nat] /\ posts'[j] = posts[j] + 1
        /\ \A k \in Jobs \ {j} : posts'[k] = posts[k]
    BY <1>0, <1>6 DEF Post, IInv, Types
  <2>3. j \in Videos =>
            posts[j] = 0 /\ row[j].status \notin {"absent", "queued"} /\ row[j].status \in Statuses
    BY <1>0, <1>6 DEF Post, VideoTask, At
  <2>4. OnVideo(t)' => VideoTask(t)'
    BY <1>0, <2>1, <2>2, <2>3 DEF VideoTask, Moved, At, Job, OnVideo, Videos
  <2>5. Types'
    BY <1>0, <1>6, <2>1, <2>2 DEF IInv, Types, Moved, Post, budget
  <2>6. ASSUME NEW k \in Videos PROVE VideoRow(k)'
    <3>1. VideoRow(k) /\ k \in Jobs
      BY DEF IInv, Videos
    <3>2. QED
      BY <1>6, <2>2, <2>3, <3>1 DEF Post, VideoRow, Known
  <2>7. ASSUME NEW u \in Tasks \ {t} PROVE Calm(u)
    <3>1. j \in Videos => ~(At(u, "post") /\ Job(u) = j)
      BY <1>0, <1>6 DEF Post, IInv, OnePoster, OnVideo, At
    <3>2. QED
      BY <1>6, <2>2, <2>3, <3>1 DEF Post, Calm, AlreadyBacked, Known, Videos, budget
  <2>8. QED
    BY <1>0, <2>1, <2>4, <2>5, <2>6, <2>7, StepKeeps DEF Steps
<1>7. CASE PostFails(t)
  <2>1. Moved(t, "drop", j)
    BY <1>0, <1>7, GoMoves DEF PostFails, Steps
  <2>2. /\ remote' \in [Jobs -> {"none", "rendering", "completed", "failed", "nothing"}]
        /\ remote'[j] = "nothing" /\ \A k \in Jobs \ {j} : remote'[k] = remote[k]
    BY <1>0, <1>7 DEF PostFails, IInv, Types
  <2>3. j \in Videos => posts[j] = 1 /\ remote[j] = "none"
    BY <1>0, <1>7 DEF PostFails, VideoTask, At
  <2>4. OnVideo(t)' => VideoTask(t)'
    BY <1>0, <2>1, <2>2 DEF VideoTask, Moved, At, Job, Known
  <2>5. Types'
    BY <1>0, <1>7, <2>1, <2>2 DEF IInv, Types, Moved, PostFails, budget
  <2>6. ASSUME NEW k \in Videos PROVE VideoRow(k)'
    <3>1. VideoRow(k) /\ k \in Jobs
      BY DEF IInv, Videos
    <3>2. QED
      BY <1>7, <2>2, <2>3, <3>1 DEF PostFails, VideoRow, Known
  <2>7. \A u \in Tasks : Calm(u)
    BY <1>7, <2>2, <2>3 DEF PostFails, Calm, AlreadyBacked, Known, Videos, budget
  <2>8. QED
    BY <1>0, <2>1, <2>4, <2>5, <2>6, <2>7, StepKeeps DEF Steps
<1>8. CASE PostUnanswered(t)
  <2>1. Moved(t, "lost", j)
    BY <1>0, <1>8, GoMoves DEF PostUnanswered, Steps
  <2>2. OnVideo(t)' => VideoTask(t)'
    BY <1>0, <1>8, <2>1 DEF PostUnanswered, VideoRow, VideoTask, Moved, At, Known, Job, OnVideo, Videos, rest
  <2>3. QED
    BY <1>0, <1>8, <2>1, <2>2, MoveKeeps DEF PostUnanswered, budget, rest, Steps
<1>9. CASE VideoTaken(t)
  <2>1. Moved(t, "save", j)
    BY <1>0, <1>9, GoMoves DEF VideoTaken, Steps
  <2>2. OnVideo(t)' => VideoTask(t)'
    BY <1>0, <1>9, <2>1 DEF VideoTaken, VideoRow, VideoTask, Moved, At, Known, Job, OnVideo, Videos, rest
  <2>3. QED
    BY <1>0, <1>9, <2>1, <2>2, MoveKeeps DEF VideoTaken, budget, rest, Steps
<1>10. CASE ImageMade(t)
  <2>0. j \notin Videos
    BY <1>0, <1>10 DEF ImageMade
  <2>1. PICK cost, said :
            /\ cost \in 0 .. Estimate[j] /\ said \in {0, cost}
            /\ quoted' = [quoted EXCEPT ![j] = said]
            /\ task' = [task EXCEPT ![t].pc = "store", ![t].bill = CostOf(j, said)]
    BY <1>0, <1>10 DEF ImageMade
  <2>2. /\ remote' \in [Jobs -> {"none", "rendering", "completed", "failed", "nothing"}]
        /\ remote'[j] = "completed" /\ \A k \in Jobs \ {j} : remote'[k] = remote[k]
    BY <1>0, <1>10 DEF ImageMade, IInv, Types
  <2>3. CostOf(j, said) \in Nat /\ quoted' \in [Jobs -> Nat]
    <3>1. Estimate[j] \in Nat
      BY BudgetAssumption
    <3>2. QED
      BY <2>1, <3>1 DEF CostOf, IInv, Types
  <2>4. Moved(t, "store", j)
    BY <1>0, <2>1, <2>3, BillMoves DEF Steps
  <2>5. ~OnVideo(t)'
    BY <2>0, <2>4 DEF OnVideo, Moved, Job
  <2>6. Types'
    <3>1. UNCHANGED <<hold, row, asked, posts>>
      BY <1>10 DEF ImageMade, budget
    <3>2. QED
      BY <1>0, <2>2, <2>3, <2>4, <3>1 DEF IInv, Types, Moved
  <2>7. ASSUME NEW k \in Videos PROVE VideoRow(k)'
    BY <1>10, <2>0, <2>2 DEF ImageMade, IInv, VideoRow, Known, Videos
  <2>8. \A u \in Tasks : Calm(u)
    BY <1>10, <2>0, <2>2 DEF ImageMade, Calm, AlreadyBacked, Known, Videos, budget
  <2>9. QED
    BY <1>0, <2>4, <2>5, <2>6, <2>7, <2>8, StepKeeps DEF Steps
<1>11. CASE SaveId(t)
  <2>1. Moved(t, "await", j) /\ Wrote(j, "submitted", TRUE)
    BY <1>0, <1>11, WaitMoves, SaveWrites DEF SaveId
  <2>2. OnVideo(t)' => VideoTask(t)'
    BY <2>1 DEF VideoTask, Moved, At
  <2>3. QED
    BY <1>0, <1>11, <2>1, <2>2, WriteKeeps
    DEF SaveId, budget, rest, Steps, Statuses, Finished, VideoTask, At
<1>12. CASE RecordUnknown(t)
  <2>1. Moved(t, "idle", NoJob) /\ Wrote(j, "unknown", row[j].id)
    BY <1>0, <1>12, ReturnMoves, SetStatusWrites DEF RecordUnknown, Statuses
  <2>2. ~OnVideo(t)'
    BY <2>1 DEF OnVideo, Moved, At
  <2>3. QED
    BY <1>0, <1>12, <2>1, <2>2, WriteKeeps
    DEF RecordUnknown, budget, rest, Steps, Statuses, Finished, VideoRow, VideoTask, At
<1>13. CASE Complete(t)
  <2>0. j \notin Videos /\ task[t].bill \in Nat
    BY <1>0, <1>13 DEF Complete, VideoTask, At, TaskType
  <2>1. Moved(t, "settle", j) /\ Wrote(j, "completed", row[j].id)
    BY <1>0, <1>13, <2>0, GoMoves, FinishWrites DEF Complete, Steps, Statuses
  <2>2. ~OnVideo(t)'
    BY <2>0, <2>1 DEF OnVideo, Moved, Job
  <2>3. QED
    BY <1>0, <1>13, <2>0, <2>1, <2>2, WriteKeeps DEF Complete, budget, rest, Steps, Statuses
<1>14. CASE DropReservation(t)
  <2>1. Moved(t, "fail", j)
    BY <1>0, <1>14, GoMoves DEF DropReservation, Steps
  <2>2. /\ hold' \in [Jobs -> {"none", "reserved", "reconciled", "released"}]
        /\ \A k \in Jobs \ {j} : hold'[k] = hold[k]
    BY <1>0, <1>14 DEF DropReservation, Release, budget, IInv, Types
  <2>3. j \in Videos => Known(j) /\ posts[j] = 1
    BY <1>0, <1>14 DEF DropReservation, VideoTask, VideoRow, Known, At
  <2>4. OnVideo(t)' => VideoTask(t)'
    BY <1>0, <1>14, <2>1, <2>3 DEF DropReservation, rest, VideoTask, Moved, At, Job, Known, OnVideo, Videos
  <2>5. Types'
    BY <1>0, <1>14, <2>1, <2>2 DEF IInv, Types, Moved, DropReservation, rest
  <2>6. \A k \in Videos : VideoRow(k)'
    BY <1>14 DEF DropReservation, rest, IInv, VideoRow, Known
  <2>7. \A u \in Tasks : Calm(u)
    BY <1>14, <2>2, <2>3 DEF DropReservation, rest, Calm, AlreadyBacked, Known, Videos
  <2>8. QED
    BY <1>0, <2>1, <2>4, <2>5, <2>6, <2>7, StepKeeps DEF Steps
<1>15. CASE Fail(t)
  <2>1. Moved(t, "idle", NoJob) /\ Wrote(j, "failed", row[j].id)
    BY <1>0, <1>15, ReturnMoves, SetStatusWrites DEF Fail, Statuses
  <2>2. ~OnVideo(t)'
    BY <2>1 DEF OnVideo, Moved, At
  <2>3. QED
    BY <1>0, <1>15, <2>1, <2>2, WriteKeeps
    DEF Fail, budget, rest, Steps, Statuses, Finished, VideoRow, VideoTask, At
<1>16. CASE Settle(t)
  <2>1. PICK pc \in {"await", "idle"} : \E i \in {j, NoJob} :
            Moved(t, pc, i) /\ (pc = "await" => i = j)
    <3>1. CASE Wait(t)
      BY <1>0, <3>1, WaitMoves
    <3>2. CASE Return(t)
      BY <1>0, <3>2, ReturnMoves
    <3>3. QED
      BY <1>16, <3>1, <3>2 DEF Settle
  <2>9. PICK i \in {j, NoJob} : Moved(t, pc, i) /\ (pc = "await" => i = j)
    BY <2>1
  <2>2. /\ hold' \in [Jobs -> {"none", "reserved", "reconciled", "released"}]
        /\ \A k \in Jobs \ {j} : hold'[k] = hold[k]
    BY <1>0, <1>16 DEF Settle, Release, Reconcile, budget, IInv, Types
  <2>3. j \in Videos => Known(j) /\ posts[j] = 1
    BY <1>0, <1>16 DEF Settle, VideoTask, VideoRow, Known, At
  <2>4. OnVideo(t)' => VideoTask(t)'
    BY <2>9 DEF VideoTask, Moved, At, OnVideo
  <2>5. Types'
    BY <1>0, <1>16, <2>9, <2>2 DEF IInv, Types, Moved, Settle, rest
  <2>6. \A k \in Videos : VideoRow(k)'
    BY <1>16 DEF Settle, rest, IInv, VideoRow, Known
  <2>7. \A u \in Tasks : Calm(u)
    BY <1>16, <2>2, <2>3 DEF Settle, rest, Calm, AlreadyBacked, Known, Videos
  <2>8. QED
    BY <1>0, <2>9, <2>4, <2>5, <2>6, <2>7, StepKeeps DEF Steps
<1>17. CASE BeginWait(t)
  <2>1. CASE Return(t)
    <3>1. Moved(t, "idle", NoJob)
      BY <1>0, <2>1, ReturnMoves
    <3>2. ~OnVideo(t)'
      BY <3>1 DEF OnVideo, Moved, At
    <3>3. QED
      BY <1>0, <1>17, <3>1, <3>2, MoveKeeps DEF BeginWait, budget, rest, Steps
  <2>2. CASE row[j].id /\ Go(t, "polling")
    <3>1. Moved(t, "polling", j)
      BY <1>0, <2>2, GoMoves DEF Steps
    <3>2. OnVideo(t)' => VideoTask(t)'
      BY <1>0, <1>17, <2>2, <3>1 DEF BeginWait, rest, VideoRow, VideoTask, Moved, At, OnVideo, Job, Videos
    <3>3. QED
      BY <1>0, <1>17, <3>1, <3>2, MoveKeeps DEF BeginWait, budget, rest, Steps
  <2>3. QED
    BY <1>0, <1>17, <2>1, <2>2 DEF BeginWait
<1>18. CASE Deadline(t)
  <2>1. Moved(t, "idle", NoJob) /\ Wrote(j, "timed_out", row[j].id)
    BY <1>0, <1>18, ReturnMoves, SetStatusWrites DEF Deadline, Statuses
  <2>2. ~OnVideo(t)'
    BY <2>1 DEF OnVideo, Moved, At
  <2>3. QED
    BY <1>0, <1>18, <2>1, <2>2, WriteKeeps
    DEF Deadline, budget, rest, Steps, Statuses, Finished, VideoRow, VideoTask, At
<1>19. CASE Poll(t)
  <2> DEFINE pc == CASE remote[j] = "rendering" -> "note"
                     [] remote[j] = "nothing" -> "drop"
                     [] OTHER -> "heard"
  <2>1. pc \in {"note", "drop", "heard"}
    OBVIOUS
  <2>2. Moved(t, pc, j)
    BY <1>0, <1>19, <2>1, GoMoves DEF Poll, Steps
  <2>3. OnVideo(t)' => VideoTask(t)'
    <3>1. Job(t)' = j /\ task'[t].pc = pc /\ Videos' = Videos
      BY <2>2 DEF Moved, Job, Videos
    <3>2. j \in Videos => remote[j] # "none"
      BY <1>0, <1>19 DEF Poll, VideoTask, At
    <3>3. OnVideo(t)' => j \in Videos
      BY <3>1 DEF OnVideo
    <3>4. remote' = remote
      BY <1>19 DEF Poll, rest
    <3>5. QED
      BY <1>0, <3>1, <3>2, <3>3, <3>4 DEF VideoTask, At, Known
  <2>4. QED
    BY <1>0, <1>19, <2>1, <2>2, <2>3, MoveKeeps DEF Poll, budget, rest, Steps
<1>20. CASE NoteProgress(t)
  <2>1. Moved(t, "polling", j) /\ Wrote(j, "in_progress", row[j].id)
    BY <1>0, <1>20, GoMoves, SetStatusWrites DEF NoteProgress, Statuses, Steps
  <2>2. OnVideo(t)' => VideoTask(t)'
    BY <1>0, <1>20, <2>1 DEF NoteProgress, VideoTask, Moved, At, Known, Job, OnVideo, Videos, rest
  <2>3. QED
    BY <1>0, <1>20, <2>1, <2>2, WriteKeeps
    DEF NoteProgress, budget, rest, Steps, Statuses, Finished, VideoRow, VideoTask, At
<1>21. CASE Conclude(t)
  <2> DEFINE status == IF remote[j] = "completed" THEN "completed" ELSE "failed"
             cost == IF remote[j] = "completed" THEN CostOf(j, quoted[j]) ELSE quoted[j]
  <2>a. Estimate[j] \in Nat
    BY BudgetAssumption
  <2>b. cost \in Nat
    BY <1>0, <2>a DEF CostOf
  <2>c. Finish(j, status, cost) /\ task' = [task EXCEPT ![t].pc = "settle", ![t].bill = cost]
    BY <1>0, <1>21 DEF Conclude
  <2>0. status \in Finished /\ status \in Statuses /\ (j \in Videos => Known(j))
    BY <1>0, <1>21 DEF Conclude, VideoTask, Finished, Statuses, At
  <2>1. Moved(t, "settle", j) /\ Wrote(j, status, row[j].id)
    <3> HIDE DEF status, cost
    <3>1. QED
      BY <1>0, <2>0, <2>b, <2>c, BillMoves, FinishWrites DEF Steps
  <2>2. OnVideo(t)' => VideoTask(t)'
    BY <1>0, <1>21, <2>0, <2>1 DEF Conclude, rest, VideoTask, Moved, At, Known, Job, OnVideo, Videos
  <2>3. status \notin {"absent", "queued"}
    OBVIOUS
  <2> HIDE DEF status
  <2>4. QED
    BY <1>0, <1>21, <2>0, <2>1, <2>2, <2>3, WriteKeeps DEF Conclude, budget, rest, Steps, VideoRow
<1>22. CASE Reopen(t)
  <2>1. Moved(t, "await", j) /\ Wrote(j, "submitted", row[j].id)
    BY <1>0, <1>22, GoMoves, SetStatusWrites DEF Reopen, Statuses, Steps
  <2>2. OnVideo(t)' => VideoTask(t)'
    BY <1>0, <1>22, <2>1 DEF Reopen, VideoTask, Moved, At, Known, Job, OnVideo, Videos, rest
  <2>3. QED
    BY <1>0, <1>22, <2>1, <2>2, WriteKeeps
    DEF Reopen, budget, rest, Steps, Statuses, Finished, VideoRow, VideoTask, At
<1>23. CASE Requeue(t)
  <2>0. j \notin Videos
    BY <1>0, <1>23 DEF Requeue, VideoTask, At
  <2>1. Moved(t, "inputs", j) /\ Wrote(j, "queued", row[j].id)
    BY <1>0, <1>23, GoMoves, SetStatusWrites DEF Requeue, Steps, Statuses
  <2>2. ~OnVideo(t)'
    BY <2>0, <2>1 DEF OnVideo, Moved, Job
  <2>3. QED
    BY <1>0, <1>23, <2>0, <2>1, <2>2, WriteKeeps DEF Requeue, budget, rest, Steps, Statuses
<1>24. QED
  BY <1>1, <1>2, <1>3, <1>4, <1>5, <1>6, <1>7, <1>8, <1>9, <1>10, <1>11, <1>12, <1>13, <1>14, <1>15, <1>16, <1>17, <1>18, <1>19, <1>20, <1>21, <1>22, <1>23 DEF Step

\* A node's submit, or its resume.
LEMMA SubmitKeeps ==
    ASSUME IInv, NEW t \in Tasks, NEW j \in Jobs, SubmitOrResume(t, j)
    PROVE  IInv'
<1>0. /\ task \in TaskType /\ row \in RowType /\ asked \subseteq Jobs
      /\ row[j] \in [status : Statuses, id : BOOLEAN, cost : Nat]
      /\ j \in Videos => VideoRow(j)
  BY DEF IInv, Types, RowType
<1>1. UNCHANGED <<hold, asked, posts, remote, quoted>>
  BY DEF SubmitOrResume, budget, rest
<1>2. CASE row[j].status \in {"absent", "queued"} /\ SetStatus(j, "queued") /\ Begin(t, j, "inputs", "node")
  <2>1. Moved(t, "inputs", j) /\ Wrote(j, "queued", row[j].id)
    BY <1>0, <1>2, BeginMoves, SetStatusWrites DEF Steps, Statuses
  <2>2. OnVideo(t)' => VideoTask(t)'
    BY <2>1 DEF VideoTask, Moved, At
  <2>3. QED
    BY <1>0, <1>1, <1>2, <2>1, <2>2, WriteKeeps DEF Steps, Statuses, Finished, VideoRow
<1>3. CASE row[j].status = "submitting" /\ SetStatus(j, "unknown") /\ UNCHANGED task
  <2>1. Wrote(j, "unknown", row[j].id)
    BY <1>0, <1>3, SetStatusWrites DEF Statuses
  <2>2. Types'
    BY <1>1, <1>3, <2>1 DEF IInv, Types, Wrote
  <2>3. ASSUME NEW k \in Videos PROVE VideoRow(k)'
    <3>1. VideoRow(k) /\ k \in Jobs
      BY DEF IInv, Videos
    <3>2. QED
      BY <1>1, <2>1, <3>1 DEF VideoRow, Known, Wrote, Finished
  <2>4. \A u \in Tasks : Calm(u)
    BY <1>1, <2>1 DEF Calm, AlreadyBacked, Known, Wrote, Videos
  <2>5. QED
    BY <1>3, <2>2, <2>3, <2>4, EventKeeps
<1>4. CASE /\ row[j].status \in Finished
           /\ task' = [task EXCEPT ![t] = [Idle EXCEPT !.pc = "resettle", !.job = j, !.bill = row[j].cost]]
           /\ UNCHANGED row
  <2>1. Moved(t, "resettle", j)
    BY <1>0, <1>4 DEF TaskType, Moved, Idle, Steps
  <2>2. OnVideo(t)' => VideoTask(t)'
    BY <1>0, <1>1, <1>4, <2>1 DEF VideoRow, VideoTask, Moved, At, Known, Job, OnVideo, Videos
  <2>3. QED
    BY <1>0, <1>1, <1>4, <2>1, <2>2, MoveKeeps DEF Steps
<1>5. CASE Begin(t, j, "await", "node") /\ UNCHANGED row
  <2>1. Moved(t, "await", j)
    BY <1>0, <1>5, BeginMoves DEF Steps
  <2>2. OnVideo(t)' => VideoTask(t)'
    BY <2>1 DEF VideoTask, Moved, At
  <2>3. QED
    BY <1>0, <1>1, <1>5, <2>1, <2>2, MoveKeeps DEF Steps
<1>6. QED
  BY <1>2, <1>3, <1>4, <1>5 DEF SubmitOrResume

\* A check that starts: a video is waited for, and never queued again.
LEMMA CheckKeeps ==
    ASSUME IInv, NEW t \in Tasks, NEW j \in Jobs, Check(t, j)
    PROVE  IInv'
<1>0. task \in TaskType /\ asked' \subseteq Jobs /\ (j \in Videos => Modality[j] = "video")
  BY DEF IInv, Types, Check, Videos
<1>1. UNCHANGED <<hold, row, posts, remote, quoted>>
  BY DEF Check, budget
<1>2. ASSUME NEW pc \in {"reopen", "await", "requeue"}, Begin(t, j, pc, "check"),
             pc = "requeue" => j \notin Videos
      PROVE  IInv'
  <2>1. Moved(t, pc, j)
    BY <1>0, <1>2, BeginMoves DEF Steps
  <2>2. OnVideo(t)' => VideoTask(t)'
    BY <1>2, <2>1 DEF VideoTask, Moved, At, OnVideo, Job, Videos
  <2>3. QED
    BY <1>0, <1>1, <1>2, <2>1, <2>2, MoveKeeps DEF Steps
<1>3. CASE UNCHANGED task
  BY <1>0, <1>1, <1>3, QuietKeeps
<1>4. QED
  BY <1>0, <1>2, <1>3 DEF Check, Videos

LEMMA StopKeeps ==
    ASSUME IInv, NEW t \in Tasks, Stop(t)
    PROVE  IInv'
<1>1. Moved(t, "idle", NoJob)
  BY ReturnMoves DEF Stop, IInv, Types
<1>2. ~OnVideo(t)'
  BY <1>1 DEF OnVideo, Moved, At
<1>3. asked' \subseteq Jobs
  BY DEF Stop, IInv, Types, At, Job
<1>4. QED
  BY <1>1, <1>2, <1>3, MoveKeeps DEF Stop, budget, Steps

\* The provider takes a video on or ends it.
LEMMA ProviderKeeps ==
    ASSUME IInv, NEW j \in Jobs, NEW end \in {"rendering", "completed", "failed", "nothing"},
           remote' = [remote EXCEPT ![j] = end], quoted' \in [Jobs -> Nat],
           posts[j] > 0, ~Known(j), end = "rendering" => remote[j] = "none",
           UNCHANGED <<hold, row, task, asked, posts>>
    PROVE  IInv'
<1>1. /\ remote' \in [Jobs -> {"none", "rendering", "completed", "failed", "nothing"}]
      /\ remote'[j] = end /\ \A k \in Jobs \ {j} : remote'[k] = remote[k]
  BY DEF IInv, Types
<1>2. Types'
  BY <1>1 DEF IInv, Types
<1>3. ASSUME NEW k \in Videos PROVE VideoRow(k)'
  <2>1. VideoRow(k) /\ k \in Jobs
    BY DEF IInv, Videos
  <2>2. QED
    BY <1>1, <2>1 DEF VideoRow, Known
<1>4. \A u \in Tasks : Calm(u)
  BY <1>1 DEF Calm, AlreadyBacked, Known, Videos
<1>5. QED
  BY <1>2, <1>3, <1>4, EventKeeps

\* The inductive step.
LEMMA NextKeeps ==
    ASSUME IInv, [Next]_vars
    PROVE  IInv'
<1>1. ASSUME NEW t \in Tasks, Step(t) PROVE IInv'
  BY <1>1, WorkKeeps
<1>2. ASSUME NEW j \in Jobs, Ask(j) PROVE IInv'
  BY <1>2, QuietKeeps DEF Ask, budget, IInv, Types
<1>3. ASSUME NEW j \in Jobs, Accept(j) PROVE IInv'
  BY <1>3, ProviderKeeps DEF Accept, budget, IInv, Types, Known
<1>4. ASSUME NEW j \in Jobs, NEW end \in {"completed", "failed", "nothing"},
             NEW cost \in 0 .. Estimate[j], NEW said \in {0, cost}, ProviderEnds(j, end, cost, said)
      PROVE  IInv'
  <2>0. cost \in Nat /\ quoted' \in [Jobs -> Nat]
    <3>1. Estimate[j] \in Nat
      BY BudgetAssumption
    <3>2. said \in Nat
      BY <3>1
    <3>3. QED
      BY <1>4, <3>1, <3>2 DEF ProviderEnds, IInv, Types
  <2>1. j \in Videos /\ VideoRow(j) /\ posts[j] = 1 /\ ~Known(j)
    BY <1>4 DEF ProviderEnds, IInv, Videos, VideoRow, Known
  <2>2. /\ UNCHANGED <<hold, row, task, asked, posts>>
        /\ remote' = [remote EXCEPT ![j] = end]
        /\ end \in {"rendering", "completed", "failed", "nothing"} /\ end # "rendering"
    BY <1>4 DEF ProviderEnds, budget
  <2>3. posts[j] > 0 /\ (end = "rendering" => remote[j] = "none")
    BY <2>1, <2>2
  <2>4. QED
    BY <2>0, <2>1, <2>2, <2>3, ProviderKeeps, Zenon
<1>5. CASE UNCHANGED vars
  BY <1>5, QuietKeeps DEF vars, IInv, Types
<1>6. QED
  BY <1>1, <1>2, <1>3, <1>4, <1>5, SubmitKeeps, CheckKeeps, StopKeeps DEF Next

LEMMA Invariance == Spec => []IInv
<1>1. QED
  BY InitHolds, NextKeeps, PTL DEF Spec

-----------------------------------------------------------------------------
(* Paid work                                                                *)

\* The abstract variables under the refinement mapping.
Backed == {j \in Videos : AlreadyBacked(j)}
SentTo == [j \in Videos |-> posts[j]]
Ended == {j \in Videos : Known(j)}

\* A step that changes neither what videos hold, nor their POSTs, nor their ends.
LEMMA Stutters ==
    ASSUME \A j \in Videos : /\ AlreadyBacked(j)' <=> AlreadyBacked(j)
                             /\ posts'[j] = posts[j]
                             /\ Known(j)' <=> Known(j)
    PROVE  UNCHANGED <<Backed, SentTo, Ended>>
BY DEF Backed, SentTo, Ended, Videos

LEMMA Backs ==
    ASSUME IInv, NEW j \in Jobs,
           \A k \in Jobs \ {j} : hold'[k] = hold[k], AlreadyBacked(j)',
           UNCHANGED <<posts, remote>>
    PROVE  [Account!Next]_<<Backed, SentTo, Ended>>
<1>1. CASE j \in Videos
  <2>1. Backed' = Backed \cup {j} /\ UNCHANGED <<SentTo, Ended>>
    BY <1>1 DEF Backed, SentTo, Ended, Videos, AlreadyBacked, Known
  <2>2. QED
    BY <1>1, <2>1 DEF Account!Next, Account!Back, Backed, SentTo, Ended, Known
<1>2. CASE j \notin Videos
  BY <1>2, Stutters DEF AlreadyBacked, Known, Videos
<1>3. QED
  BY <1>1, <1>2

LEMMA Frees ==
    ASSUME IInv, NEW j \in Jobs, j \in Videos => Known(j),
           \A k \in Jobs \ {j} : hold'[k] = hold[k], ~AlreadyBacked(j)',
           UNCHANGED <<posts, remote>>
    PROVE  [Account!Next]_<<Backed, SentTo, Ended>>
<1>1. CASE j \in Videos
  <2>1. Backed' = Backed \ {j} /\ UNCHANGED <<SentTo, Ended>>
    BY <1>1 DEF Backed, SentTo, Ended, Videos, AlreadyBacked, Known
  <2>2. QED
    BY <1>1, <2>1 DEF Account!Next, Account!Free, Backed, SentTo, Ended, Known
<1>2. CASE j \notin Videos
  BY <1>2, Stutters DEF AlreadyBacked, Known, Videos
<1>3. QED
  BY <1>1, <1>2

LEMMA Ends ==
    ASSUME IInv, NEW j \in Jobs, j \in Videos => posts[j] = 1,
           NEW end \in {"completed", "failed", "nothing"},
           remote' = [remote EXCEPT ![j] = end],
           UNCHANGED <<hold, posts>>
    PROVE  [Account!Next]_<<Backed, SentTo, Ended>>
<1>0. remote'[j] = end /\ \A k \in Jobs \ {j} : remote'[k] = remote[k]
  BY DEF IInv, Types
<1>1. CASE j \in Videos
  <2>1. Ended' = Ended \cup {j} /\ UNCHANGED <<Backed, SentTo>>
    BY <1>0, <1>1 DEF Backed, SentTo, Ended, Videos, AlreadyBacked, Known
  <2>2. QED
    BY <1>1, <2>1 DEF Account!Next, Account!End, Backed, SentTo, Ended, Known
<1>2. CASE j \notin Videos
  BY <1>0, <1>2, Stutters DEF AlreadyBacked, Known, Videos
<1>3. QED
  BY <1>1, <1>2

\* The scripts: a refused, repeated or pointless call changes nothing.
LEMMA ReserveMaps ==
    ASSUME IInv, NEW j \in Jobs, NEW amount, Reserve(j, amount), UNCHANGED <<posts, remote>>
    PROVE  [Account!Next]_<<Backed, SentTo, Ended>>
<1>1. CASE UNCHANGED hold
  BY <1>1, Stutters DEF AlreadyBacked, Known
<1>2. CASE hold' = [hold EXCEPT ![j] = "reserved"]
  <2>1. AlreadyBacked(j)' /\ \A k \in Jobs \ {j} : hold'[k] = hold[k]
    BY <1>2 DEF AlreadyBacked, IInv, Types
  <2>2. QED
    BY <2>1, Backs
<1>3. QED
  BY <1>1, <1>2 DEF Reserve, budget

LEMMA ReconcileMaps ==
    ASSUME IInv, NEW j \in Jobs, NEW amount, Reconcile(j, amount), UNCHANGED <<posts, remote>>
    PROVE  [Account!Next]_<<Backed, SentTo, Ended>>
<1>1. CASE UNCHANGED hold
  BY <1>1, Stutters DEF AlreadyBacked, Known
<1>2. CASE hold' = [hold EXCEPT ![j] = "reconciled"]
  <2>1. AlreadyBacked(j)' /\ \A k \in Jobs \ {j} : hold'[k] = hold[k]
    BY <1>2 DEF AlreadyBacked, IInv, Types
  <2>2. QED
    BY <2>1, Backs
<1>3. QED
  BY <1>1, <1>2 DEF Reconcile, budget

LEMMA ReleaseMaps ==
    ASSUME IInv, NEW j \in Jobs, j \in Videos => Known(j), Release(j), UNCHANGED <<posts, remote>>
    PROVE  [Account!Next]_<<Backed, SentTo, Ended>>
<1>1. CASE UNCHANGED hold
  BY <1>1, Stutters DEF AlreadyBacked, Known
<1>2. CASE hold' = [hold EXCEPT ![j] = "released"]
  <2>1. ~AlreadyBacked(j)' /\ \A k \in Jobs \ {j} : hold'[k] = hold[k]
    BY <1>2 DEF AlreadyBacked, IInv, Types
  <2>2. QED
    BY <2>1, Frees
<1>3. QED
  BY <1>1, <1>2 DEF Release, budget

\* Every step of a task at work is a step of SpendControl, or none.
LEMMA WorkMaps ==
    ASSUME IInv, NEW t \in Tasks, Step(t)
    PROVE  [Account!Next]_<<Backed, SentTo, Ended>>
<1>0. PICK j \in Jobs : Job(t) = j /\ (j \in Videos => VideoTask(t) /\ VideoRow(j))
  <2>1. ~At(t, "idle")
    BY DEF Step, At, BudgetInputs, ReserveEstimate, Refuse, TakeSlot, Claim, Post, PostFails,
           PostUnanswered, VideoTaken, ImageMade, SaveId, RecordUnknown, Complete,
           DropReservation, Fail, Settle, BeginWait, Deadline, Poll, NoteProgress, Conclude,
           Reopen, Requeue
  <2>2. QED
    BY <2>1 DEF IInv, Types, At, Job, OnVideo
<1>1. CASE ReserveEstimate(t)
  BY <1>0, <1>1, ReserveMaps DEF ReserveEstimate
<1>2. CASE Post(t)
  <2>1. /\ posts'[j] = posts[j] + 1 /\ \A k \in Jobs \ {j} : posts'[k] = posts[k]
        /\ UNCHANGED <<hold, remote>>
    BY <1>0, <1>2 DEF Post, budget, IInv, Types
  <2>2. CASE j \in Videos
    <3>1. posts[j] = 0 /\ AlreadyBacked(j)
      BY <1>0, <1>2, <2>2 DEF Post, VideoTask, At
    <3>2. SentTo' = [SentTo EXCEPT ![j] = 1]
      <4>1. \A k \in Videos : posts'[k] = IF k = j THEN 1 ELSE posts[k]
        BY <2>1, <3>1 DEF Videos
      <4>2. QED
        BY <4>1 DEF SentTo, Videos
    <3>5. UNCHANGED <<Backed, Ended>>
      BY <2>1 DEF Backed, Ended, Videos, AlreadyBacked, Known
    <3>3. j \in Backed /\ SentTo[j] = 0
      BY <2>2, <3>1 DEF Backed, SentTo
    <3>4. QED
      BY <2>2, <3>2, <3>3, <3>5 DEF Account!Next, Account!Send, Backed, SentTo, Ended, Known
  <2>3. CASE j \notin Videos
    BY <2>1, <2>3, Stutters DEF AlreadyBacked, Known, Videos
  <2>4. QED
    BY <2>2, <2>3
<1>3. CASE PostFails(t)
  BY <1>0, <1>3, Ends DEF PostFails, VideoTask, At, budget
<1>4. CASE ImageMade(t)
  <2>1. j \notin Videos
    BY <1>0, <1>4 DEF ImageMade, Videos, Mode
  <2>2. QED
    BY <1>0, <1>4, <2>1, Ends DEF ImageMade, budget
<1>5. CASE DropReservation(t)
  BY <1>0, <1>5, ReleaseMaps DEF DropReservation, VideoTask, At, rest
<1>6. CASE Settle(t)
  BY <1>0, <1>6, ReleaseMaps, ReconcileMaps DEF Settle, VideoTask, At, rest
<1>7. CASE \/ BudgetInputs(t) \/ Refuse(t) \/ TakeSlot(t) \/ Claim(t) \/ PostUnanswered(t)
           \/ VideoTaken(t) \/ SaveId(t) \/ RecordUnknown(t) \/ Complete(t) \/ Fail(t)
           \/ BeginWait(t) \/ Deadline(t) \/ Poll(t) \/ NoteProgress(t) \/ Conclude(t)
           \/ Reopen(t) \/ Requeue(t)
  <2>1. UNCHANGED <<hold, posts, remote>>
    BY <1>7 DEF BudgetInputs, Refuse, TakeSlot, Claim, PostUnanswered, VideoTaken, SaveId,
                RecordUnknown, Complete, Fail, BeginWait, Deadline, Poll, NoteProgress,
                Conclude, Reopen, Requeue, budget, rest
  <2>2. QED
    BY <2>1, Stutters DEF AlreadyBacked, Known
<1>8. QED
  BY <1>1, <1>2, <1>3, <1>4, <1>5, <1>6, <1>7 DEF Step

LEMMA NextMaps ==
    ASSUME IInv, [Next]_vars
    PROVE  [Account!Next]_<<Backed, SentTo, Ended>>
<1>1. ASSUME UNCHANGED <<hold, posts, remote>>
      PROVE  [Account!Next]_<<Backed, SentTo, Ended>>
  BY <1>1, Stutters DEF AlreadyBacked, Known
<1>2. ASSUME NEW j \in Jobs, Accept(j) PROVE [Account!Next]_<<Backed, SentTo, Ended>>
  <2>1. \A k \in Jobs : remote'[k] = IF k = j THEN "rendering" ELSE remote[k]
    BY <1>2 DEF Accept, IInv, Types
  <2>2. QED
    BY <1>2, <2>1, Stutters DEF Accept, budget, AlreadyBacked, Known, Videos
<1>3. ASSUME NEW j \in Jobs, NEW end \in {"completed", "failed", "nothing"},
             NEW cost \in 0 .. Estimate[j], NEW said \in {0, cost}, ProviderEnds(j, end, cost, said)
      PROVE  [Account!Next]_<<Backed, SentTo, Ended>>
  <2>1. posts[j] = 1
    BY <1>3 DEF ProviderEnds, IInv, Videos, VideoRow
  <2>2. QED
    BY <1>3, <2>1, Ends DEF ProviderEnds, budget
<1>4. ASSUME NEW t \in Tasks, NEW j \in Jobs, SubmitOrResume(t, j) \/ Check(t, j) \/ Stop(t) \/ Ask(j)
      PROVE  UNCHANGED <<hold, posts, remote>>
  BY <1>4 DEF SubmitOrResume, Check, Stop, Ask, budget, rest
<1>5. QED
  BY <1>1, <1>2, <1>3, <1>4, WorkMaps DEF Next, vars, Ask, Stop, budget

\* The jobs module implements SpendControl: no video is sent twice, none without
\* money reserved for it, and the money is let go only when its end is known
\* (Laws 37 and 43).
THEOREM PaidWork == Spec => PaidWorkIsControlled
<1>1. Init => Account!Init
  <2> SUFFICES ASSUME Init PROVE Account!Init
    OBVIOUS
  <2>1. \A j \in Videos : ~AlreadyBacked(j) /\ posts[j] = 0 /\ ~Known(j)
    BY DEF Init, BudgetInit, AlreadyBacked, Known, Videos
  <2>2. Backed = {} /\ SentTo = [j \in Videos |-> 0] /\ Ended = {}
    BY <2>1 DEF Backed, SentTo, Ended
  <2>3. QED
    BY <2>2 DEF Account!Init, Backed, SentTo, Ended, Known
<1>2. IInv /\ [Next]_vars => [Account!Next]_<<Backed, SentTo, Ended>>
  BY NextMaps
<1>3. QED
  BY <1>1, <1>2, Invariance, PTL
  DEF Spec, PaidWorkIsControlled, Account!Spec, Backed, SentTo, Ended, Known


=============================================================================
