--------------------------- MODULE RunTypes_proofs ---------------------------
(***************************************************************************)
(* What the steps of a run do, for every pipeline and any number of runs,   *)
(* workers and requests: every variable keeps its type, and every step      *)
(* either tidies up the rows of the nodes or writes one of them. The       *)
(* inductive invariant of the types adds to TypeOK that a node has only so  *)
(* many attempts, so that the number of the newest one, and with it the     *)
(* number of the next (_next_attempt), is a number.                         *)
(***************************************************************************)
EXTENDS RunLifecycle, SequenceTheorems, Lemmas_proofs

-----------------------------------------------------------------------------
(* The questions of the gates                                               *)

\* The questions are typed; the rest of TypeOK is not needed here.
AskTypes == asks \in [Runs -> [Nodes -> Seq(AskStatus)]]

\* A question is never taken back: the list of asks only grows, and only the
\* entries that are still pending change.
Grows(old, new) ==
    /\ Len(old) <= Len(new)
    /\ \A i \in DOMAIN old : old[i] # "pending" => new[i] = old[i]

\* The newest question is the only one that may be open.
OnlyNewestOpen(table) == \A i \in DOMAIN table : table[i] = "pending" => i = Len(table)

-----------------------------------------------------------------------------

\* Closing what is open (approvals.expire_pending) keeps the type, changes no
\* answer and leaves nothing open.
LEMMA ExpireKeeps ==
    ASSUME NEW table \in [Nodes -> Seq(AskStatus)]
    PROVE  /\ Expire(table) \in [Nodes -> Seq(AskStatus)]
           /\ \A n \in Nodes : /\ Grows(table[n], Expire(table)[n])
                               /\ OnlyNewestOpen(Expire(table)[n])
<1> DEFINE closed(n) == [i \in 1..Len(table[n]) |->
                           IF table[n][i] = "pending" THEN "expired" ELSE table[n][i]]
<1>1. ASSUME NEW n \in Nodes
      PROVE  /\ closed(n) \in Seq(AskStatus)
             /\ Grows(table[n], closed(n))
             /\ OnlyNewestOpen(closed(n))
  <2>1. table[n] \in Seq(AskStatus)
    OBVIOUS
  <2>2. /\ Len(table[n]) \in Nat
        /\ DOMAIN table[n] = 1..Len(table[n])
        /\ \A i \in 1..Len(table[n]) : table[n][i] \in AskStatus
    BY <2>1
  <2>3. closed(n) \in Seq(AskStatus) /\ Len(closed(n)) = Len(table[n])
    BY <2>2 DEF AskStatus
  <2>4. /\ DOMAIN closed(n) = 1..Len(table[n])
        /\ \A i \in 1..Len(table[n]) :
             closed(n)[i] = IF table[n][i] = "pending" THEN "expired" ELSE table[n][i]
    OBVIOUS
  <2>5. Grows(table[n], closed(n))
    BY <2>2, <2>3, <2>4 DEF Grows
  <2>6. OnlyNewestOpen(closed(n))
    BY <2>4 DEF OnlyNewestOpen
  <2>7. QED
    BY <2>3, <2>5, <2>6
<1>2. Expire(table) = [n \in Nodes |-> closed(n)]
  BY DEF Expire
<1>3. QED
  BY <1>1, <1>2

\* The four things that can happen to the questions of a project.
Untouched == UNCHANGED asks
Asked(r, n) == ~Pending(r, n) /\ asks' = [asks EXCEPT ![r][n] = Append(@, "pending")]
Closed(r) == asks' = [asks EXCEPT ![r] = Expire(@)]
Answered(r, n, i, verdict) ==
    asks[r][n][i] = "pending" /\ asks' = [asks EXCEPT ![r][n][i] = verdict]

AskStep ==
    \/ Untouched
    \/ \E r, n : Asked(r, n)
    \/ \E r : Closed(r)
    \/ \E r, n, i : \E verdict \in {"approved", "rejected"} : Answered(r, n, i, verdict)

\* A worker asks when it opens a gate and closes when it ends a run.
LEMMA WorkerAsks == \A w \in Workers : WorkerStep(w) => AskStep
<1> SUFFICES ASSUME NEW w \in Workers, WorkerStep(w)
             PROVE  AskStep
  OBVIOUS
<1>1. CASE \E r \in Runs : Dequeue(w, r)
  BY <1>1 DEF Dequeue, AskStep, Untouched
<1>2. CASE Abort(w) \/ AbortFinish(w) \/ AbortRelease(w)
  BY <1>2 DEF Abort, AbortFinish, AbortRelease, AskStep, Untouched
<1>3. CASE SweepStale(w) \/ MarkRunning(w) \/ FirstBeat(w)
  BY <1>3 DEF SweepStale, MarkRunning, FirstBeat, AskStep, Untouched
<1>4. CASE BeginPass(w) \/ PassesExhausted(w)
  BY <1>4 DEF BeginPass, PassesExhausted, AskStep, Untouched
<1>5. CASE StopCancelled(w) \/ NextWave(w) \/ EndPass(w)
  BY <1>5, Zenon DEF StopCancelled, NextWave, EndPass, AskStep, Untouched
<1>6. ASSUME NEW n \in Nodes,
             StartNode(w, n) \/ NodeSucceeds(w, n) \/ NodeFails(w, n)
                \/ OpenTask(w, n) \/ RowLost(w, n) \/ NumberNode(w, n) \/ NumberTaken(w, n)
                \/ FindOpen(w, n) \/ GateTaken(w, n)
      PROVE  AskStep
  BY <1>6, Zenon DEF StartNode, NodeSucceeds, NodeFails, OpenTask, RowLost, NumberNode,
              NumberTaken, FindOpen, GateTaken, AskStep, Untouched
<1>7. ASSUME NEW n \in Nodes, OpenGate(w, n)
      PROVE  AskStep
  BY <1>7, Zenon DEF OpenGate, AskStep, Untouched, Asked
<1>8. CASE EndWave(w) \/ StopBroken(w) \/ StopOverBudget(w)
  BY <1>8, Zenon DEF EndWave, StopBroken, StopOverBudget, AskStep, Untouched
<1>9. CASE ParkOnGate(w) \/ ParkOnTask(w) \/ PauseRelease(w)
  BY <1>9 DEF ParkOnGate, ParkOnTask, PauseRelease, AskStep, Untouched
<1>10. CASE SkipUnreached(w) \/ FinishRun(w) \/ FinishRelease(w) \/ ClearCancel(w)
  BY <1>10 DEF SkipUnreached, FinishRun, FinishRelease, ClearCancel, AskStep, Untouched
<1>11. CASE ExpireGates(w)
  BY <1>11 DEF ExpireGates, AskStep, Closed
<1>12. QED
  BY <1>1, <1>2, <1>3, <1>4, <1>5, <1>6, <1>7, <1>8, <1>9, <1>10, <1>11 DEF WorkerStep

\* A request closes what is open or answers what is open.
LEMMA RequestAsks ==
    \A h \in Handlers :
        ControlStep(h) \/ DecisionStep(h) \/ ControlRequest(h) \/ DecisionRequest(h) => AskStep
<1> SUFFICES ASSUME NEW h \in Handlers
             PROVE  ControlStep(h) \/ DecisionStep(h) \/ ControlRequest(h) \/ DecisionRequest(h)
                        => AskStep
  OBVIOUS
<1>1. CASE LaunchCommit(h) \/ LaunchCommitFails(h) \/ LaunchEnqueue(h) \/ LaunchFails(h)
  BY <1>1 DEF LaunchCommit, LaunchCommitFails, LaunchEnqueue, LaunchFails, AskStep, Untouched
<1>2. CASE CancelFlag(h) \/ CancelFinish(h) \/ CancelSkip(h) \/ ReleaseLock(h)
  BY <1>2 DEF CancelFlag, CancelFinish, CancelSkip, ReleaseLock, AskStep, Untouched
<1>3. CASE CloseQuestions(h)
  BY <1>3 DEF CloseQuestions, AskStep, Closed
<1>4. CASE RetryLock(h) \/ RetryReset(h) \/ RetryClear(h)
  BY <1>4 DEF RetryLock, RetryReset, RetryClear, AskStep, Untouched
<1>5. CASE Requeue(h) \/ Enqueue(h) \/ EnqueueFails(h)
  BY <1>5 DEF Requeue, Enqueue, EnqueueFails, AskStep, Untouched
<1>6. ASSUME NEW verdict \in {"approved", "rejected"}, Decide(h, verdict)
      PROVE  AskStep
  BY <1>6 DEF Decide, AskStep, Answered
<1>7. CASE DecideConflict(h) \/ ResumeLock(h) \/ RejectSkip(h) \/ RejectFinish(h) \/ Clear(h)
  BY <1>7 DEF DecideConflict, ResumeLock, RejectSkip, RejectFinish, Clear, AskStep, Untouched
<1>8. CASE ControlRequest(h)
  BY <1>8 DEF ControlRequest, LaunchLock, CancelLoad, RetryLoad, AskStep, Untouched
<1>9. CASE DecisionRequest(h)
  BY <1>9 DEF DecisionRequest, DecideLoad, ClearLoad, AskStep, Untouched
<1>10. QED
  BY <1>1, <1>2, <1>3, <1>4, <1>5, <1>6, <1>7, <1>8, <1>9 DEF ControlStep, DecisionStep

\* The sweep closes the questions of the run it fails.
LEMMA SweepAsks == ReaperStep => AskStep
<1>1. (\E r \in Runs : ListStale(r)) \/ CheckBeat \/ ReapLoad \/ ReapFinish \/ ReapRelease
        => AskStep
  BY DEF ListStale, CheckBeat, ReapLoad, ReapFinish, ReapRelease, AskStep, Untouched
<1>2. ReapExpire => AskStep
  BY DEF ReapExpire, AskStep, Closed
<1>3. QED
  BY <1>1, <1>2 DEF ReaperStep

LEMMA EveryStepAsks == [Next]_vars => AskStep
<1> SUFFICES ASSUME [Next]_vars PROVE AskStep
  OBVIOUS
<1>1. CASE \E w \in Workers : Work(w)
  BY <1>1, WorkerAsks DEF Work
<1>2. CASE \E h \in Handlers : Serve(h)
  BY <1>2, RequestAsks DEF Serve
<1>3. CASE (\E r \in Runs : Expiry(r)) \/ Sweep
  BY <1>3, SweepAsks DEF Expiry, BeatExpires, Sweep, AskStep, Untouched
<1>4. CASE Surprise
  <2>1. CASE \E h \in Handlers : ControlRequest(h) \/ DecisionRequest(h)
    BY <2>1, RequestAsks
  <2>2. CASE \E h \in Handlers : ApiCrash(h)
    BY <2>2 DEF ApiCrash, AskStep, Untouched
  <2>3. CASE \E r \in Runs, n \in Nodes : SubmitTask(r, n)
    BY <2>3 DEF SubmitTask, AskStep, Untouched
  <2>4. CASE (\E w \in Workers : WorkerCrash(w)) \/ LockExpires \/ ReaperCrash
    BY <2>4 DEF WorkerCrash, LockExpires, ReaperCrash, AskStep, Untouched
  <2>5. QED
    BY <1>4, <2>1, <2>2, <2>3, <2>4 DEF Surprise
<1>5. CASE UNCHANGED vars
  BY <1>5 DEF vars, AskStep, Untouched
<1>6. QED
  BY <1>1, <1>2, <1>3, <1>4, <1>5 DEF Next

-----------------------------------------------------------------------------

\* What one step does to the questions of one gate.
OneGateStep(old, new) ==
    /\ new \in Seq(AskStatus)
    /\ Grows(old, new)
    /\ OnlyNewestOpen(old) => OnlyNewestOpen(new)

LEMMA GateSteps ==
    ASSUME AskTypes, AskStep
    PROVE  /\ AskTypes'
           /\ \A r \in Runs, n \in Nodes : OneGateStep(asks[r][n], asks'[r][n])
<1> USE DEF AskTypes
<1>t. \A r \in Runs, n \in Nodes :
        /\ asks[r][n] \in Seq(AskStatus)
        /\ Len(asks[r][n]) \in Nat
        /\ DOMAIN asks[r][n] = 1..Len(asks[r][n])
        /\ \A i \in 1..Len(asks[r][n]) : asks[r][n][i] \in AskStatus
  OBVIOUS
<1>0. \A r \in Runs, n \in Nodes : OneGateStep(asks[r][n], asks[r][n])
  BY <1>t DEF OneGateStep, Grows
<1>1. CASE Untouched
  BY <1>0, <1>1 DEF Untouched
<1>2. ASSUME NEW r, NEW n, Asked(r, n)
      PROVE  /\ AskTypes'
             /\ \A q \in Runs, m \in Nodes : OneGateStep(asks[q][m], asks'[q][m])
  <2> DEFINE longer == Append(asks[r][n], "pending")
  <2>1. asks' = [asks EXCEPT ![r][n] = longer]
    BY <1>2 DEF Asked
  <2>2. ASSUME r \in Runs, n \in Nodes
        PROVE  OneGateStep(asks[r][n], longer)
    <3>1. /\ longer \in Seq(AskStatus)
          /\ Len(longer) = Len(asks[r][n]) + 1
          /\ DOMAIN longer = 1..(Len(asks[r][n]) + 1)
          /\ \A i \in 1..Len(asks[r][n]) : longer[i] = asks[r][n][i]
      BY <1>t, <2>2 DEF AskStatus
    <3>2. \A i \in 1..Len(asks[r][n]) : asks[r][n][i] # "pending"
      BY <1>2 DEF Asked, Pending
    <3>3. Grows(asks[r][n], longer)
      BY <1>t, <2>2, <3>1 DEF Grows
    <3>4. OnlyNewestOpen(longer)
      BY <1>t, <2>2, <3>1, <3>2 DEF OnlyNewestOpen
    <3>5. QED
      BY <3>1, <3>3, <3>4 DEF OneGateStep
  <2>3. ASSUME NEW q \in Runs, NEW m \in Nodes
        PROVE  asks'[q][m] = IF q = r /\ m = n THEN longer ELSE asks[q][m]
    BY <2>1
  <2>4. \A q \in Runs, m \in Nodes : OneGateStep(asks[q][m], asks'[q][m])
    BY <1>0, <2>2, <2>3
  <2>5. AskTypes'
    <3>1. asks' = [q \in Runs |-> [m \in Nodes |-> asks'[q][m]]]
      BY <2>1
    <3>2. QED
      BY <2>4, <3>1 DEF OneGateStep
  <2>6. QED
    BY <2>4, <2>5
<1>3. ASSUME NEW r, Closed(r)
      PROVE  /\ AskTypes'
             /\ \A q \in Runs, m \in Nodes : OneGateStep(asks[q][m], asks'[q][m])
  <2>1. asks' = [asks EXCEPT ![r] = Expire(asks[r])]
    BY <1>3 DEF Closed
  <2>2. CASE r \notin Runs
    <3>1. asks' = asks
      BY <2>1, <2>2
    <3>2. QED
      BY <1>0, <3>1
  <2>3. CASE r \in Runs
    <3>1. asks[r] \in [Nodes -> Seq(AskStatus)]
      BY <2>3
    <3>2. /\ Expire(asks[r]) \in [Nodes -> Seq(AskStatus)]
          /\ \A m \in Nodes : /\ Grows(asks[r][m], Expire(asks[r])[m])
                              /\ OnlyNewestOpen(Expire(asks[r])[m])
      BY <3>1, ExpireKeeps
    <3>3. AskTypes'
      BY <2>1, <3>2
    <3>4. \A m \in Nodes : OneGateStep(asks[r][m], Expire(asks[r])[m])
      BY <3>2 DEF OneGateStep
    <3>5. QED
      BY <1>0, <2>1, <2>3, <3>3, <3>4
  <2>4. QED
    BY <2>2, <2>3
<1>4. ASSUME NEW r, NEW n, NEW i, NEW verdict \in {"approved", "rejected"},
             Answered(r, n, i, verdict)
      PROVE  /\ AskTypes'
             /\ \A q \in Runs, m \in Nodes : OneGateStep(asks[q][m], asks'[q][m])
  <2> DEFINE answered == [asks[r][n] EXCEPT ![i] = verdict]
  <2>1. asks' = [asks EXCEPT ![r][n] = answered]
    BY <1>4 DEF Answered
  <2>2. ASSUME r \in Runs, n \in Nodes
        PROVE  OneGateStep(asks[r][n], answered)
    <3>0. /\ DOMAIN answered = 1..Len(asks[r][n])
          /\ \A j \in 1..Len(asks[r][n]) :
               answered[j] = IF j = i THEN verdict ELSE asks[r][n][j]
      BY <1>t, <2>2
    <3>1. answered \in Seq(AskStatus) /\ Len(answered) = Len(asks[r][n])
      <4>1. asks[r][n] \in Seq(AskStatus) /\ verdict \in AskStatus
        BY <1>t, <2>2 DEF AskStatus
      <4>2. CASE i \in 1..Len(asks[r][n])
        BY <4>1, <4>2, ExceptSeq
      <4>3. CASE i \notin 1..Len(asks[r][n])
        <5>1. answered = asks[r][n]
          BY <1>t, <2>2, <4>3
        <5>2. QED
          BY <4>1, <5>1
      <4>4. QED
        BY <4>2, <4>3
    <3>2. Grows(asks[r][n], answered)
      BY <1>t, <1>4, <2>2, <3>0, <3>1 DEF Grows, Answered
    <3>3. OnlyNewestOpen(asks[r][n]) => OnlyNewestOpen(answered)
      BY <1>t, <2>2, <3>0, <3>1 DEF OnlyNewestOpen
    <3>4. QED
      BY <3>1, <3>2, <3>3 DEF OneGateStep
  <2>3. ASSUME NEW q \in Runs, NEW m \in Nodes
        PROVE  asks'[q][m] = IF q = r /\ m = n THEN answered ELSE asks[q][m]
    BY <2>1
  <2>4. \A q \in Runs, m \in Nodes : OneGateStep(asks[q][m], asks'[q][m])
    BY <1>0, <2>2, <2>3
  <2>5. AskTypes'
    <3>1. asks' = [q \in Runs |-> [m \in Nodes |-> asks'[q][m]]]
      BY <2>1
    <3>2. QED
      BY <2>4, <3>1 DEF OneGateStep
  <2>6. QED
    BY <2>4, <2>5
<1>5. QED
  BY <1>1, <1>2, <1>3, <1>4 DEF AskStep

-----------------------------------------------------------------------------
(* The invariant                                                           *)

Bounded(table) == \E b \in Nat : \A a \in DOMAIN table : a <= b

\* The rows of one node.
GoodTable(table) == IsTable(table) /\ Bounded(table)

RowsOK ==
    /\ rows = [r \in Runs |-> [n \in Nodes |-> rows[r][n]]]
    /\ \A r \in Runs, n \in Nodes : GoodTable(rows[r][n])

\* A worker that is not idle is inside a run.
Seated == \A w \in Workers : exec[w].pc # "idle" => exec[w].run \in Runs

IInv == TypeOK /\ Seated /\ \A r \in Runs, n \in Nodes : Bounded(rows[r][n])

-----------------------------------------------------------------------------
(* Numbers                                                                  *)

\* A bounded set of numbers has a greatest one.
LEMMA GreatestNumber ==
    ASSUME NEW T, T \subseteq Nat, T # {}, NEW b \in Nat, \A y \in T : y <= b
    PROVE  Max(T) \in T
<1> DEFINE U == {b - y : y \in T}
<1>1. U \subseteq Nat
  <2>1. \A y \in T : b - y \in Nat
    OBVIOUS
  <2>2. QED
    BY <2>1
<1>2. U # {}
  OBVIOUS
<1>3. PICK u \in U : \A v \in U : u <= v
  <2> HIDE DEF U
  <2>1. QED
    BY <1>1, <1>2, LeastNumber
<1>4. PICK x \in T : u = b - x
  OBVIOUS
<1>5. \A y \in T : b - x <= b - y
  BY <1>3, <1>4
<1>6. \A y \in T : x >= y
  BY <1>5
<1>7. QED
  BY <1>6 DEF Max

LEMMA NewestIsANumber ==
    ASSUME NEW table, GoodTable(table), DOMAIN table # {}
    PROVE  Newest(table) \in DOMAIN table /\ Newest(table) \in Nat
<1>1. DOMAIN table \subseteq Nat
  BY DEF GoodTable, IsTable
<1>2. PICK b \in Nat : \A a \in DOMAIN table : a <= b
  BY DEF GoodTable, Bounded
<1>3. QED
  BY <1>1, <1>2, GreatestNumber DEF Newest

-----------------------------------------------------------------------------
(* Writes to the rows of one node                                           *)

\* A write that replaces rows of the table by rows.
LEMMA Rewrite ==
    ASSUME NEW table, GoodTable(table),
           NEW new, new = [a \in DOMAIN table |-> new[a]],
           \A a \in DOMAIN table : new[a] \in RowTable
    PROVE  GoodTable(new)
<1>1. DOMAIN new = DOMAIN table
  OBVIOUS
<1>2. QED
  BY <1>1 DEF GoodTable, IsTable, Bounded

LEMMA RowTyped ==
    ASSUME NEW row \in RowTable, NEW s \in NodeStatus
    PROVE  [row EXCEPT !.status = s] \in RowTable
BY DEF RowTable

LEMMA SetLastTyped ==
    ASSUME NEW table, GoodTable(table), NEW s \in NodeStatus
    PROVE  GoodTable(SetLast(table, s))
<1> DEFINE new == [table EXCEPT ![Newest(table)].status = s]
<1>1. CASE DOMAIN table = {}
  BY <1>1 DEF SetLast
<1>2. CASE DOMAIN table # {}
  <2>1. table = [a \in DOMAIN table |-> table[a]]
    BY DEF GoodTable, IsTable
  <2>2. \A a \in DOMAIN table : table[a] \in RowTable
    BY DEF GoodTable, IsTable
  <2>3. new = [a \in DOMAIN table |-> new[a]]
    BY <2>1
  <2>4. \A a \in DOMAIN table :
          new[a] = IF a = Newest(table) THEN [table[a] EXCEPT !.status = s] ELSE table[a]
    BY <2>1
  <2>5. \A a \in DOMAIN table : new[a] \in RowTable
    BY <2>2, <2>4, RowTyped
  <2>6. GoodTable(new)
    <3> HIDE DEF new
    <3>1. QED
      BY <2>3, <2>5, Rewrite
  <2>7. QED
    BY <1>2, <2>6 DEF SetLast
<1>3. QED
  BY <1>1, <1>2

\* The row of a new attempt.
LEMMA NewRowTyped ==
    ASSUME NEW table, GoodTable(table), NEW a \in Nat, NEW row \in RowTable
    PROVE  GoodTable(WithRow(table, a, row))
<1> DEFINE new == WithRow(table, a, row)
<1>1. /\ DOMAIN new = DOMAIN table \cup {a}
      /\ \A i \in DOMAIN new : new[i] = IF i = a THEN row ELSE table[i]
      /\ new = [i \in DOMAIN new |-> new[i]]
  BY DEF WithRow
<1>2. \A i \in DOMAIN new : new[i] \in RowTable
  BY <1>1 DEF GoodTable, IsTable
<1>3. DOMAIN new \subseteq Nat
  BY <1>1 DEF GoodTable, IsTable
<1>4. Bounded(new)
  <2>1. PICK b \in Nat : \A i \in DOMAIN table : i <= b
    BY DEF GoodTable, Bounded
  <2>2. \A i \in DOMAIN new : i <= b + a
    BY <1>1, <2>1 DEF GoodTable, IsTable
  <2>3. QED
    BY <2>2 DEF Bounded
<1>5. QED
  <2> HIDE DEF new
  <2>1. IsTable(new)
    BY <1>1, <1>2, <1>3 DEF IsTable
  <2>2. QED
    BY <1>4, <2>1 DEF GoodTable, new

LEMMA SkipOneTyped ==
    ASSUME NEW table, GoodTable(table)
    PROVE  GoodTable(SkipOne(table))
<1>1. CASE DOMAIN table = {}
  <2>1. SkipOne(table) = WithRow(table, 1, Row("skipped", NoWorker))
    BY <1>1 DEF SkipOne
  <2>2. Row("skipped", NoWorker) \in RowTable
    BY DEF Row, RowTable, NodeStatus
  <2>3. QED
    BY <2>1, <2>2, NewRowTyped
<1>2. CASE DOMAIN table # {}
  <2>1. "skipped" \in NodeStatus
    BY DEF NodeStatus
  <2>2. QED
    BY <1>2, <2>1, SetLastTyped DEF SkipOne
<1>3. QED
  BY <1>1, <1>2

LEMMA MoveTyped ==
    ASSUME NEW table, GoodTable(table), NEW s, NEW t \in NodeStatus
    PROVE  GoodTable(Move(table, s, t))
<1>1. \A a \in DOMAIN table : table[a] \in RowTable
  BY DEF GoodTable, IsTable
<1>2. \A a \in DOMAIN table : Move(table, s, t)[a] \in RowTable
  BY <1>1, RowTyped DEF Move
<1>3. Move(table, s, t) = [a \in DOMAIN table |-> Move(table, s, t)[a]]
  BY DEF Move
<1>4. QED
  BY <1>2, <1>3, Rewrite

LEMMA DisownTyped ==
    ASSUME NEW table, GoodTable(table), NEW w
    PROVE  GoodTable(Disown(table, w))
<1>1. \A a \in DOMAIN table : table[a] \in RowTable
  BY DEF GoodTable, IsTable
<1>2. \A a \in DOMAIN table : Disown(table, w)[a] \in RowTable
  BY <1>1 DEF Disown, RowTable
<1>3. Disown(table, w) = [a \in DOMAIN table |-> Disown(table, w)[a]]
  BY DEF Disown
<1>4. QED
  BY <1>2, <1>3, Rewrite

LEMMA RestrictTyped ==
    ASSUME NEW table, GoodTable(table), NEW S, S \subseteq DOMAIN table
    PROVE  GoodTable(Restrict(table, S))
BY DEF Restrict, GoodTable, IsTable, Bounded

\* The checkpoint of an attempt.
LEMMA CheckpointTyped ==
    ASSUME NEW table, GoodTable(table), NEW a \in DOMAIN table, NEW row \in RowTable
    PROVE  GoodTable([table EXCEPT ![a] = row])
<1>1. \A i \in DOMAIN table : table[i] \in RowTable
  BY DEF GoodTable, IsTable
<1>2. QED
  BY <1>1, Rewrite

-----------------------------------------------------------------------------
(* Writes to the rows of a run                                              *)

LEMMA OneRunTyped ==
    ASSUME RowsOK, NEW r, NEW tables,
           rows' = [rows EXCEPT ![r] = tables],
           r \in Runs => /\ tables = [n \in Nodes |-> tables[n]]
                         /\ \A n \in Nodes : GoodTable(tables[n])
    PROVE  RowsOK'
<1>1. CASE r \notin Runs
  BY <1>1 DEF RowsOK, GoodTable, IsTable, Bounded
<1>2. CASE r \in Runs
  <2>1. \A q \in Runs : rows'[q] = IF q = r THEN tables ELSE rows[q]
    BY DEF RowsOK
  <2>2. \A q \in Runs : rows[q] = [n \in Nodes |-> rows[q][n]]
    BY DEF RowsOK
  <2>3. \A q \in Runs : rows'[q] = [n \in Nodes |-> rows'[q][n]]
    BY <1>2, <2>1, <2>2
  <2>4. rows' = [q \in Runs |-> rows'[q]]
    BY DEF RowsOK
  <2>5. rows' = [q \in Runs |-> [n \in Nodes |-> rows'[q][n]]]
    BY <2>3, <2>4
  <2>6. \A q \in Runs, n \in Nodes : GoodTable(rows'[q][n])
    BY <1>2, <2>1 DEF RowsOK
  <2>7. QED
    BY <2>5, <2>6 DEF RowsOK, GoodTable, IsTable, Bounded
<1>3. QED
  BY <1>1, <1>2

LEMMA OneNodeTyped ==
    ASSUME RowsOK, NEW r, NEW m, NEW table,
           rows' = [rows EXCEPT ![r][m] = table],
           r \in Runs /\ m \in Nodes => GoodTable(table)
    PROVE  RowsOK'
<1> DEFINE tables == [rows[r] EXCEPT ![m] = table]
<1>1. rows' = [rows EXCEPT ![r] = tables]
  OBVIOUS
<1>2. ASSUME r \in Runs
      PROVE  /\ tables = [n \in Nodes |-> tables[n]]
             /\ \A n \in Nodes : GoodTable(tables[n])
  <2>1. /\ rows[r] = [n \in Nodes |-> rows[r][n]]
        /\ \A n \in Nodes : GoodTable(rows[r][n])
    BY <1>2 DEF RowsOK
  <2>2. DOMAIN tables = Nodes /\ tables = [n \in DOMAIN tables |-> tables[n]]
    BY <2>1
  <2>3. \A n \in Nodes : tables[n] = IF n = m THEN table ELSE rows[r][n]
    BY <2>1
  <2>4. QED
    BY <1>2, <2>1, <2>2, <2>3
<1>3. QED
  <2> HIDE DEF tables
  <2>1. QED
    BY <1>1, <1>2, OneRunTyped

LEMMA SameRows == ASSUME RowsOK, rows' = rows PROVE RowsOK'
BY DEF RowsOK, GoodTable, IsTable, Bounded

LEMMA SkipTyped ==
    ASSUME RowsOK, NEW r, NEW S, rows' = [rows EXCEPT ![r] = Skip(@, S)]
    PROVE  RowsOK'
<1>1. r \in Runs => \A n \in Nodes : GoodTable(rows[r][n])
  BY DEF RowsOK
<1>2. rows' = [rows EXCEPT ![r] = Skip(rows[r], S)]
  OBVIOUS
<1>3. Skip(rows[r], S) = [n \in Nodes |-> Skip(rows[r], S)[n]]
  BY DEF Skip
<1>4. r \in Runs => \A n \in Nodes : GoodTable(Skip(rows[r], S)[n])
  BY <1>1, SkipOneTyped DEF Skip
<1>5. QED
  BY <1>2, <1>3, <1>4, OneRunTyped

LEMMA FailStaleTyped ==
    ASSUME RowsOK, NEW r, rows' = [rows EXCEPT ![r] = FailStale(@)]
    PROVE  RowsOK'
<1>1. r \in Runs => \A n \in Nodes : GoodTable(rows[r][n])
  BY DEF RowsOK
<1>2. rows' = [rows EXCEPT ![r] = FailStale(rows[r])]
  OBVIOUS
<1>3. FailStale(rows[r]) = [n \in Nodes |-> FailStale(rows[r])[n]]
  BY DEF FailStale
<1>4. r \in Runs => \A n \in Nodes : GoodTable(FailStale(rows[r])[n])
  <2>1. "failed" \in NodeStatus
    BY DEF NodeStatus
  <2>2. QED
    BY <1>1, <2>1, MoveTyped DEF FailStale
<1>5. QED
  BY <1>2, <1>3, <1>4, OneRunTyped

LEMMA ResetTyped ==
    ASSUME RowsOK, NEW r, rows' = [rows EXCEPT ![r] = Reset(@)]
    PROVE  RowsOK'
<1>1. r \in Runs => \A n \in Nodes : GoodTable(rows[r][n])
  BY DEF RowsOK
<1>2. rows' = [rows EXCEPT ![r] = Reset(rows[r])]
  OBVIOUS
<1>3. Reset(rows[r]) = [n \in Nodes |-> Reset(rows[r])[n]]
  BY DEF Reset
<1>4. r \in Runs => \A n \in Nodes : GoodTable(Reset(rows[r])[n])
  BY <1>1, RestrictTyped DEF Reset
<1>5. QED
  BY <1>2, <1>3, <1>4, OneRunTyped

-----------------------------------------------------------------------------
(* What every step does to the rows                                         *)

LEMMA WorkerRows == ASSUME IInv, NEW w \in Workers, WorkerStep(w) PROVE RowsOK'
<1>0. RowsOK
  BY DEF IInv, TypeOK, StateTypeOK, RowsOK, GoodTable
<1>1. CASE \E r \in Runs : Dequeue(w, r)
  BY <1>0, <1>1, SameRows DEF Dequeue
<1>2. CASE Abort(w)
  BY <1>0, <1>2, SkipTyped DEF Abort
<1>3. CASE AbortFinish(w) \/ AbortRelease(w) \/ MarkRunning(w) \/ FirstBeat(w)
  BY <1>0, <1>3, SameRows DEF AbortFinish, AbortRelease, MarkRunning, FirstBeat
<1>4. CASE SweepStale(w)
  BY <1>0, <1>4, FailStaleTyped DEF SweepStale
<1>5. CASE BeginPass(w) \/ PassesExhausted(w) \/ StopCancelled(w) \/ NextWave(w) \/ EndPass(w)
  BY <1>0, <1>5, SameRows, Zenon DEF BeginPass, PassesExhausted, StopCancelled, NextWave, EndPass
<1>6. ASSUME NEW n \in Nodes,
             NumberNode(w, n) \/ NumberTaken(w, n) \/ RowLost(w, n) \/ FindOpen(w, n)
      PROVE  RowsOK'
  BY <1>0, <1>6, SameRows DEF NumberNode, NumberTaken, RowLost, FindOpen
<1>6a. ASSUME NEW n \in Nodes, GateTaken(w, n)
       PROVE  RowsOK'
  <2> DEFINE r == exec[w].run
  <2>1. rows' = [rows EXCEPT ![r][n] = Disown(rows[r][n], w)]
    BY <1>6a DEF GateTaken
  <2>2. r \in Runs => GoodTable(Disown(rows[r][n], w))
    BY <1>0, DisownTyped DEF RowsOK
  <2>3. QED
    BY <1>0, <2>1, <2>2, OneNodeTyped
<1>7. ASSUME NEW n \in Nodes, StartNode(w, n)
      PROVE  RowsOK'
  <2> DEFINE r == exec[w].run
             row == Row("running", w)
  <2>1. Attempt(w, n) \in Nat
    BY DEF IInv, TypeOK, ExecTypeOK, Job, Attempt
  <2>2. row \in RowTable
    BY DEF Row, RowTable, NodeStatus
  <2>3. rows' = [rows EXCEPT ![r][n] = WithRow(rows[r][n], Attempt(w, n), row)]
    BY <1>7 DEF StartNode
  <2>4. r \in Runs => GoodTable(rows[r][n])
    BY <1>0 DEF RowsOK
  <2>5. QED
    BY <1>0, <2>1, <2>2, <2>3, <2>4, NewRowTyped, OneNodeTyped
<1>8. ASSUME NEW n \in Nodes, NEW s \in NodeStatus, NEW p, Checkpoint(w, n, s, p)
      PROVE  RowsOK'
  <2> DEFINE r == exec[w].run
  <2>1. PICK a \in DOMAIN rows[r][n] : rows' = [rows EXCEPT ![r][n][a] = Row(s, NoWorker)]
    BY <1>8 DEF Checkpoint, Held
  <2>2. Row(s, NoWorker) \in RowTable
    BY DEF Row, RowTable
  <2>3. rows' = [rows EXCEPT ![r][n] = [rows[r][n] EXCEPT ![a] = Row(s, NoWorker)]]
    BY <2>1
  <2>4. r \in Runs => GoodTable(rows[r][n])
    BY <1>0 DEF RowsOK
  <2>5. QED
    BY <1>0, <2>1, <2>2, <2>3, <2>4, CheckpointTyped, OneNodeTyped
<1>9. ASSUME NEW n \in Nodes,
             NodeSucceeds(w, n) \/ NodeFails(w, n) \/ OpenGate(w, n) \/ OpenTask(w, n)
      PROVE  RowsOK'
  <2>1. {"succeeded", "failed", "awaiting_approval", "awaiting_human_task"} \subseteq NodeStatus
    BY DEF NodeStatus
  <2>2. QED
    BY <1>8, <1>9, <2>1 DEF NodeSucceeds, NodeFails, OpenGate, OpenTask
<1>10. CASE EndWave(w)
  BY <1>0, <1>10, SkipTyped, Zenon DEF EndWave
<1>11. CASE StopBroken(w) \/ StopOverBudget(w) \/ ParkOnGate(w) \/ ParkOnTask(w) \/ PauseRelease(w)
  BY <1>0, <1>11, SameRows DEF StopBroken, StopOverBudget, ParkOnGate, ParkOnTask, PauseRelease
<1>12. CASE SkipUnreached(w)
  BY <1>0, <1>12, SameRows, SkipTyped DEF SkipUnreached
<1>13. CASE FinishRun(w) \/ ExpireGates(w) \/ FinishRelease(w) \/ ClearCancel(w)
  BY <1>0, <1>13, SameRows DEF FinishRun, ExpireGates, FinishRelease, ClearCancel
<1>14. QED
  BY <1>1, <1>2, <1>3, <1>4, <1>5, <1>6, <1>6a, <1>7, <1>9, <1>10, <1>11, <1>12, <1>13
     DEF WorkerStep

\* The gate's newest attempt follows the verdict, the clearance's the clearing.
LEMMA SetLastRows ==
    ASSUME RowsOK, NEW r, NEW n, NEW s \in NodeStatus,
           rows' = [rows EXCEPT ![r][n] = SetLast(@, s)]
    PROVE  RowsOK'
<1>1. rows' = [rows EXCEPT ![r][n] = SetLast(rows[r][n], s)]
  OBVIOUS
<1>2. r \in Runs /\ n \in Nodes => GoodTable(SetLast(rows[r][n], s))
  BY SetLastTyped DEF RowsOK
<1>3. QED
  BY <1>1, <1>2, OneNodeTyped

LEMMA RequestRows ==
    ASSUME IInv, NEW h \in Handlers,
           ControlStep(h) \/ DecisionStep(h) \/ ControlRequest(h) \/ DecisionRequest(h)
    PROVE  RowsOK'
<1>0. RowsOK /\ {"succeeded", "failed"} \subseteq NodeStatus
  BY DEF IInv, TypeOK, StateTypeOK, RowsOK, GoodTable, NodeStatus
<1>1. CASE LaunchCommit(h) \/ LaunchCommitFails(h) \/ LaunchEnqueue(h) \/ LaunchFails(h)
  BY <1>0, <1>1, SameRows DEF LaunchCommit, LaunchCommitFails, LaunchEnqueue, LaunchFails
<1>2. CASE CancelFlag(h) \/ CancelFinish(h) \/ CloseQuestions(h) \/ ReleaseLock(h)
  BY <1>0, <1>2, SameRows DEF CancelFlag, CancelFinish, CloseQuestions, ReleaseLock
<1>3. CASE CancelSkip(h)
  BY <1>0, <1>3, SkipTyped DEF CancelSkip
<1>4. CASE RetryReset(h)
  BY <1>0, <1>4, ResetTyped DEF RetryReset
<1>5. CASE RetryLock(h) \/ RetryClear(h) \/ Requeue(h) \/ Enqueue(h) \/ EnqueueFails(h)
  BY <1>0, <1>5, SameRows DEF RetryLock, RetryClear, Requeue, Enqueue, EnqueueFails
<1>6. ASSUME NEW verdict \in {"approved", "rejected"}, Decide(h, verdict)
      PROVE  RowsOK'
  <2>1. rows' = [rows EXCEPT ![api[h].run][api[h].node] =
                   SetLast(@, IF verdict = "approved" THEN "succeeded" ELSE "failed")]
    BY <1>6 DEF Decide
  <2>2. QED
    BY <1>0, <2>1, SetLastRows
<1>7. CASE DecideConflict(h) \/ ResumeLock(h) \/ RejectFinish(h)
  BY <1>0, <1>7, SameRows DEF DecideConflict, ResumeLock, RejectFinish
<1>8. CASE RejectSkip(h)
  BY <1>0, <1>8, SkipTyped DEF RejectSkip
<1>9. CASE Clear(h)
  <2>1. \/ rows' = [rows EXCEPT ![api[h].run][api[h].node] = SetLast(@, "succeeded")]
        \/ rows' = rows
    BY <1>9 DEF Clear
  <2>2. QED
    BY <1>0, <2>1, SameRows, SetLastRows
<1>10. CASE ControlRequest(h) \/ DecisionRequest(h)
  BY <1>0, <1>10, SameRows DEF ControlRequest, DecisionRequest, LaunchLock, CancelLoad,
                               RetryLoad, DecideLoad, ClearLoad
<1>11. QED
  BY <1>1, <1>2, <1>3, <1>4, <1>5, <1>6, <1>7, <1>8, <1>9, <1>10
     DEF ControlStep, DecisionStep

LEMMA EveryStepRows == ASSUME IInv, [Next]_vars PROVE RowsOK'
<1>0. RowsOK
  BY DEF IInv, TypeOK, StateTypeOK, RowsOK, GoodTable
<1>1. CASE \E w \in Workers : Work(w)
  BY <1>1, WorkerRows DEF Work
<1>2. CASE \E h \in Handlers : Serve(h)
  BY <1>2, RequestRows DEF Serve
<1>3. CASE (\E r \in Runs : Expiry(r))
  BY <1>0, <1>3, SameRows DEF Expiry, BeatExpires
<1>4. CASE Sweep
  <2>1. CASE ReapLoad
    BY <1>0, <2>1, SameRows, FailStaleTyped DEF ReapLoad
  <2>2. CASE (\E r \in Runs : ListStale(r)) \/ CheckBeat \/ ReapFinish \/ ReapExpire \/ ReapRelease
    BY <1>0, <2>2, SameRows DEF ListStale, CheckBeat, ReapFinish, ReapExpire, ReapRelease
  <2>3. QED
    BY <1>4, <2>1, <2>2 DEF Sweep, ReaperStep
<1>5. CASE Surprise
  <2>1. CASE \E h \in Handlers : ControlRequest(h) \/ DecisionRequest(h)
    BY <2>1, RequestRows
  <2>2. CASE (\E h \in Handlers : ApiCrash(h)) \/ (\E r \in Runs, n \in Nodes : SubmitTask(r, n))
    BY <1>0, <2>2, SameRows DEF ApiCrash, SubmitTask
  <2>3. ASSUME NEW w \in Workers, WorkerCrash(w)
        PROVE  RowsOK'
    <3>1. rows' = [r \in Runs |-> [n \in Nodes |-> Disown(rows[r][n], w)]]
      BY <2>3 DEF WorkerCrash
    <3>2. \A r \in Runs, n \in Nodes : GoodTable(rows'[r][n])
      BY <1>0, <3>1, DisownTyped DEF RowsOK
    <3>3. rows' = [r \in Runs |-> [n \in Nodes |-> rows'[r][n]]]
      BY <3>1
    <3>4. QED
      BY <3>2, <3>3 DEF RowsOK, GoodTable, IsTable, Bounded
  <2>4. CASE LockExpires \/ ReaperCrash
    BY <1>0, <2>4, SameRows DEF LockExpires, ReaperCrash
  <2>5. QED
    BY <1>5, <2>1, <2>2, <2>3, <2>4 DEF Surprise
<1>6. CASE UNCHANGED vars
  BY <1>0, <1>6, SameRows DEF vars
<1>7. QED
  BY <1>1, <1>2, <1>3, <1>4, <1>5, <1>6 DEF Next

-----------------------------------------------------------------------------
(* The other shared variables                                               *)

SharedOK ==
    /\ status \in [Runs -> RunStatus]
    /\ started \in [Runs -> BOOLEAN]
    /\ tasks \in [Runs -> [Nodes -> Seq(TaskStatus)]]
    /\ jobs \in [Runs -> Nat]
    /\ lock \in Runs \cup {NoRun}
    /\ cancel \in [Runs -> BOOLEAN]
    /\ beat \in [Runs -> BOOLEAN]

\* A write to one entry of a table.
LEMMA OneEntry ==
    ASSUME tasks \in [Runs -> [Nodes -> Seq(TaskStatus)]], NEW r, NEW n, NEW seq,
           r \in Runs /\ n \in Nodes => seq \in Seq(TaskStatus),
           tasks' = [tasks EXCEPT ![r][n] = seq]
    PROVE  tasks' \in [Runs -> [Nodes -> Seq(TaskStatus)]]
<1>1. CASE r \notin Runs
  BY <1>1
<1>2. CASE r \in Runs /\ n \notin Nodes
  <2>1. [tasks[r] EXCEPT ![n] = seq] = tasks[r]
    BY <1>2
  <2>2. [tasks EXCEPT ![r] = tasks[r]] = tasks
    OBVIOUS
  <2>3. QED
    BY <2>1, <2>2
<1>3. CASE r \in Runs /\ n \in Nodes
  BY <1>3
<1>4. QED
  BY <1>1, <1>2, <1>3

LEMMA OneMoreJob ==
    ASSUME jobs \in [Runs -> Nat], NEW r, jobs' = [jobs EXCEPT ![r] = @ + 1]
    PROVE  jobs' \in [Runs -> Nat]
<1>1. r \in Runs => jobs[r] + 1 \in Nat
  OBVIOUS
<1>2. CASE r \in Runs
  BY <1>1, <1>2
<1>3. CASE r \notin Runs
  BY <1>3
<1>4. QED
  BY <1>2, <1>3

LEMMA WorkerShared == ASSUME IInv, NEW w \in Workers, WorkerStep(w) PROVE SharedOK'
<1>0. SharedOK /\ ExecTypeOK
  BY DEF IInv, TypeOK, StateTypeOK, SharedOK
<1>t. /\ exec[w].run \in Runs \cup {NoRun}
      /\ exec[w].outcome \in Terminal \cup {"none"}
  BY <1>0 DEF ExecTypeOK, Job
<1> USE <1>0, <1>t DEF SharedOK, RunStatus, Terminal
<1>1. CASE \E r \in Runs : Dequeue(w, r)
  BY <1>1 DEF Dequeue
<1>2. CASE Abort(w) \/ AbortFinish(w) \/ AbortRelease(w)
  BY <1>2 DEF Abort, AbortFinish, AbortRelease, Released
<1>3. CASE SweepStale(w) \/ MarkRunning(w) \/ FirstBeat(w)
  BY <1>3 DEF SweepStale, MarkRunning, FirstBeat
<1>4. CASE BeginPass(w) \/ PassesExhausted(w) \/ StopCancelled(w) \/ NextWave(w) \/ EndPass(w)
  BY <1>4, Zenon DEF BeginPass, PassesExhausted, StopCancelled, NextWave, EndPass
<1>5. ASSUME NEW n \in Nodes,
             \/ NumberNode(w, n) \/ StartNode(w, n) \/ NumberTaken(w, n)
             \/ NodeSucceeds(w, n) \/ NodeFails(w, n) \/ OpenGate(w, n) \/ RowLost(w, n)
             \/ FindOpen(w, n) \/ GateTaken(w, n)
      PROVE  SharedOK'
  BY <1>5 DEF NumberNode, StartNode, NumberTaken, NodeSucceeds, NodeFails, OpenGate, RowLost,
              FindOpen, GateTaken
<1>6. ASSUME NEW n \in Nodes, OpenTask(w, n)
      PROVE  SharedOK'
  <2> DEFINE r == exec[w].run
  <2>1. tasks' = tasks \/ tasks' = [tasks EXCEPT ![r][n] = Append(tasks[r][n], "outstanding")]
    BY <1>6 DEF OpenTask
  <2>2. r \in Runs => Append(tasks[r][n], "outstanding") \in Seq(TaskStatus)
    BY DEF TaskStatus
  <2>3. tasks' \in [Runs -> [Nodes -> Seq(TaskStatus)]]
    <3>1. tasks \in [Runs -> [Nodes -> Seq(TaskStatus)]]
      OBVIOUS
    <3>2. r \in Runs /\ n \in Nodes => Append(tasks[r][n], "outstanding") \in Seq(TaskStatus)
      BY <2>2
    <3>3. QED
      BY <2>1, <3>1, <3>2, OneEntry, Zenon
  <2>4. QED
    BY <1>6, <2>3 DEF OpenTask
<1>7. CASE EndWave(w) \/ StopBroken(w) \/ StopOverBudget(w)
  BY <1>7, Zenon DEF EndWave, StopBroken, StopOverBudget
<1>8. CASE ParkOnGate(w) \/ ParkOnTask(w) \/ PauseRelease(w)
  BY <1>8 DEF ParkOnGate, ParkOnTask, PauseRelease, Released
<1>9. CASE SkipUnreached(w) \/ ExpireGates(w) \/ FinishRelease(w) \/ ClearCancel(w)
  BY <1>9 DEF SkipUnreached, ExpireGates, FinishRelease, ClearCancel, Released
<1>10. CASE FinishRun(w)
  BY <1>10 DEF FinishRun
<1>11. QED
  BY <1>1, <1>2, <1>3, <1>4, <1>5, <1>6, <1>7, <1>8, <1>9, <1>10 DEF WorkerStep

LEMMA ClosedTasks ==
    ASSUME SharedOK, NEW r, NEW n, NEW i, CloseTask(r, n, i)
    PROVE  tasks' \in [Runs -> [Nodes -> Seq(TaskStatus)]]
<1> DEFINE closed == [tasks[r][n] EXCEPT ![i] = "closed"]
<1>1. tasks' = [tasks EXCEPT ![r][n] = closed]
  BY DEF CloseTask
<1>2. r \in Runs /\ n \in Nodes => closed \in Seq(TaskStatus)
  <2>1. ASSUME NEW seq \in Seq(TaskStatus)
        PROVE  [seq EXCEPT ![i] = "closed"] \in Seq(TaskStatus)
    <3>1. "closed" \in TaskStatus /\ Len(seq) \in Nat /\ seq \in [1 .. Len(seq) -> TaskStatus]
      BY DEF TaskStatus
    <3>2. [seq EXCEPT ![i] = "closed"] \in [1 .. Len(seq) -> TaskStatus]
      BY <3>1
    <3>3. QED
      BY <3>1, <3>2
  <2>2. QED
    BY <2>1 DEF SharedOK
<1>3. tasks \in [Runs -> [Nodes -> Seq(TaskStatus)]]
  BY DEF SharedOK
<1> HIDE DEF closed
<1>4. QED
  BY <1>1, <1>2, <1>3, OneEntry

LEMMA RequestShared ==
    ASSUME IInv, NEW h \in Handlers,
           ControlStep(h) \/ DecisionStep(h) \/ ControlRequest(h) \/ DecisionRequest(h)
    PROVE  SharedOK'
<1>0. SharedOK /\ ControlTypeOK
  BY DEF IInv, TypeOK, StateTypeOK, SharedOK
<1>t. api[h].run \in Runs \cup {NoRun}
  BY <1>0 DEF ControlTypeOK, Handler
<1>1. CASE LaunchCommit(h) \/ LaunchCommitFails(h) \/ LaunchFails(h)
  BY <1>0, <1>t, <1>1 DEF LaunchCommit, LaunchCommitFails, LaunchFails, SharedOK, RunStatus,
                          Terminal
<1>2. CASE CancelFlag(h) \/ CancelFinish(h) \/ CancelSkip(h) \/ CloseQuestions(h) \/ ReleaseLock(h)
  BY <1>0, <1>t, <1>2 DEF CancelFlag, CancelFinish, CancelSkip, CloseQuestions, ReleaseLock,
                          Released, SharedOK, RunStatus, Terminal
<1>3. CASE RetryLock(h) \/ RetryReset(h) \/ RetryClear(h)
  BY <1>0, <1>t, <1>3 DEF RetryLock, RetryReset, RetryClear, SharedOK
<1>4. CASE Requeue(h) \/ EnqueueFails(h)
  BY <1>0, <1>t, <1>4 DEF Requeue, EnqueueFails, SharedOK, RunStatus
<1>4a. CASE LaunchEnqueue(h) \/ Enqueue(h)
  BY <1>0, <1>4a, OneMoreJob DEF LaunchEnqueue, Enqueue, SharedOK
<1>5. CASE (\E v \in {"approved", "rejected"} : Decide(h, v)) \/ DecideConflict(h) \/ ResumeLock(h)
  BY <1>0, <1>t, <1>5, Zenon DEF Decide, DecideConflict, ResumeLock, SharedOK
<1>6. CASE RejectSkip(h) \/ RejectFinish(h)
  BY <1>0, <1>t, <1>6 DEF RejectSkip, RejectFinish, SharedOK, RunStatus, Terminal
<1>7. CASE Clear(h)
  <2>1. \/ \E r, n, i : CloseTask(r, n, i)
        \/ tasks' = tasks
    BY <1>7 DEF Clear
  <2>2. tasks' \in [Runs -> [Nodes -> Seq(TaskStatus)]]
    BY <1>0, <2>1, ClosedTasks DEF SharedOK
  <2>3. UNCHANGED <<status, started, jobs, lock, cancel, beat>>
    BY <1>7 DEF Clear
  <2>4. QED
    BY <1>0, <2>2, <2>3 DEF SharedOK
<1>8. CASE ControlRequest(h)
  BY <1>0, <1>8 DEF ControlRequest, LaunchLock, CancelLoad, RetryLoad, SharedOK
<1>9. CASE DecisionRequest(h)
  BY <1>0, <1>9 DEF DecisionRequest, DecideLoad, ClearLoad, SharedOK
<1>10. QED
  BY <1>1, <1>2, <1>3, <1>4, <1>4a, <1>5, <1>6, <1>7, <1>8, <1>9 DEF ControlStep, DecisionStep

LEMMA EveryStepShared == ASSUME IInv, [Next]_vars PROVE SharedOK'
<1>0. SharedOK /\ ReaperTypeOK
  BY DEF IInv, TypeOK, StateTypeOK, SharedOK
<1>1. CASE \E w \in Workers : Work(w)
  BY <1>1, WorkerShared DEF Work
<1>2. CASE \E h \in Handlers : Serve(h)
  BY <1>2, RequestShared DEF Serve
<1>3. CASE \E r \in Runs : Expiry(r)
  BY <1>0, <1>3 DEF Expiry, BeatExpires, SharedOK
<1>4. CASE Sweep
  BY <1>0, <1>4 DEF Sweep, ReaperStep, ListStale, CheckBeat, ReapLoad, ReapFinish, ReapExpire,
                    ReapRelease, Released, ReaperTypeOK, SharedOK, RunStatus, Terminal
<1>5. CASE Surprise
  <2>1. CASE \E h \in Handlers : ControlRequest(h) \/ DecisionRequest(h)
    BY <2>1, RequestShared
  <2>2. CASE \E h \in Handlers : ApiCrash(h)
    BY <1>0, <2>2 DEF ApiCrash, SharedOK
  <2>3. ASSUME NEW r \in Runs, NEW n \in Nodes, SubmitTask(r, n)
        PROVE  SharedOK'
    <3>1. tasks' \in [Runs -> [Nodes -> Seq(TaskStatus)]]
      BY <1>0, <2>3, ClosedTasks DEF SubmitTask
    <3>2. UNCHANGED <<status, started, jobs, lock, cancel, beat>>
      BY <2>3 DEF SubmitTask
    <3>3. QED
      BY <1>0, <3>1, <3>2 DEF SharedOK
  <2>4. CASE (\E w \in Workers : WorkerCrash(w)) \/ LockExpires \/ ReaperCrash
    BY <1>0, <2>4 DEF WorkerCrash, LockExpires, ReaperCrash, SharedOK
  <2>5. QED
    BY <1>5, <2>1, <2>2, <2>3, <2>4 DEF Surprise
<1>6. CASE UNCHANGED vars
  BY <1>0, <1>6 DEF vars, SharedOK
<1>7. QED
  BY <1>1, <1>2, <1>3, <1>4, <1>5, <1>6 DEF Next

-----------------------------------------------------------------------------
(* The workers                                                              *)

JobOK(j) == j \in Job /\ (j.pc # "idle" => j.run \in Runs)
ExecOK == exec = [w \in Workers |-> exec[w]] /\ \A w \in Workers : JobOK(exec[w])

LEMMA IdleTyped == JobOK(Idle) /\ NotInWave \in [Nodes -> Progress]
BY DEF JobOK, Idle, Job, ExecPc, RunStatus, NotInWave, Progress

LEMMA Written ==
    ASSUME ExecOK, NEW w \in Workers, NEW j, JobOK(j), exec' = [exec EXCEPT ![w] = j]
    PROVE  ExecOK'
BY DEF ExecOK

LEMMA Rest ==
    ASSUME ExecOK, NEW w \in Workers, exec' = [exec EXCEPT ![w] = Idle]
    PROVE  ExecOK'
BY IdleTyped, Written

LEMMA Advance ==
    ASSUME ExecOK, NEW w \in Workers, exec[w].pc # "idle", NEW pc \in ExecPc, Go(w, pc)
    PROVE  ExecOK'
<1> DEFINE j == [exec[w] EXCEPT !.pc = pc]
<1>1. JobOK(j)
  BY ZenonT(60) DEF ExecOK, JobOK, Job
<1>2. exec' = [exec EXCEPT ![w] = j]
  BY DEF Go
<1>3. QED
  BY <1>1, <1>2, Written

LEMMA Finishing ==
    ASSUME ExecOK, NEW w \in Workers, exec[w].pc # "idle", NEW outcome \in Terminal,
           GoFinish(w, outcome)
    PROVE  ExecOK'
<1> DEFINE j == [exec[w] EXCEPT !.pc = "ending", !.outcome = outcome, !.at = NotInWave,
                                !.tries = Idle.tries, !.base = Idle.base]
<1>1. JobOK(j)
  <2>1. Idle.tries \in [Nodes -> Nat] /\ Idle.base \in [Nodes -> Nat]
    BY DEF Idle
  <2>2. QED
    BY <2>1, IdleTyped, ZenonT(60) DEF ExecOK, JobOK, Job, ExecPc
<1>2. exec' = [exec EXCEPT ![w] = j]
  BY DEF GoFinish
<1>3. QED
  BY <1>1, <1>2, Written

\* A node of the wave gets on.
LEMMA NodeAdvance ==
    ASSUME ExecOK, NEW w \in Workers, exec[w].pc # "idle", NEW n \in Nodes, NEW p \in Progress,
           exec' = [exec EXCEPT ![w].at[n] = p]
    PROVE  ExecOK'
<1> DEFINE at == [exec[w].at EXCEPT ![n] = p]
           j == [exec[w] EXCEPT !.at = at]
<1>1. at \in [Nodes -> Progress]
  BY DEF ExecOK, JobOK, Job
<1>2. JobOK(j)
  <2> HIDE DEF at
  <2>1. QED
    BY <1>1, ZenonT(60) DEF ExecOK, JobOK, Job
<1>3. exec' = [exec EXCEPT ![w] = j]
  OBVIOUS
<1>4. QED
  BY <1>2, <1>3, Written

LEMMA WorkerExec == ASSUME IInv, NEW w \in Workers, WorkerStep(w) PROVE ExecOK'
<1>0. ExecOK
  BY DEF IInv, TypeOK, ExecTypeOK, Seated, ExecOK, JobOK
<1> DEFINE e == exec[w]
<1>e. JobOK(e)
  BY <1>0 DEF ExecOK
<1>a. \A S : Downstream(S) \in SUBSET Nodes
  BY DEF Downstream, Descendants, Nodes
<1>b. \A s : InStatus(e.run, s) \in SUBSET Nodes
  BY DEF InStatus
<1>1. ASSUME NEW r \in Runs, Dequeue(w, r)
      PROVE  ExecOK'
  <2> DEFINE j == [Idle EXCEPT !.pc = "loaded", !.run = r, !.seen = status[r]]
  <2>1. status[r] \in RunStatus
    BY DEF IInv, TypeOK, StateTypeOK
  <2>2. JobOK(j)
    BY <2>1, IdleTyped DEF JobOK, Job, ExecPc
  <2>3. exec' = exec \/ exec' = [exec EXCEPT ![w] = j]
    BY <1>1 DEF Dequeue
  <2> HIDE DEF j
  <2>4. QED
    BY <1>0, <2>2, <2>3, Written DEF ExecOK
<1>2. CASE \/ Abort(w) \/ AbortFinish(w) \/ SweepStale(w) \/ FirstBeat(w) \/ SkipUnreached(w)
           \/ FinishRun(w) \/ ExpireGates(w) \/ FinishRelease(w)
  BY <1>0, <1>2, Advance DEF Abort, AbortFinish, SweepStale, FirstBeat, SkipUnreached, FinishRun,
                             ExpireGates, FinishRelease, ExecPc
<1>3. CASE AbortRelease(w) \/ PauseRelease(w) \/ ClearCancel(w)
  BY <1>0, <1>3, Rest DEF AbortRelease, PauseRelease, ClearCancel
<1>4. CASE MarkRunning(w)
  <2> DEFINE j == [e EXCEPT !.pc = "marked", !.seen = "none"]
  <2>1. JobOK(j)
    BY <1>e, <1>4 DEF MarkRunning, JobOK, Job, ExecPc, RunStatus
  <2>2. exec' = [exec EXCEPT ![w] = j]
    BY <1>4 DEF MarkRunning
  <2>3. QED
    BY <1>0, <2>1, <2>2, Written
<1>5. CASE BeginPass(w)
  <2> DEFINE open == InStatus(e.run, "awaiting_approval")
             outputs == InStatus(e.run, "succeeded")
             waiting == Downstream(open)
             pass == e.pass + 1
             j == [e EXCEPT !.pc = "between", !.pass = pass, !.wave = 0,
                            !.outputs = outputs, !.halted = open,
                            !.waiting = waiting, !.blocked = {}]
  <2>1. e.pc # "idle" /\ exec' = [exec EXCEPT ![w] = j]
    BY <1>5 DEF BeginPass
  <2>2. /\ open \in SUBSET Nodes /\ outputs \in SUBSET Nodes /\ waiting \in SUBSET Nodes
        /\ pass \in Nat
    BY <1>a, <1>b, <1>e DEF JobOK, Job
  <2>3. JobOK(j)
    <3> HIDE DEF open, outputs, waiting, pass
    <3>1. QED
      BY <1>e, <2>1, <2>2 DEF JobOK, Job, ExecPc
  <2> HIDE DEF j
  <2>4. QED
    BY <1>0, <2>1, <2>3, Written
<1>6. CASE PassesExhausted(w) \/ StopCancelled(w) \/ StopBroken(w) \/ StopOverBudget(w)
  BY <1>0, <1>6, Finishing DEF PassesExhausted, StopCancelled, StopBroken, StopOverBudget,
                               Terminal
<1>7. CASE NextWave(w)
  <2>1. PICK k \in Later(e) :
          exec' = [exec EXCEPT ![w].pc = "wave", ![w].wave = k,
                               ![w].at = [n \in Nodes |->
                                   IF n \in ToRun(e, k) THEN "todo" ELSE "none"]]
    BY <1>7, Zenon DEF NextWave
  <2> DEFINE at == [n \in Nodes |-> IF n \in ToRun(e, k) THEN "todo" ELSE "none"]
             j == [e EXCEPT !.pc = "wave", !.wave = k, !.at = at]
  <2>2. k \in Nat
    BY <1>e DEF Later, JobOK, Job
  <2>3. at \in [Nodes -> Progress]
    BY DEF Progress
  <2>4. e.pc # "idle" /\ exec' = [exec EXCEPT ![w] = j]
    BY <1>7, <2>1 DEF NextWave
  <2>5. JobOK(j)
    <3> HIDE DEF at
    <3>1. QED
      BY <1>e, <2>2, <2>3, <2>4 DEF JobOK, Job, ExecPc
  <2> HIDE DEF j
  <2>6. QED
    BY <1>0, <2>4, <2>5, Written
<1>8. CASE EndPass(w)
  BY <1>0, <1>8, Advance, Finishing DEF EndPass, ExecPc, Terminal
<1>9. ASSUME NEW n \in Nodes, NumberNode(w, n)
      PROVE  ExecOK'
  <2> DEFINE table == rows[e.run][n]
             number == IF DOMAIN table = {} THEN 1 ELSE Newest(table) + 1
             at == [e.at EXCEPT ![n] = "numbered"]
             base == [e.base EXCEPT ![n] = number]
             j == [e EXCEPT !.at = at, !.base = base]
  <2>1. e.pc # "idle" /\ e.run \in Runs
    BY <1>e, <1>9 DEF NumberNode, JobOK
  <2>2. GoodTable(table)
    BY <2>1 DEF IInv, TypeOK, StateTypeOK, GoodTable
  <2>3. number \in Nat
    BY <2>2, NewestIsANumber DEF GoodTable
  <2>4. exec' = [exec EXCEPT ![w].at[n] = "numbered", ![w].base[n] = number]
    BY <1>9 DEF NumberNode
  <2> HIDE DEF number
  <2>5. exec' = [exec EXCEPT ![w] = j]
    BY <2>4
  <2>6. at \in [Nodes -> Progress] /\ base \in [Nodes -> Nat]
    BY <1>e, <2>3 DEF JobOK, Job, Progress
  <2>7. JobOK(j)
    <3> HIDE DEF at, base
    <3>1. QED
      BY <1>e, <2>1, <2>6 DEF JobOK, Job
  <2> HIDE DEF j
  <2>8. QED
    BY <1>0, <2>5, <2>7, Written
<1>10. ASSUME NEW n \in Nodes, StartNode(w, n)
       PROVE  ExecOK'
  <2> DEFINE at == [e.at EXCEPT ![n] = "running"]
             tries == [e.tries EXCEPT ![n] = e.tries[n] + 1]
             j == [e EXCEPT !.at = at, !.tries = tries]
  <2>1. e.pc # "idle" /\ exec' = [exec EXCEPT ![w].at[n] = "running", ![w].tries[n] = @ + 1]
    BY <1>10 DEF StartNode
  <2>2. exec' = [exec EXCEPT ![w] = j]
    BY <2>1
  <2>3. at \in [Nodes -> Progress] /\ tries \in [Nodes -> Nat]
    BY <1>e DEF JobOK, Job, Progress, Underway
  <2>4. JobOK(j)
    <3> HIDE DEF at, tries
    <3>1. QED
      BY <1>e, <2>1, <2>3 DEF JobOK, Job
  <2> HIDE DEF j
  <2>5. QED
    BY <1>0, <2>2, <2>4, Written
<1>11. ASSUME NEW n \in Nodes,
              NumberTaken(w, n) \/ RowLost(w, n) \/ FindOpen(w, n) \/ GateTaken(w, n)
       PROVE  ExecOK'
  <2>1. {"broken", "found", "asking"} \subseteq Progress
    BY DEF Progress, Underway
  <2>2. e.pc # "idle" /\ \E p \in {"broken", "found", "asking"} :
            exec' = [exec EXCEPT ![w].at[n] = p]
    BY <1>11 DEF NumberTaken, RowLost, FindOpen, GateTaken
  <2>3. QED
    BY <1>0, <2>1, <2>2, NodeAdvance, Zenon
<1>12. ASSUME NEW n \in Nodes,
              NodeSucceeds(w, n) \/ NodeFails(w, n) \/ OpenGate(w, n) \/ OpenTask(w, n)
       PROVE  ExecOK'
  <2>1. {"ok", "failed", "backoff", "halted"} \subseteq Progress
    BY DEF Progress
  <2>2. e.pc # "idle" /\ \E p \in {"ok", "failed", "backoff", "halted"} :
            exec' = [exec EXCEPT ![w].at[n] = p]
    BY <1>12, Zenon DEF NodeSucceeds, NodeFails, OpenGate, OpenTask, Checkpoint
  <2>3. QED
    BY <1>0, <2>1, <2>2, NodeAdvance, Zenon
<1>13. CASE EndWave(w)
  <2> DEFINE Ended(p) == {n \in Nodes : e.at[n] = p}
             outputs == e.outputs \cup Ended("ok")
             cut == Downstream(Ended("failed")) \ outputs
  <2>1. PICK next \in {"between", "over_budget"} :
          exec' = [exec EXCEPT ![w].pc = next, ![w].at = NotInWave,
                               ![w].tries = Idle.tries, ![w].base = Idle.base,
                               ![w].outputs = outputs,
                               ![w].halted = @ \cup Ended("halted"),
                               ![w].waiting = @ \cup Downstream(Ended("halted")),
                               ![w].blocked = @ \cup Ended("failed") \cup cut]
    BY <1>13, Zenon DEF EndWave
  <2> DEFINE halted == e.halted \cup Ended("halted")
             waiting == e.waiting \cup Downstream(Ended("halted"))
             blocked == e.blocked \cup Ended("failed") \cup cut
             j == [e EXCEPT !.pc = next, !.at = NotInWave, !.tries = Idle.tries,
                            !.base = Idle.base, !.outputs = outputs, !.halted = halted,
                            !.waiting = waiting, !.blocked = blocked]
  <2>2. exec' = [exec EXCEPT ![w] = j]
    BY <2>1, Zenon
  <2>3. outputs \in SUBSET Nodes /\ halted \in SUBSET Nodes /\ waiting \in SUBSET Nodes
    BY <1>e, <1>a DEF JobOK, Job
  <2>4. blocked \in SUBSET Nodes
    BY <1>e, <1>a DEF JobOK, Job
  <2>5. Idle.tries \in [Nodes -> Nat] /\ Idle.base \in [Nodes -> Nat]
    BY DEF Idle
  <2>6. e.pc # "idle"
    BY <1>13, Zenon DEF EndWave
  <2>7. JobOK(j)
    <3> HIDE DEF outputs, halted, waiting, blocked
    <3>1. QED
      BY <1>e, <2>3, <2>4, <2>5, <2>6, IdleTyped, Zenon DEF JobOK, Job, ExecPc
  <2> HIDE DEF j
  <2>8. QED
    BY <1>0, <2>2, <2>7, Written, Zenon
<1>14. CASE ParkOnGate(w) \/ ParkOnTask(w)
  BY <1>0, <1>14, Advance DEF ParkOnGate, ParkOnTask, ExecPc
<1>15. QED
  BY <1>1, <1>2, <1>3, <1>4, <1>5, <1>6, <1>7, <1>8, <1>9, <1>10, <1>11, <1>12, <1>13, <1>14
     DEF WorkerStep

LEMMA EveryStepExec == ASSUME IInv, [Next]_vars PROVE ExecOK'
<1>0. ExecOK
  BY DEF IInv, TypeOK, ExecTypeOK, Seated, ExecOK, JobOK
<1>1. CASE \E w \in Workers : Work(w)
  BY <1>1, WorkerExec DEF Work
<1>2. CASE (\E h \in Handlers : Serve(h)) \/ (\E r \in Runs : Expiry(r)) \/ Sweep
  BY <1>0, <1>2 DEF Serve, Expiry, BeatExpires, Sweep, ExecOK
<1>3. CASE \E w \in Workers : WorkerCrash(w)
  BY <1>0, <1>3, Rest DEF WorkerCrash
<1>4. CASE Surprise /\ ~\E w \in Workers : WorkerCrash(w)
  BY <1>0, <1>4 DEF Surprise, LockExpires, ReaperCrash, ExecOK
<1>5. CASE UNCHANGED vars
  BY <1>0, <1>5 DEF vars, ExecOK
<1>6. QED
  BY <1>1, <1>2, <1>3, <1>4, <1>5 DEF Next, Surprise

-----------------------------------------------------------------------------
(* The requests and the sweep                                               *)

LEMMA HandlerAdvance ==
    ASSUME ControlTypeOK, NEW h \in Handlers, NEW pc \in ApiPc, To(h, pc) \/ Done(h)
    PROVE  api' \in [Handlers -> Handler]
<1>1. [api[h] EXCEPT !.pc = pc] \in Handler /\ Free \in Handler
  BY DEF ControlTypeOK, Handler, Free, ApiPc, RunStatus
<1>2. api' = [api EXCEPT ![h] = [api[h] EXCEPT !.pc = pc]] \/ api' = [api EXCEPT ![h] = Free]
  BY DEF To, Done
<1>3. QED
  BY <1>1, <1>2 DEF ControlTypeOK

LEMMA RequestHandlers ==
    ASSUME IInv, NEW h \in Handlers,
           ControlStep(h) \/ DecisionStep(h) \/ ControlRequest(h) \/ DecisionRequest(h)
    PROVE  ControlTypeOK'
<1>0. ControlTypeOK
  BY DEF IInv, TypeOK
<1>1. CASE ControlStep(h)
  BY <1>0, <1>1, HandlerAdvance, SMTT(30)
     DEF ControlStep, LaunchCommit, LaunchCommitFails, LaunchEnqueue, LaunchFails, CancelFlag,
         CancelFinish, CancelSkip, CloseQuestions, ReleaseLock, RetryLock, RetryReset, RetryClear,
         Requeue, Enqueue, EnqueueFails, ApiPc, ControlTypeOK
<1>2. CASE DecisionStep(h)
  BY <1>0, <1>2, HandlerAdvance, Zenon
     DEF DecisionStep, Decide, DecideConflict, ResumeLock, RejectSkip, RejectFinish, Clear, ApiPc,
         ControlTypeOK
<1>3. ASSUME NEW r \in Runs, NEW pc \in ApiPc, Load(h, r, pc)
      PROVE  api' \in [Handlers -> Handler]
  <2>1. [Free EXCEPT !.pc = pc, !.run = r, !.seen = status[r]] \in Handler
    BY DEF IInv, TypeOK, StateTypeOK, Handler, Free, ApiPc, RunStatus
  <2>2. QED
    BY <1>0, <1>3, <2>1 DEF Load, ControlTypeOK
<1>4. ASSUME NEW r \in Runs, LaunchLock(h, r) \/ CancelLoad(h, r)
      PROVE  ControlTypeOK'
  BY <1>0, <1>3, <1>4 DEF LaunchLock, CancelLoad, ApiPc, ControlTypeOK
<1>5. ASSUME NEW r \in Runs, RetryLoad(h, r)
      PROVE  ControlTypeOK'
  <2>1. api' \in [Handlers -> Handler]
    BY <1>3, <1>5 DEF RetryLoad, ApiPc
  <2>2. retries' = [retries EXCEPT ![r] = retries[r] + 1]
    BY <1>5 DEF RetryLoad
  <2>3. QED
    BY <1>0, <2>1, <2>2 DEF ControlTypeOK
<1>6. ASSUME NEW r \in Runs, NEW n \in Nodes, DecideLoad(h, r, n) \/ ClearLoad(h, r, n)
      PROVE  ControlTypeOK'
  <2>1. Len(asks[r][n]) \in Nat /\ status[r] \in RunStatus
    BY DEF IInv, TypeOK, StateTypeOK
  <2>2. \A pc \in {"decide", "clear"}, ask \in Nat :
            [pc |-> pc, run |-> r, seen |-> status[r], node |-> n, ask |-> ask] \in Handler
    BY <2>1 DEF Handler, ApiPc
  <2>3. QED
    BY <1>0, <1>6, <2>1, <2>2 DEF DecideLoad, ClearLoad, ControlTypeOK
<1>7. QED
  BY <1>1, <1>2, <1>4, <1>5, <1>6 DEF ControlRequest, DecisionRequest

LEMMA EveryStepRequests == ASSUME IInv, [Next]_vars PROVE ControlTypeOK' /\ ReaperTypeOK'
<1>0. ControlTypeOK /\ ReaperTypeOK
  BY DEF IInv, TypeOK
<1>1. CASE \E h \in Handlers : Serve(h)
  BY <1>0, <1>1, RequestHandlers DEF Serve, ReaperTypeOK
<1>2. CASE (\E w \in Workers : Work(w)) \/ (\E r \in Runs : Expiry(r)) \/ UNCHANGED vars
  BY <1>0, <1>2 DEF Work, Expiry, vars, ControlTypeOK, ReaperTypeOK
<1>3. CASE Sweep
  BY <1>0, <1>3 DEF Sweep, ReaperStep, ListStale, CheckBeat, ReapLoad, ReapFinish, ReapExpire,
                    ReapRelease, Reap, Resting, ControlTypeOK, ReaperTypeOK
<1>4. CASE Surprise
  <2>1. ASSUME NEW h \in Handlers, ControlRequest(h) \/ DecisionRequest(h), UNCHANGED reaper
        PROVE  ControlTypeOK' /\ ReaperTypeOK'
    BY <1>0, <2>1, RequestHandlers DEF ReaperTypeOK
  <2>2. ASSUME NEW h \in Handlers, ApiCrash(h), UNCHANGED reaper
        PROVE  ControlTypeOK' /\ ReaperTypeOK'
    BY <1>0, <2>2, HandlerAdvance DEF ApiCrash, ApiPc, ControlTypeOK, ReaperTypeOK
  <2>3. ASSUME NEW r \in Runs, NEW n \in Nodes, SubmitTask(r, n), UNCHANGED reaper
        PROVE  ControlTypeOK' /\ ReaperTypeOK'
    BY <1>0, <2>3 DEF SubmitTask, ControlTypeOK, ReaperTypeOK
  <2>4. CASE UNCHANGED <<api, retries, reaper>>
    BY <1>0, <2>4 DEF ControlTypeOK, ReaperTypeOK
  <2>5. CASE ReaperCrash /\ UNCHANGED <<api, retries>>
    BY <1>0, <2>5 DEF ReaperCrash, Resting, ControlTypeOK, ReaperTypeOK
  <2>6. QED
    BY <1>4, <2>1, <2>2, <2>3, <2>4, <2>5 DEF Surprise
<1>5. QED
  BY <1>1, <1>2, <1>3, <1>4 DEF Next

-----------------------------------------------------------------------------
(* Together                                                                 *)

LEMMA InitTyped == ASSUME Init PROVE IInv
<1>1. StateTypeOK /\ \A r \in Runs, n \in Nodes : Bounded(rows[r][n])
  <2>1. IsTable(NoRows) /\ Bounded(NoRows)
    BY DEF NoRows, IsTable, Bounded
  <2>2. rows = [r \in Runs |-> [n \in Nodes |-> NoRows]]
    BY DEF Init, StateInit
  <2>3. rows = [r \in Runs |-> [n \in Nodes |-> rows[r][n]]]
    BY <2>2
  <2>4. \A r \in Runs, n \in Nodes : IsTable(rows[r][n]) /\ Bounded(rows[r][n])
    BY <2>1, <2>2
  <2>5. asks \in [Runs -> [Nodes -> Seq(AskStatus)]] /\ tasks \in [Runs -> [Nodes -> Seq(TaskStatus)]]
    BY DEF Init, StateInit
  <2>6. QED
    BY <2>3, <2>4, <2>5 DEF Init, StateInit, StateTypeOK, RunStatus
<1>2. ExecTypeOK /\ Seated
  BY IdleTyped DEF Init, ExecInit, ExecTypeOK, Seated, JobOK, Idle
<1>3. ControlTypeOK /\ ReaperTypeOK
  BY DEF Init, ControlInit, ReaperInit, ControlTypeOK, ReaperTypeOK, Free, Handler, ApiPc,
         RunStatus, Resting
<1>4. QED
  BY <1>1, <1>2, <1>3 DEF IInv, TypeOK

LEMMA StepTyped == ASSUME IInv, [Next]_vars PROVE IInv'
<1>1. RowsOK'
  BY EveryStepRows
<1>2. SharedOK'
  BY EveryStepShared
<1>3. asks' \in [Runs -> [Nodes -> Seq(AskStatus)]]
  BY EveryStepAsks, GateSteps DEF IInv, TypeOK, StateTypeOK, AskTypes
<1>4. StateTypeOK' /\ \A r \in Runs, n \in Nodes : Bounded(rows[r][n])'
  BY <1>1, <1>2, <1>3 DEF RowsOK, GoodTable, SharedOK, StateTypeOK
<1>5. ExecTypeOK' /\ Seated'
  BY EveryStepExec DEF ExecOK, JobOK, ExecTypeOK, Seated
<1>6. ControlTypeOK' /\ ReaperTypeOK'
  BY EveryStepRequests
<1>7. QED
  BY <1>4, <1>5, <1>6 DEF IInv, TypeOK

\* Every variable keeps its type, through every interleaving of executors,
\* requests, sweeps, crashes and expiries (TypeOK, over all the actions of
\* orchestrator/executor.py, api/ and scheduling/reaper.py that are modelled).
THEOREM TypesKept == Spec => []TypeOK
<1>1. Init => IInv
  BY InitTyped
<1>2. IInv /\ [Next]_vars => IInv'
  BY StepTyped
<1>3. IInv => TypeOK
  BY DEF IInv
<1>4. QED
  BY <1>1, <1>2, <1>3, PTL DEF Spec

-----------------------------------------------------------------------------
(* How a worker moves                                                       *)

\* Worker w takes a step inside its run: it stays there, and touches neither
\* the queue nor the lock nor the status of another run.
Inside(w) ==
    /\ exec[w].pc \notin {"idle", "released"}
    /\ exec'[w].pc \notin {"idle", "released"}
    /\ exec'[w].run = exec[w].run
    /\ jobs' = jobs
    /\ lock' = lock
    /\ \A r \in Runs \ {exec[w].run} : status'[r] = status[r]
    /\ \A r \in Runs : status'[r] = "queued" => status[r] = "queued"

\* What the other workers do is their own.
Alone(w) == \A v \in Workers \ {w} : exec'[v] = exec[v]

\* A worker takes a job, leaves its run, or takes a step inside it.
LEMMA WorkerMoves ==
    ASSUME IInv, NEW w \in Workers, WorkerStep(w)
    PROVE  /\ Alone(w)
           /\ \/ \E r \in Runs : Dequeue(w, r)
              \/ AbortRelease(w) \/ PauseRelease(w) \/ FinishRelease(w) \/ ClearCancel(w)
              \/ Inside(w)
<1>t. exec \in [Workers -> Job] /\ status \in [Runs -> RunStatus]
  BY DEF IInv, TypeOK, ExecTypeOK, StateTypeOK
<1> USE <1>t DEF Alone, Inside, Go, GoFinish, Job
<1>1. CASE \E r \in Runs : Dequeue(w, r)
  <2>1. Alone(w)
    BY <1>1 DEF Dequeue
  <2>2. QED
    BY <1>1, <2>1
<1>2. CASE AbortRelease(w) \/ PauseRelease(w) \/ FinishRelease(w) \/ ClearCancel(w)
  <2>1. Alone(w)
    BY <1>2 DEF AbortRelease, PauseRelease, FinishRelease, ClearCancel
  <2>2. QED
    BY <1>2, <2>1
<1>3. CASE Abort(w)
  BY <1>3 DEF Abort
<1>4. CASE AbortFinish(w)
  BY <1>4 DEF AbortFinish
<1>5. CASE SweepStale(w)
  BY <1>5 DEF SweepStale
<1>6. CASE MarkRunning(w)
  BY <1>6 DEF MarkRunning
<1>7. CASE FirstBeat(w)
  BY <1>7 DEF FirstBeat
<1>8. CASE BeginPass(w)
  BY <1>8 DEF BeginPass
<1>9. CASE PassesExhausted(w) \/ StopCancelled(w)
  BY <1>9 DEF PassesExhausted, StopCancelled
<1>10. CASE NextWave(w)
  BY <1>10 DEF NextWave
<1>11. CASE EndPass(w)
  BY <1>11 DEF EndPass
<1>12. ASSUME NEW n \in Nodes, NumberNode(w, n) \/ StartNode(w, n) \/ NumberTaken(w, n)
       PROVE  Alone(w) /\ Inside(w)
  BY <1>12 DEF NumberNode, StartNode, NumberTaken
<1>13. ASSUME NEW n \in Nodes,
              \/ NodeSucceeds(w, n) \/ NodeFails(w, n) \/ RowLost(w, n)
              \/ FindOpen(w, n) \/ GateTaken(w, n)
       PROVE  Alone(w) /\ Inside(w)
  BY <1>13 DEF NodeSucceeds, NodeFails, Checkpoint, RowLost, FindOpen, GateTaken
<1>14. ASSUME NEW n \in Nodes, OpenGate(w, n) \/ OpenTask(w, n)
       PROVE  Alone(w) /\ Inside(w)
  BY <1>14 DEF OpenGate, OpenTask, Checkpoint
<1>15. CASE EndWave(w)
  <2> DEFINE e == exec[w]
             Ended(p) == {n \in Nodes : e.at[n] = p}
             outputs == e.outputs \cup Ended("ok")
             cut == Downstream(Ended("failed")) \ outputs
  <2>1. PICK next \in {"between", "over_budget"} :
          exec' = [exec EXCEPT ![w].pc = next, ![w].at = NotInWave,
                               ![w].tries = Idle.tries, ![w].base = Idle.base,
                               ![w].outputs = outputs,
                               ![w].halted = @ \cup Ended("halted"),
                               ![w].waiting = @ \cup Downstream(Ended("halted")),
                               ![w].blocked = @ \cup Ended("failed") \cup cut]
    BY <1>15, Zenon DEF EndWave
  <2>2. exec[w].pc = "wave" /\ UNCHANGED <<status, jobs, lock>>
    BY <1>15, Zenon DEF EndWave
  <2> HIDE DEF e, Ended, outputs, cut
  <2>3. exec'[w].pc = next /\ exec'[w].run = exec[w].run /\ Alone(w)
    BY <2>1
  <2>4. QED
    BY <2>2, <2>3
<1>16. CASE StopBroken(w) \/ StopOverBudget(w)
  BY <1>16 DEF StopBroken, StopOverBudget
<1>17. CASE ParkOnGate(w) \/ ParkOnTask(w)
  BY <1>17 DEF ParkOnGate, ParkOnTask
<1>18. CASE SkipUnreached(w) \/ ExpireGates(w)
  BY <1>18 DEF SkipUnreached, ExpireGates
<1>19. CASE FinishRun(w)
  <2>1. exec[w].outcome # "queued"
    BY DEF Job, Terminal
  <2>2. QED
    BY <1>19, <2>1 DEF FinishRun
<1>20. QED
  BY <1>1, <1>2, <1>3, <1>4, <1>5, <1>6, <1>7, <1>8, <1>9, <1>10, <1>11, <1>12, <1>13,
     <1>14, <1>15, <1>16, <1>17, <1>18, <1>19 DEF WorkerStep

\* Worker w is inside run r and has not given its lock back.
Occupies(w, r) == exec[w].run = r /\ exec[w].pc \notin {"idle", "released"}

-----------------------------------------------------------------------------
(* The rows of one node                                                     *)

\* The status of the newest attempt in a table of rows.
StatusOf(table) == IF DOMAIN table = {} THEN "absent" ELSE table[Newest(table)].status

\* Somebody attempted the node: a row says more than that it was skipped.
Tried(table) == \E a \in DOMAIN table : table[a].status # "skipped"

\* The newest attempt has the greatest number.
LEMMA NewestIsGreatest ==
    ASSUME NEW table, GoodTable(table), DOMAIN table # {}
    PROVE  /\ Newest(table) \in DOMAIN table /\ Newest(table) \in Nat
           /\ \A a \in DOMAIN table : a <= Newest(table)
<1>1. DOMAIN table \subseteq Nat
  BY DEF GoodTable, IsTable
<1>2. PICK b \in Nat : \A a \in DOMAIN table : a <= b
  BY DEF GoodTable, Bounded
<1> DEFINE U == {b - a : a \in DOMAIN table}
<1>3. U \subseteq Nat /\ U # {}
  <2>1. \A a \in DOMAIN table : b - a \in Nat
    BY <1>1, <1>2
  <2>2. QED
    BY <2>1
<1>4. PICK u \in U : \A v \in U : u <= v
  <2> HIDE DEF U
  <2>1. QED
    BY <1>3, LeastNumber
<1>5. PICK x \in DOMAIN table : u = b - x
  OBVIOUS
<1>6. \A a \in DOMAIN table : x >= a
  BY <1>1, <1>4, <1>5
<1>7. /\ Newest(table) \in DOMAIN table
      /\ \A a \in DOMAIN table : Newest(table) >= a
  BY <1>6 DEF Newest, Max
<1>8. QED
  BY <1>1, <1>7

\* Whatever has the greatest number is the newest attempt.
LEMMA GreatestIsNewest ==
    ASSUME NEW table, GoodTable(table), NEW a \in DOMAIN table,
           \A b \in DOMAIN table : b <= a
    PROVE  Newest(table) = a /\ StatusOf(table) = table[a].status
<1>1. Newest(table) \in DOMAIN table /\ a <= Newest(table)
  BY NewestIsGreatest
<1>2. Newest(table) = a
  BY <1>1 DEF GoodTable, IsTable
<1>3. QED
  BY <1>2 DEF StatusOf

\* What housekeeping does to the rows of a node: no success and no proposal is
\* lost, nothing is attempted, and no row changes hands.
Tidy(old, new) ==
    /\ \A s \in {"succeeded", "awaiting_approval"} : StatusOf(old) = s => StatusOf(new) = s
    /\ Tried(new) => Tried(old)
    /\ \A a \in DOMAIN new : a \in DOMAIN old \/ (DOMAIN old = {} /\ a = 1)
    /\ \A a \in DOMAIN new : new[a].status \notin {"failed", "skipped"} =>
          a \in DOMAIN old /\ old[a].status = new[a].status
    /\ \A a \in DOMAIN new : new[a].by # NoWorker =>
          a \in DOMAIN old /\ old[a].by = new[a].by
    /\ \A a \in DOMAIN old : old[a].status = "awaiting_approval" =>
          a \in DOMAIN new /\ new[a].status = "awaiting_approval"

\* Rows that do not change.
LEMMA SameIsTidy == ASSUME NEW table PROVE Tidy(table, table)
BY DEF Tidy

\* record_skipped writes a new row and never under a row that counts.
LEMMA SkipIsTidy == ASSUME NEW table, GoodTable(table) PROVE Tidy(table, SkipOne(table))
<1>1. CASE DOMAIN table = {}
  <2> DEFINE new == WithRow(table, 1, Row("skipped", NoWorker))
  <2>1. SkipOne(table) = new
    BY <1>1 DEF SkipOne
  <2>2. DOMAIN new = {1} /\ new[1] = [status |-> "skipped", by |-> NoWorker]
    BY <1>1 DEF WithRow, Row
  <2> HIDE DEF new
  <2>3. \A a \in DOMAIN new : new[a].status = "skipped" /\ new[a].by = NoWorker
    BY <2>2
  <2>4. QED
    BY <1>1, <2>1, <2>2, <2>3 DEF Tidy, StatusOf, Tried
<1>2. CASE DOMAIN table # {} /\ table[Newest(table)].status = "running"
  <2> DEFINE new == [table EXCEPT ![Newest(table)].status = "skipped"]
  <2>1. SkipOne(table) = new
    BY <1>2 DEF SkipOne, SetLast
  <2>2. Newest(table) \in DOMAIN table
    BY <1>2, NewestIsGreatest
  <2>3. \A a \in DOMAIN table : table[a] \in RowTable
    BY DEF GoodTable, IsTable
  <2>4. /\ DOMAIN new = DOMAIN table
        /\ \A a \in DOMAIN table :
                /\ new[a].by = table[a].by
                /\ a # Newest(table) => new[a] = table[a]
        /\ new[Newest(table)].status = "skipped"
    BY <2>2, <2>3 DEF RowTable
  <2> HIDE DEF new
  <2>5. StatusOf(table) = "running"
    BY <1>2 DEF StatusOf
  <2>6. \A a \in DOMAIN table :
          /\ new[a].status # "skipped" => table[a].status = new[a].status
          /\ new[a].status # "skipped" => table[a].status # "skipped"
          /\ table[a].status = "awaiting_approval" => new[a].status = "awaiting_approval"
    BY <1>2, <2>4
  <2>7. Tidy(table, new)
    BY <2>4, <2>5, <2>6 DEF Tidy, Tried
  <2>8. QED
    BY <2>1, <2>7
<1>3. CASE DOMAIN table # {} /\ table[Newest(table)].status # "running"
  BY <1>3, SameIsTidy DEF SkipOne
<1>4. QED
  BY <1>1, <1>2, <1>3

\* fail_stale_running ends rows that are running and no others.
LEMMA FailStaleIsTidy ==
    ASSUME NEW table, GoodTable(table)
    PROVE  Tidy(table, Move(table, "running", "failed"))
<1> DEFINE new == Move(table, "running", "failed")
<1>1. \A a \in DOMAIN table : table[a] \in RowTable
  BY DEF GoodTable, IsTable
<1>2. /\ DOMAIN new = DOMAIN table
      /\ \A a \in DOMAIN table :
              /\ new[a].by = table[a].by
              /\ table[a].status = "running" => new[a].status = "failed"
              /\ table[a].status # "running" => new[a] = table[a]
  BY <1>1 DEF Move, RowTable
<1>3. DOMAIN table # {} => Newest(table) \in DOMAIN table
  BY NewestIsGreatest
<1>4. Newest(new) = Newest(table)
  BY <1>2 DEF Newest
<1> HIDE DEF new
<1>5. \A s \in {"succeeded", "awaiting_approval"} : StatusOf(table) = s => StatusOf(new) = s
  BY <1>2, <1>3, <1>4 DEF StatusOf
<1>6. \A a \in DOMAIN table :
        /\ new[a].status \notin {"failed", "skipped"} => table[a].status = new[a].status
        /\ new[a].status # "skipped" => table[a].status # "skipped"
        /\ table[a].status = "awaiting_approval" => new[a].status = "awaiting_approval"
  BY <1>2
<1>7. Tidy(table, new)
  BY <1>2, <1>5, <1>6, Zenon DEF Tidy, Tried
<1>8. QED
  BY <1>7 DEF new

\* A worker that leaves its rows changes no status.
LEMMA DisownIsTidy ==
    ASSUME NEW table, GoodTable(table), NEW w
    PROVE  /\ Tidy(table, Disown(table, w))
           /\ w # NoWorker => \A a \in DOMAIN Disown(table, w) : Disown(table, w)[a].by # w
<1> DEFINE new == Disown(table, w)
<1>1. \A a \in DOMAIN table : table[a] \in RowTable
  BY DEF GoodTable, IsTable
<1>2. /\ DOMAIN new = DOMAIN table
      /\ \A a \in DOMAIN table :
              /\ new[a].status = table[a].status
              /\ table[a].by = w => new[a].by = NoWorker
              /\ table[a].by # w => new[a] = table[a]
  BY <1>1 DEF Disown, RowTable
<1>3. DOMAIN table # {} => Newest(table) \in DOMAIN table
  BY NewestIsGreatest
<1>4. Newest(new) = Newest(table)
  BY <1>2 DEF Newest
<1> HIDE DEF new
<1>5. Tidy(table, new)
  <2>1. StatusOf(new) = StatusOf(table)
    BY <1>2, <1>3, <1>4 DEF StatusOf
  <2>2. \A a \in DOMAIN table : new[a].by # NoWorker => new[a].by = table[a].by
    BY <1>2, Zenon
  <2>3. QED
    BY <1>2, <2>1, <2>2, Zenon DEF Tidy, Tried
<1>6. w # NoWorker => \A a \in DOMAIN new : new[a].by # w
  BY <1>2, Zenon
<1>7. QED
  BY <1>5, <1>6 DEF new

\* reset_failed removes rows that failed or were skipped.
LEMMA ResetIsTidy ==
    ASSUME NEW table, GoodTable(table)
    PROVE  Tidy(table, Restrict(table, {a \in DOMAIN table : ~Retryable(table[a])}))
<1> DEFINE kept == {a \in DOMAIN table : ~Retryable(table[a])}
           new == Restrict(table, kept)
<1>1. DOMAIN new = kept /\ \A a \in kept : new[a] = table[a]
  BY DEF Restrict
<1>2. GoodTable(new)
  <2>1. DOMAIN new \subseteq DOMAIN table /\ \A a \in DOMAIN new : new[a] = table[a]
    BY <1>1
  <2>2. new = [a \in DOMAIN new |-> new[a]]
    BY DEF Restrict
  <2> HIDE DEF new, kept
  <2>3. QED
    BY <2>1, <2>2 DEF GoodTable, IsTable, Bounded
<1>3. ASSUME NEW s \in {"succeeded", "awaiting_approval"}, StatusOf(table) = s
      PROVE  StatusOf(new) = s
  <2>1. DOMAIN table # {} /\ table[Newest(table)].status = s
    BY <1>3 DEF StatusOf
  <2>2. Newest(table) \in kept /\ \A a \in kept : a <= Newest(table)
    BY <2>1, NewestIsGreatest DEF Retryable
  <2> HIDE DEF new, kept
  <2>3. QED
    BY <1>1, <1>2, <2>1, <2>2, GreatestIsNewest
<1>4. /\ kept \subseteq DOMAIN table
      /\ \A a \in DOMAIN table : table[a].status = "awaiting_approval" => a \in kept
  BY DEF Retryable
<1> HIDE DEF new, kept
<1>5. Tidy(table, new)
  BY <1>1, <1>3, <1>4 DEF Tidy, Tried
<1>6. QED
  BY <1>5 DEF new, kept

-----------------------------------------------------------------------------
(* The order of the waves                                                   *)

InWaves(e) == e.pc \in {"between", "wave"}

\* A worker in the wave loop has left nothing to do in the waves behind it, has
\* the nodes of its wave in progress, and its three sets hold back everything
\* downstream of what waits or is blocked.
InOrder(e) ==
    /\ \A n \in Nodes : e.at[n] # "none" <=> e.pc = "wave" /\ n \in ToRun(e, e.wave)
    /\ InWaves(e) =>
        /\ e.wave \in Nat
        /\ e.pc = "wave" => e.wave \in 1 .. Cardinality(Nodes)
        /\ \A j \in 1 .. e.wave : e.pc = "between" \/ j < e.wave => ToRun(e, j) = {}
        /\ \A m \in e.halted \cup e.waiting : Dependents(Deps, m) \subseteq e.waiting
        /\ e.halted = {} => e.waiting = {}
        /\ \A m \in e.blocked : Dependents(Deps, m) \subseteq e.blocked \cup e.outputs

\* What one worker does to one node of its wave.
NodeStep(w, n) ==
    \/ NumberNode(w, n) \/ StartNode(w, n) \/ NumberTaken(w, n) \/ RowLost(w, n)
    \/ FindOpen(w, n) \/ GateTaken(w, n)
    \/ NodeSucceeds(w, n) \/ NodeFails(w, n) \/ OpenGate(w, n) \/ OpenTask(w, n)

\* Where a worker is that has decided how its run ends.
AfterWaves == {"ending", "finishing", "finished", "expired", "released"}

\* A worker that is not in the wave loop after its step, and holds no row before
\* it, has the outcome it had, or has decided on one that is no success but for
\* the backstop of the gate passes.
Leaves(e, f) ==
    /\ ~InWaves(f)
    /\ f.at = NotInWave \/ (e.pc # "wave" /\ f.at = e.at)
    /\ e.pc = "wave" => \A n \in Nodes : e.at[n] \notin Underway
    /\ \/ f.outcome = e.outcome /\ f.run = e.run /\ f.pass = e.pass
          /\ (e.pc \in AfterWaves => f.pc \in AfterWaves)
       \/ f.outcome = "none"
       \/ f.pc \in AfterWaves /\ (f.outcome # "succeeded" \/ f.pass = MaxGatePasses)

\* Every other step of a worker leads out of the wave loop, or stays out of it.
LEMMA StepKinds ==
    ASSUME IInv, NEW w \in Workers, WorkerStep(w)
    PROVE  \/ Leaves(exec[w], exec'[w])
           \/ BeginPass(w) \/ NextWave(w) \/ EndWave(w) \/ EndPass(w)
           \/ \E n \in Nodes : NodeStep(w, n)
           \/ (\E r \in Runs : Dequeue(w, r)) /\ UNCHANGED exec
<1>t. exec \in [Workers -> Job]
  BY DEF IInv, TypeOK, ExecTypeOK
<1>i. InWaves(Idle) = FALSE /\ Idle.at = NotInWave /\ Idle.outcome = "none"
  BY DEF Idle, InWaves
<1> USE <1>t DEF Go, GoFinish, Job, InWaves, Leaves, AfterWaves
<1>1. CASE \E r \in Runs : Dequeue(w, r)
  <2>1. PICK r \in Runs : Dequeue(w, r)
    BY <1>1
  <2>2. CASE UNCHANGED exec
    BY <1>1, <2>2
  <2>3. CASE exec' = [exec EXCEPT ![w] = [Idle EXCEPT !.pc = "loaded", !.run = r, !.seen = status[r]]]
    <3>1. exec[w].pc = "idle"
      BY <2>1 DEF Dequeue
    <3>2. exec'[w].pc = "loaded" /\ exec'[w].at = NotInWave /\ exec'[w].outcome = "none"
      BY <2>3 DEF Idle
    <3>3. QED
      BY <3>1, <3>2
  <2>4. QED
    BY <2>1, <2>2, <2>3, Zenon DEF Dequeue
<1>2. CASE AbortRelease(w) \/ PauseRelease(w) \/ ClearCancel(w)
  <2>1. exec'[w] = Idle /\ exec[w].pc # "wave"
    BY <1>2 DEF AbortRelease, PauseRelease, ClearCancel
  <2>2. QED
    BY <1>i, <2>1
<1>3. CASE Abort(w) \/ AbortFinish(w) \/ SweepStale(w) \/ MarkRunning(w) \/ FirstBeat(w)
  BY <1>3 DEF Abort, AbortFinish, SweepStale, MarkRunning, FirstBeat
<1>4. CASE PassesExhausted(w) \/ StopCancelled(w)
  BY <1>4 DEF PassesExhausted, StopCancelled
<1>5. CASE StopBroken(w) \/ StopOverBudget(w) \/ ParkOnGate(w) \/ ParkOnTask(w)
  <2>1. CASE StopBroken(w)
    <3>1. \A n \in Nodes : exec[w].at[n] \notin Underway
      BY <2>1 DEF StopBroken, Underway
    <3>2. /\ exec'[w].pc = "ending" /\ exec'[w].outcome = "failed" /\ exec'[w].at = NotInWave
      BY <2>1 DEF StopBroken
    <3>3. QED
      BY <3>1, <3>2
  <2>2. QED
    BY <1>5, <2>1 DEF StopOverBudget, ParkOnGate, ParkOnTask
<1>6. CASE SkipUnreached(w) \/ FinishRun(w) \/ ExpireGates(w) \/ FinishRelease(w)
  BY <1>6 DEF SkipUnreached, FinishRun, ExpireGates, FinishRelease
<1> HIDE DEF Leaves, InWaves, Go, GoFinish, Job, AfterWaves
<1>7. \/ \E r \in Runs : Dequeue(w, r)
      \/ AbortRelease(w) \/ PauseRelease(w) \/ ClearCancel(w)
      \/ Abort(w) \/ AbortFinish(w) \/ SweepStale(w) \/ MarkRunning(w) \/ FirstBeat(w)
      \/ PassesExhausted(w) \/ StopCancelled(w)
      \/ StopBroken(w) \/ StopOverBudget(w) \/ ParkOnGate(w) \/ ParkOnTask(w)
      \/ SkipUnreached(w) \/ FinishRun(w) \/ ExpireGates(w) \/ FinishRelease(w)
      \/ BeginPass(w) \/ NextWave(w) \/ EndWave(w) \/ EndPass(w)
      \/ \E n \in Nodes : NodeStep(w, n)
  BY DEF WorkerStep, NodeStep
<1>8. QED
  BY <1>1, <1>2, <1>3, <1>4, <1>5, <1>6, <1>7

\* What is downstream of one of S, or of something downstream of one of S.
LEMMA DownstreamOf ==
    ASSUME NEW S
    PROVE  /\ \A n \in S : Dependents(Deps, n) \subseteq Downstream(S)
           /\ \A m \in Downstream(S) : Dependents(Deps, m) \subseteq Downstream(S)
<1>1. \A n \in S : Dependents(Deps, n) \subseteq Downstream(S)
  BY DownstreamCloses DEF Downstream
<1>2. ASSUME NEW m \in Downstream(S) PROVE Dependents(Deps, m) \subseteq Downstream(S)
  <2>1. PICK n \in S : m \in Descendants(Deps, n)
    BY DEF Downstream
  <2>2. QED
    BY <2>1, DownstreamCloses DEF Downstream
<1>3. QED
  BY <1>1, <1>2

\* The two ways a step changes where the nodes of a wave are.
AtOne(e, f, n) ==
    /\ e.at[n] # "none" /\ f.at[n] # "none"
    /\ \A m \in Nodes \ {n} : f.at[m] = e.at[m]
    /\ f.pc = "wave" /\ e.pc = "wave" /\ f.wave = e.wave /\ f.run = e.run
    /\ f.outputs = e.outputs /\ f.halted = e.halted /\ f.waiting = e.waiting /\ f.blocked = e.blocked
    /\ f.pass = e.pass /\ f.outcome = e.outcome

\* A node of a wave leaves its stage and moves no other.
LEMMA NodeMoves ==
    ASSUME IInv, NEW w \in Workers, NEW n \in Nodes, NodeStep(w, n)
    PROVE  AtOne(exec[w], exec'[w], n)
<1>t. exec \in [Workers -> Job]
  BY DEF IInv, TypeOK, ExecTypeOK
<1> USE <1>t DEF Job, AtOne
<1>1. CASE NumberNode(w, n)
  BY <1>1 DEF NumberNode
<1>2. CASE StartNode(w, n)
  BY <1>2 DEF StartNode
<1>3. CASE NumberTaken(w, n) \/ RowLost(w, n) \/ FindOpen(w, n) \/ GateTaken(w, n)
  BY <1>3 DEF NumberTaken, RowLost, FindOpen, GateTaken, Underway
<1>4. CASE NodeSucceeds(w, n) \/ NodeFails(w, n)
  BY <1>4 DEF NodeSucceeds, NodeFails, Checkpoint
<1>5. CASE OpenGate(w, n) \/ OpenTask(w, n)
  BY <1>5 DEF OpenGate, OpenTask, Checkpoint, Underway
<1>6. QED
  BY <1>1, <1>2, <1>3, <1>4, <1>5 DEF NodeStep

\* A worker stays in order when one node of its wave moves on.
LEMMA AtOneInOrder ==
    ASSUME NEW e, NEW f, NEW n \in Nodes, AtOne(e, f, n), InOrder(e)
    PROVE  InOrder(f)
<1>1. \A k : ToRun(f, k) = ToRun(e, k)
  BY DEF ToRun, AtOne
<1>2. QED
  BY <1>1 DEF AtOne, InOrder, InWaves

\* A pass begins before the first wave.
LEMMA BeginInOrder ==
    ASSUME IInv, NEW w \in Workers, InOrder(exec[w]), BeginPass(w), NEW f, f = exec'[w]
    PROVE  InOrder(f)
<1>t. exec \in [Workers -> Job]
  BY DEF IInv, TypeOK, ExecTypeOK
<1>0. PICK r : r = exec[w].run
  OBVIOUS
<1>1. PICK open : open = InStatus(r, "awaiting_approval")
  OBVIOUS
<1>2. /\ f.pc = "between" /\ f.wave = 0 /\ f.halted = open /\ f.waiting = Downstream(open)
      /\ f.blocked = {} /\ f.at = exec[w].at
  BY <1>t, <1>0, <1>1 DEF BeginPass, Job
<1>3. \A n \in Nodes : f.at[n] = "none"
  BY <1>2, Zenon DEF InOrder, BeginPass
<1>4. \A m \in f.halted \cup f.waiting : Dependents(Deps, m) \subseteq f.waiting
  BY <1>2, DownstreamOf
<1>5. f.halted = {} => f.waiting = {}
  BY <1>2 DEF Downstream
<1>6. QED
  BY <1>2, <1>3, <1>4, <1>5 DEF InOrder, InWaves

\* The next wave is the first that has something left to run.
LEMMA NextInOrder ==
    ASSUME IInv, NEW w \in Workers, InOrder(exec[w]), NextWave(w), NEW f, f = exec'[w]
    PROVE  InOrder(f)
<1>t. exec \in [Workers -> Job]
  BY DEF IInv, TypeOK, ExecTypeOK
<1>0. PICK e : e = exec[w]
  OBVIOUS
<1>a. PICK k \in Later(exec[w]) :
          /\ \A j \in Later(exec[w]) : k <= j
          /\ exec' = [exec EXCEPT
               ![w].pc = "wave", ![w].wave = k,
               ![w].at = [n \in Nodes |->
                   IF n \in ToRun(exec[w], k) THEN "todo" ELSE "none"]]
  BY Zenon DEF NextWave
<1>1. /\ k \in Later(e) /\ \A j \in Later(e) : k <= j
      /\ exec' = [exec EXCEPT
           ![w].pc = "wave", ![w].wave = k,
           ![w].at = [n \in Nodes |-> IF n \in ToRun(e, k) THEN "todo" ELSE "none"]]
  BY <1>0, <1>a
<1>2. /\ f.pc = "wave" /\ f.wave = k
      /\ f.at = [n \in Nodes |-> IF n \in ToRun(e, k) THEN "todo" ELSE "none"]
      /\ f.outputs = e.outputs /\ f.halted = e.halted /\ f.waiting = e.waiting /\ f.blocked = e.blocked
  BY <1>t, <1>0, <1>1 DEF Job
<1>3. \A j : ToRun(f, j) = ToRun(e, j)
  BY <1>2 DEF ToRun
<1>4. e.pc = "between" /\ e.wave \in Nat /\ InOrder(e)
  BY <1>t, <1>0 DEF NextWave, Job
<1>5. k \in (e.wave + 1) .. Cardinality(Nodes) /\ Cardinality(Nodes) \in Nat
  BY <1>1, GraphAssumption, FS_CardinalityType DEF Later, Nodes
<1>6. ASSUME NEW j \in 1 .. k, j < k PROVE ToRun(e, j) = {}
  <2>1. CASE j <= e.wave
    BY <1>4, <1>5, <1>6, <2>1 DEF InOrder, InWaves
  <2>2. CASE j > e.wave
    <3>1. j \in (e.wave + 1) .. Cardinality(Nodes)
      BY <1>4, <1>5, <1>6, <2>2
    <3>2. j \notin Later(e)
      BY <1>1, <1>4, <1>5, <1>6
    <3>3. QED
      BY <3>1, <3>2 DEF Later
  <2>3. QED
    BY <1>4, <1>5, <1>6, <2>1, <2>2
<1>7. \A n \in Nodes : f.at[n] # "none" <=> n \in ToRun(f, f.wave)
  BY <1>2, <1>3
<1>8. k \in Nat /\ k \in 1 .. Cardinality(Nodes)
  BY <1>4, <1>5
<1>9. QED
  BY <1>2, <1>3, <1>4, <1>6, <1>7, <1>8 DEF InOrder, InWaves

\* What EndWave makes of the sets of the worker.
Ended(e, p) == {n \in Nodes : e.at[n] = p}
Cut(e) == Downstream(Ended(e, "failed")) \ (e.outputs \cup Ended(e, "ok"))

\* What the end of a wave makes of the worker and of the rows.
LEMMA EndWaveSets ==
    ASSUME IInv, NEW w \in Workers, EndWave(w), NEW e, e = exec[w], NEW f, f = exec'[w]
    PROVE  /\ f.pc \in {"between", "over_budget"} /\ e.pc = "wave"
           /\ f.at = NotInWave /\ f.wave = e.wave /\ f.run = e.run /\ f.pass = e.pass
           /\ f.outcome = e.outcome
           /\ f.outputs = e.outputs \cup Ended(e, "ok")
           /\ f.halted = e.halted \cup Ended(e, "halted")
           /\ f.waiting = e.waiting \cup Downstream(Ended(e, "halted"))
           /\ f.blocked = e.blocked \cup Ended(e, "failed") \cup Cut(e)
           /\ \A n \in Nodes : e.at[n] \in {"none", "ok", "halted", "failed"}
           /\ rows' = [rows EXCEPT ![e.run] = Skip(@, Cut(e))]
<1>t. exec \in [Workers -> Job]
  BY DEF IInv, TypeOK, ExecTypeOK
<1> DEFINE q == exec[w]
           ended(p) == {n \in Nodes : q.at[n] = p}
           outputs == q.outputs \cup ended("ok")
           cut == Downstream(ended("failed")) \ outputs
<1>1. PICK next \in {"between", "over_budget"} :
          exec' = [exec EXCEPT ![w].pc = next, ![w].at = NotInWave,
                               ![w].tries = Idle.tries, ![w].base = Idle.base,
                               ![w].outputs = outputs,
                               ![w].halted = @ \cup ended("halted"),
                               ![w].waiting = @ \cup Downstream(ended("halted")),
                               ![w].blocked = @ \cup ended("failed") \cup cut]
  BY Zenon DEF EndWave
<1>2. /\ q.pc = "wave" /\ \A n \in Nodes : q.at[n] \in {"none", "ok", "halted", "failed"}
      /\ rows' = [rows EXCEPT ![q.run] = Skip(@, cut)]
  BY Zenon DEF EndWave
<1>3. /\ ended("ok") = Ended(e, "ok") /\ ended("halted") = Ended(e, "halted")
      /\ ended("failed") = Ended(e, "failed")
  BY DEF Ended
<1>4. outputs = e.outputs \cup Ended(e, "ok") /\ cut = Cut(e)
  BY <1>3, SMTT(30) DEF Cut
<1> HIDE DEF ended, outputs, cut
<1>5. /\ f.pc = next /\ f.at = NotInWave /\ f.wave = e.wave /\ f.run = e.run /\ f.pass = e.pass
      /\ f.outcome = e.outcome /\ f.outputs = outputs
      /\ f.halted = e.halted \cup ended("halted")
      /\ f.waiting = e.waiting \cup Downstream(ended("halted"))
      /\ f.blocked = e.blocked \cup ended("failed") \cup cut
  BY <1>t, <1>1 DEF Job
<1>6. QED
  BY <1>1, <1>2, <1>3, <1>4, <1>5, Zenon

\* A wave that ended leaves nothing to run in it, and holds back what its nodes
\* hold back.
LEMMA EndInOrder ==
    ASSUME IInv, NEW w \in Workers, InOrder(exec[w]), EndWave(w), NEW f, f = exec'[w]
    PROVE  InOrder(f)
<1>0. PICK e : e = exec[w]
  OBVIOUS
<1>1. /\ f.pc \in {"between", "over_budget"} /\ e.pc = "wave"
      /\ f.at = NotInWave /\ f.wave = e.wave
      /\ f.outputs = e.outputs \cup Ended(e, "ok")
      /\ f.halted = e.halted \cup Ended(e, "halted")
      /\ f.waiting = e.waiting \cup Downstream(Ended(e, "halted"))
      /\ f.blocked = e.blocked \cup Ended(e, "failed") \cup Cut(e)
      /\ \A n \in Nodes : e.at[n] \in {"none", "ok", "halted", "failed"}
  BY <1>0, EndWaveSets
<1>2. InOrder(e)
  BY <1>0
<1>3. \A n \in Nodes : f.at[n] = "none"
  BY <1>1 DEF NotInWave
<1>4. \A j \in 1 .. e.wave : ToRun(f, j) = {}
  <2>1. TAKE j \in 1 .. e.wave
  <2>2. ToRun(f, j) \subseteq ToRun(e, j)
    BY <1>1 DEF ToRun
  <2>3. CASE j < e.wave
    BY <1>1, <1>2, <2>2, <2>3 DEF InOrder, InWaves
  <2>4. CASE j = e.wave
    <3>1. ASSUME NEW n \in ToRun(f, j) PROVE FALSE
      <4>1. n \in ToRun(e, e.wave) /\ n \in Nodes
        <5>1. n \in DOMAIN Deps
          BY <1>1, <1>2, <3>1, <2>4, UnlayeredUnfolds, j - 1 \in Nat DEF InOrder, InWaves, ToRun, Wave
        <5>2. QED
          BY <2>2, <2>4, <3>1, <5>1 DEF Nodes
      <4>2. e.at[n] \in {"ok", "halted", "failed"}
        BY <1>1, <1>2, <4>1 DEF InOrder
      <4>3. QED
        BY <1>1, <3>1, <4>1, <4>2 DEF ToRun, Ended
    <3>2. QED
      BY <3>1
  <2>5. QED
    BY <1>1, <1>2, <2>3, <2>4 DEF InOrder, InWaves
<1>5. \A m \in f.halted \cup f.waiting : Dependents(Deps, m) \subseteq f.waiting
  BY <1>1, <1>2, DownstreamOf DEF InOrder, InWaves
<1>6. f.halted = {} => f.waiting = {}
  BY <1>1, <1>2 DEF InOrder, InWaves, Downstream
<1>7. \A m \in f.blocked : Dependents(Deps, m) \subseteq f.blocked \cup f.outputs
  <2>1. \A m \in Ended(e, "failed") \cup Cut(e) :
            Dependents(Deps, m) \subseteq Downstream(Ended(e, "failed"))
    BY DownstreamOf DEF Cut
  <2>2. Downstream(Ended(e, "failed")) \subseteq Cut(e) \cup f.outputs
    BY <1>1 DEF Cut
  <2>3. QED
    BY <1>1, <1>2, <2>1, <2>2 DEF InOrder, InWaves
<1>8. QED
  BY <1>1, <1>2, <1>3, <1>4, <1>5, <1>6, <1>7 DEF InOrder, InWaves

\* Every step keeps the order.
LEMMA OrderKept ==
    ASSUME IInv, [Next]_vars, \A w \in Workers : InOrder(exec[w]), NEW w \in Workers
    PROVE  InOrder(exec'[w])
<1>1. CASE exec'[w] = exec[w]
  BY <1>1
<1>2. ASSUME NEW v \in Workers, Work(v) PROVE InOrder(exec'[w])
  <2>1. WorkerStep(v) /\ Alone(v)
    BY <1>2, WorkerMoves DEF Work
  <2>2. CASE v # w
    BY <1>1, <2>1, <2>2 DEF Alone
  <2>3. CASE v = w
    <3>1. CASE BeginPass(w)
      BY <3>1, BeginInOrder
    <3>2. CASE NextWave(w)
      BY <3>2, NextInOrder
    <3>3. CASE EndWave(w)
      BY <3>3, EndInOrder
    <3>4. ASSUME NEW n \in Nodes, NodeStep(w, n) PROVE InOrder(exec'[w])
      BY <3>4, NodeMoves, AtOneInOrder
    <3>5. CASE Leaves(exec[w], exec'[w])
      BY <3>5 DEF Leaves, InOrder, InWaves, NotInWave
    <3>6. CASE EndPass(w)
      <4>1. ~InWaves(exec'[w]) /\ exec[w].pc # "wave"
            /\ (exec'[w].at = NotInWave \/ exec'[w].at = exec[w].at)
        BY <3>6 DEF EndPass, GoFinish, Go, InWaves, IInv, TypeOK, ExecTypeOK, Job
      <4>2. QED
        BY <4>1 DEF InOrder, InWaves, NotInWave
    <3>7. QED
      BY <1>1, <2>1, <2>3, <3>1, <3>2, <3>3, <3>4, <3>5, <3>6, StepKinds
  <2>4. QED
    BY <2>2, <2>3
<1>3. ASSUME NEW v \in Workers, WorkerCrash(v) PROVE InOrder(exec'[w])
  <2>1. exec'[w] = exec[w] \/ exec'[w] = Idle
    BY <1>3 DEF WorkerCrash, IInv, TypeOK, ExecTypeOK
  <2>2. InOrder(Idle)
    BY DEF InOrder, InWaves, Idle, NotInWave
  <2>3. QED
    BY <2>1, <2>2
<1>4. QED
  BY <1>1, <1>2, <1>3 DEF Next, Serve, Expiry, BeatExpires, Sweep, Surprise, SubmitTask,
     LockExpires, ReaperCrash, vars

-----------------------------------------------------------------------------
(* What the rows and the questions of one run have to do with each other    *)

\* A question of the list is open; the newest one was answered yes.
Open(seq) == \E i \in 1 .. Len(seq) : seq[i] = "pending"
Approved(seq) == seq # <<>> /\ Last(seq) = "approved"

\* The node never succeeds behind the back of the worker that runs it: only the
\* clearance of the creative exceptions does that to a node (Clear).
Firm(n) == Kind[n] # "clear" \/ "task" \notin Requests

Succeeded(table) == StatusOf(table) = "succeeded"

\* A success is the newest attempt.
LastSuccess(table) ==
    \A a \in DOMAIN table : table[a].status = "succeeded" => \A b \in DOMAIN table : b <= a

\* Node n of a run with the tables t and the questions q: it was attempted only
\* after what it depends on, an open question has its proposal, a yes its success.
SoundAt(t, q, n) ==
    /\ Tried(t[n]) => \A m \in Deps[n] : Succeeded(t[m])
    /\ Open(q[n]) => StatusOf(t[n]) = "awaiting_approval"
    /\ q[n] # <<>> => Kind[n] = "gate"
    /\ Firm(n) => LastSuccess(t[n])
    /\ Approved(q[n]) => Succeeded(t[n])

\* Node n as worker e, inside the wave loop, knows it.
PassAt(e, t, q, n) ==
    /\ n \in e.outputs \/ e.at[n] = "ok" => Succeeded(t[n])
    /\ Tried(t[n]) => Deps[n] \subseteq e.outputs
    /\ Open(q[n]) => n \in e.halted \/ e.at[n] = "halted"
    /\ Firm(n) /\ Succeeded(t[n]) => n \in e.outputs \cup e.halted \/ e.at[n] \in {"ok", "halted"}

\* The number worker e gives to its next attempt of node n is behind all the
\* others, and so is the number of the attempt it has in flight.
NumberedAt(e, table, n) ==
    /\ e.at[n] \in {"numbered", "backoff"} =>
          e.base[n] >= 1 /\ \A a \in DOMAIN table : a <= e.base[n] + e.tries[n]
    /\ e.at[n] \in Underway =>
          /\ e.base[n] >= 1 /\ e.tries[n] >= 1
          /\ \A a \in DOMAIN table : a < e.base[n] + e.tries[n]

\* What housekeeping does to the questions of a node.
Calm(old, new) ==
    /\ Open(new) => Open(old)
    /\ new # <<>> => old # <<>>
    /\ Approved(new) => Approved(old)

Quiet(t, u, q, p) ==
    \A n \in Nodes :
        GoodTable(t[n]) /\ GoodTable(u[n]) /\ Tidy(t[n], u[n]) /\ Calm(q[n], p[n])

\* Housekeeping makes no success.
LEMMA NoNewSuccess ==
    ASSUME NEW old, NEW new, GoodTable(old), GoodTable(new), Tidy(old, new),
           LastSuccess(old), Succeeded(new)
    PROVE  Succeeded(old)
<1>1. DOMAIN new # {} /\ new[Newest(new)].status = "succeeded"
  BY DEF Succeeded, StatusOf
<1>2. PICK a : a \in DOMAIN new /\ new[a].status = "succeeded"
  BY <1>1, NewestIsGreatest
<1>3. a \in DOMAIN old /\ old[a].status = "succeeded"
  BY <1>2 DEF Tidy
<1>4. \A b \in DOMAIN old : b <= a
  BY <1>3 DEF LastSuccess
<1>5. QED
  BY <1>3, <1>4, GreatestIsNewest DEF Succeeded

\* Housekeeping keeps a success the newest attempt.
LEMMA LastSuccessKept ==
    ASSUME NEW old, NEW new, Tidy(old, new), LastSuccess(old)
    PROVE  LastSuccess(new)
<1> SUFFICES ASSUME NEW a \in DOMAIN new, new[a].status = "succeeded", NEW b \in DOMAIN new
             PROVE  b <= a
  BY DEF LastSuccess
<1>1. a \in DOMAIN old /\ old[a].status = "succeeded"
  BY DEF Tidy
<1>2. b \in DOMAIN old
  BY <1>1 DEF Tidy
<1>3. QED
  BY <1>1, <1>2 DEF LastSuccess

\* Housekeeping leaves a run as sound as it was.
LEMMA QuietSound ==
    ASSUME NEW t, NEW u, NEW q, NEW p, Quiet(t, u, q, p), \A n \in Nodes : SoundAt(t, q, n)
    PROVE  \A n \in Nodes : SoundAt(u, p, n)
<1> SUFFICES ASSUME NEW n \in Nodes PROVE SoundAt(u, p, n)
  OBVIOUS
<1>0. SoundAt(t, q, n) /\ Tidy(t[n], u[n]) /\ Calm(q[n], p[n])
  BY DEF Quiet
<1>1. Deps[n] \subseteq Nodes
  BY GraphAssumption DEF Nodes
<1>2. \A m \in Nodes : Succeeded(t[m]) => Succeeded(u[m])
  BY DEF Quiet, Tidy, Succeeded
<1>3. Tried(u[n]) => \A m \in Deps[n] : Succeeded(u[m])
  BY <1>0, <1>1, <1>2 DEF SoundAt, Tidy
<1>4. Open(p[n]) => StatusOf(u[n]) = "awaiting_approval"
  BY <1>0 DEF SoundAt, Tidy, Calm
<1>5. Firm(n) => LastSuccess(u[n])
  BY <1>0, LastSuccessKept DEF SoundAt
<1>6. Approved(p[n]) => Succeeded(u[n])
  BY <1>0, <1>2 DEF SoundAt, Calm
<1>7. QED
  BY <1>0, <1>3, <1>4, <1>5, <1>6 DEF SoundAt, Calm

\* ... and what a worker knows of it.
LEMMA QuietPass ==
    ASSUME NEW t, NEW u, NEW q, NEW p, Quiet(t, u, q, p), \A n \in Nodes : SoundAt(t, q, n),
           NEW e, \A n \in Nodes : PassAt(e, t, q, n)
    PROVE  \A n \in Nodes : PassAt(e, u, p, n)
<1> SUFFICES ASSUME NEW n \in Nodes PROVE PassAt(e, u, p, n)
  OBVIOUS
<1>0. /\ PassAt(e, t, q, n) /\ SoundAt(t, q, n) /\ Tidy(t[n], u[n]) /\ Calm(q[n], p[n])
      /\ GoodTable(t[n]) /\ GoodTable(u[n])
  BY DEF Quiet
<1>1. Succeeded(t[n]) => Succeeded(u[n])
  BY <1>0 DEF Tidy, Succeeded
<1>2. Firm(n) /\ Succeeded(u[n]) => Succeeded(t[n])
  BY <1>0, NoNewSuccess DEF SoundAt
<1>3. QED
  BY <1>0, <1>1, <1>2, Zenon DEF PassAt, Tidy, Calm

\* ... and the number of its next attempt.
LEMMA QuietNumbered ==
    ASSUME NEW old, NEW new, Tidy(old, new), NEW e, NEW n,
           e.base[n] \in Nat, e.tries[n] \in Nat, NumberedAt(e, old, n)
    PROVE  NumberedAt(e, new, n)
BY DEF Tidy, NumberedAt

\* One node changed, and what the others need of it was not there before.
LEMMA ChangeSound ==
    ASSUME NEW t, NEW u, NEW q, NEW p, NEW n \in Nodes, \A m \in Nodes : SoundAt(t, q, m),
           \A m \in Nodes \ {n} : u[m] = t[m] /\ p[m] = q[m],
           \A m \in Nodes : n \in Deps[m] => ~Tried(t[m]),
           Tried(u[n]) => \A m \in Deps[n] : m # n /\ Succeeded(t[m]),
           Open(p[n]) => StatusOf(u[n]) = "awaiting_approval",
           p[n] # <<>> => Kind[n] = "gate",
           Firm(n) => LastSuccess(u[n]),
           Approved(p[n]) => Succeeded(u[n])
    PROVE  \A m \in Nodes : SoundAt(u, p, m)
<1>0. \A m \in Nodes : Deps[m] \subseteq Nodes
  BY GraphAssumption DEF Nodes
<1>1. SoundAt(u, p, n)
  <2>1. \A m \in Deps[n] : Tried(u[n]) => Succeeded(u[m])
    BY <1>0
  <2>2. QED
    BY <2>1 DEF SoundAt
<1>2. ASSUME NEW m \in Nodes \ {n} PROVE SoundAt(u, p, m)
  <2>1. SoundAt(t, q, m) /\ u[m] = t[m] /\ p[m] = q[m]
    OBVIOUS
  <2>2. Tried(t[m]) => n \notin Deps[m]
    OBVIOUS
  <2>3. \A k \in Deps[m] : Tried(u[m]) => Succeeded(u[k])
    BY <1>0, <2>1, <2>2 DEF SoundAt
  <2>4. QED
    BY <2>1, <2>3 DEF SoundAt
<1>3. QED
  BY <1>1, <1>2

-----------------------------------------------------------------------------
(* A node of the wave, and the rows of one node                              *)

\* A node of the wave has everything it depends on.
LEMMA InputsReady ==
    ASSUME NEW e, InOrder(e), InWaves(e), NEW n \in Nodes, e.at[n] # "none"
    PROVE  /\ e.pc = "wave" /\ n \notin e.outputs \cup e.halted
           /\ Deps[n] \subseteq e.outputs
<1>1. e.pc = "wave" /\ n \in ToRun(e, e.wave)
  BY DEF InOrder
<1>2. n \notin e.outputs \cup e.halted \cup e.waiting \cup e.blocked /\ n \in Wave(Deps, e.wave)
  BY <1>1 DEF ToRun
<1>3. ASSUME NEW m \in Deps[n] PROVE m \in e.outputs
  <2>1. e.wave \in 1 .. Cardinality(Nodes) /\ e.wave \in Nat
    BY <1>1 DEF InOrder
  <2>2. PICK j \in 1 .. (e.wave - 1) : m \in Wave(Deps, j)
    BY <1>2, <2>1, GraphAssumption, DependenciesBefore DEF Nodes
  <2>3. ToRun(e, j) = {}
    BY <2>1, <2>2 DEF InOrder
  <2>4. n \in Dependents(Deps, m)
    BY <1>3 DEF Dependents, Nodes
  <2>5. m \in e.outputs \cup e.blocked \cup e.halted \cup e.waiting
    BY <2>2, <2>3 DEF ToRun
  <2>6. QED
    BY <1>2, <2>4, <2>5 DEF InOrder
<1>4. QED
  BY <1>1, <1>2, <1>3

\* The newest row rewritten.
LEMMA RewrittenRow ==
    ASSUME NEW old, NEW new, GoodTable(old), GoodTable(new), DOMAIN new = DOMAIN old,
           NEW a \in DOMAIN old, \A b \in DOMAIN old : b <= a,
           \A b \in DOMAIN old \ {a} : new[b] = old[b]
    PROVE  /\ StatusOf(new) = new[a].status /\ StatusOf(old) = old[a].status
           /\ LastSuccess(old) /\ old[a].status # "succeeded" => LastSuccess(new)
<1>1. StatusOf(new) = new[a].status /\ StatusOf(old) = old[a].status
  BY GreatestIsNewest
<1>2. ASSUME LastSuccess(old), old[a].status # "succeeded" PROVE LastSuccess(new)
  <2> SUFFICES ASSUME NEW b \in DOMAIN new, new[b].status = "succeeded",
                      NEW c \in DOMAIN new
               PROVE  c <= b
    BY DEF LastSuccess
  <2>1. CASE b = a
    BY <2>1
  <2>2. CASE b # a
    BY <1>2, <2>2 DEF LastSuccess
  <2>3. QED
    BY <2>1, <2>2
<1>3. QED
  BY <1>1, <1>2

-----------------------------------------------------------------------------
(* The invariant of the wave loop                                           *)

\* A worker that closes its run has an outcome; before, it has none.
View(e, t, q) ==
    /\ InOrder(e)
    /\ e.pc \notin AfterWaves => e.outcome = "none"
    /\ InWaves(e) => \A n \in Nodes : PassAt(e, t[e.run], q[e.run], n)
    /\ e.pc = "wave" => \A n \in Nodes : NumberedAt(e, t[e.run][n], n)

\* Row a of node n of run r is the attempt that worker e has in flight.
HeldAt(e, r, n, a, row) ==
    /\ row.status \in {"running", "failed", "skipped"}
    /\ e.run = r /\ e.pc = "wave" /\ e.at[n] \in Underway
    /\ a + 1 = e.base[n] + e.tries[n]

Holds(x, t) ==
    \A r \in Runs, n \in Nodes : \A a \in DOMAIN t[r][n] :
        t[r][n][a].by # NoWorker => HeldAt(x[t[r][n][a].by], r, n, a, t[r][n][a])

\* A decision is about a question that was asked, a clearance about a node that
\* is cleared.
Served(a, q) ==
    /\ a.pc = "decide" =>
          a.run \in Runs /\ a.node \in Nodes /\ a.ask \in 1 .. Len(q[a.run][a.node])
    /\ a.pc = "clear" =>
          "task" \in Requests /\ a.run \in Runs /\ a.node \in Nodes /\ Kind[a.node] = "clear"

\* Worker e calls its run succeeded, and did not run out of passes.
Won(e) == e.outcome = "succeeded" /\ e.pass # MaxGatePasses

Wins(x, t) ==
    \A v \in Workers : Won(x[v]) =>
        /\ ~InWaves(x[v])
        /\ \A n \in Nodes : Succeeded(t[x[v].run][n])
        /\ \A w \in Workers : InWaves(x[w]) /\ x[w].run = x[v].run => x[w].outputs = Nodes

SoundRuns(t, q) == \A r \in Runs, n \in Nodes : SoundAt(t[r], q[r], n)

Flow(x, t, q, a) ==
    /\ \A w \in Workers : View(x[w], t, q)
    /\ SoundRuns(t, q)
    /\ Holds(x, t)
    /\ \A h \in Handlers : Served(a[h], q)
    /\ Wins(x, t)

\* Worker w is at work on run r: it took the job, and has yet to write how the
\* run ends or that it waits.
AtWork == {"loaded", "aborting", "swept", "marked", "pass", "between", "wave",
           "over_budget", "parking", "park_tasks", "ending", "finishing"}

WorksOn(w, r) == exec[w].run = r /\ exec[w].pc \in AtWork

\* No run has two workers at work on it.
OneExecutor ==
    \A v, w \in Workers, r \in Runs : WorksOn(v, r) /\ WorksOn(w, r) => v = w

\* What every state is typed to be.
LEMMA Typed ==
    ASSUME IInv
    PROVE  /\ exec \in [Workers -> Job] /\ api \in [Handlers -> Handler]
           /\ \A r \in Runs, n \in Nodes : GoodTable(rows[r][n])
           /\ \A w \in Workers : exec[w].pc # "idle" => exec[w].run \in Runs
           /\ \A w \in Workers : exec[w].outputs \subseteq Nodes
           /\ \A w \in Workers, n \in Nodes :
                 exec[w].base[n] \in Nat /\ exec[w].tries[n] \in Nat
BY DEF IInv, TypeOK, ExecTypeOK, ControlTypeOK, StateTypeOK, Seated, GoodTable, Job

\* What a worker may come to be in a step that only tidies up the rows.
Turned(e, f, w) ==
    /\ View(f, rows, asks)
    /\ \A r \in Runs, n \in Nodes : \A a \in DOMAIN rows'[r][n] :
          rows'[r][n][a].by = w /\ HeldAt(e, r, n, a, rows'[r][n][a]) =>
              HeldAt(f, r, n, a, rows'[r][n][a])
    /\ Won(f) =>
          /\ ~InWaves(f) /\ \A n \in Nodes : Succeeded(rows[f.run][n])
          /\ \/ Won(e) /\ f.run = e.run
             \/ \A v \in Workers \ {w} : exec'[v] = exec[v] /\ (InWaves(exec[v]) => exec[v].run # f.run)
    /\ InWaves(f) =>
          \/ InWaves(e) /\ f.run = e.run /\ e.outputs \subseteq f.outputs
          \/ f.outputs = InStatus(f.run, "succeeded")

\* A worker that stays where it is.
LEMMA StaysTurned ==
    ASSUME Flow(exec, rows, asks, api), NEW w \in Workers
    PROVE  Turned(exec[w], exec[w], w)
BY Zenon DEF Flow, Turned, Wins

\* The rows and questions are tidied up, and the workers turn.
LEMMA QuietStep ==
    ASSUME IInv, IInv', Flow(exec, rows, asks, api),
           \A r \in Runs : Quiet(rows[r], rows'[r], asks[r], asks'[r]),
           \A h \in Handlers : Served(api'[h], asks'),
           \A w \in Workers : Turned(exec[w], exec'[w], w)
    PROVE  Flow(exec', rows', asks', api')
<1>t. \A w \in Workers :
        /\ exec'[w].pc # "idle" => exec'[w].run \in Runs
        /\ exec'[w].outputs \subseteq Nodes
        /\ \A n \in Nodes : exec'[w].base[n] \in Nat /\ exec'[w].tries[n] \in Nat
  BY DEF IInv, TypeOK, ExecTypeOK, Seated, Job
<1>1. SoundRuns(rows', asks')
  <2>1. \A r \in Runs : \A n \in Nodes : SoundAt(rows[r], asks[r], n)
    BY DEF Flow, SoundRuns
  <2>2. \A r \in Runs : \A n \in Nodes : SoundAt(rows'[r], asks'[r], n)
    BY <2>1, QuietSound
  <2>3. QED
    BY <2>2 DEF SoundRuns
<1>2. ASSUME NEW w \in Workers PROVE View(exec'[w], rows', asks')
  <2>1. PICK f : f = exec'[w]
    OBVIOUS
  <2>2. View(f, rows, asks) /\ (InWaves(f) => f.run \in Runs)
    BY <1>t, <2>1 DEF Turned, InWaves
  <2>3. InWaves(f) => \A n \in Nodes : PassAt(f, rows'[f.run], asks'[f.run], n)
    <3> SUFFICES ASSUME InWaves(f)
                 PROVE  \A n \in Nodes : PassAt(f, rows'[f.run], asks'[f.run], n)
      OBVIOUS
    <3>1. /\ \A n \in Nodes : PassAt(f, rows[f.run], asks[f.run], n)
          /\ \A n \in Nodes : SoundAt(rows[f.run], asks[f.run], n)
          /\ Quiet(rows[f.run], rows'[f.run], asks[f.run], asks'[f.run])
      BY <2>2 DEF View, Flow, SoundRuns
    <3>2. QED
      BY <3>1, QuietPass
  <2>4. f.pc = "wave" => \A n \in Nodes : NumberedAt(f, rows'[f.run][n], n)
    <3> SUFFICES ASSUME f.pc = "wave", NEW n \in Nodes
                 PROVE  NumberedAt(f, rows'[f.run][n], n)
      OBVIOUS
    <3>1. f.run \in Runs /\ NumberedAt(f, rows[f.run][n], n)
      BY <2>2 DEF View, InWaves
    <3>2. Tidy(rows[f.run][n], rows'[f.run][n])
      BY <3>1 DEF Quiet
    <3>3. f.base[n] \in Nat /\ f.tries[n] \in Nat
      BY <1>t, <2>1
    <3>4. QED
      BY <3>1, <3>2, <3>3, QuietNumbered
  <2>5. View(f, rows', asks')
    BY <2>2, <2>3, <2>4 DEF View
  <2>6. QED
    BY <2>1, <2>5
<1>3. Holds(exec', rows')
  <2> SUFFICES ASSUME NEW r \in Runs, NEW n \in Nodes, NEW a \in DOMAIN rows'[r][n],
                      rows'[r][n][a].by # NoWorker
               PROVE  HeldAt(exec'[rows'[r][n][a].by], r, n, a, rows'[r][n][a])
    BY DEF Holds
  <2>0. PICK w : w = rows'[r][n][a].by
    OBVIOUS
  <2>1. GoodTable(rows'[r][n]) /\ Tidy(rows[r][n], rows'[r][n])
    BY DEF Quiet
  <2>2. w \in Workers /\ rows'[r][n][a].status \in NodeStatus
    BY <2>0, <2>1 DEF GoodTable, IsTable, RowTable
  <2>3. a \in DOMAIN rows[r][n] /\ rows[r][n][a].by = w
    BY <2>0, <2>1 DEF Tidy
  <2>4. HeldAt(exec[w], r, n, a, rows[r][n][a])
    BY <2>0, <2>2, <2>3 DEF Flow, Holds
  <2>5. rows'[r][n][a].status \notin {"failed", "skipped"} =>
            rows'[r][n][a].status = rows[r][n][a].status
    BY <2>1 DEF Tidy
  <2>6. HeldAt(exec[w], r, n, a, rows'[r][n][a])
    BY <2>4, <2>5 DEF HeldAt
  <2>7. QED
    BY <2>0, <2>2, <2>6 DEF Turned
<1>4. Wins(exec', rows')
  <2>0. SUFFICES ASSUME NEW v \in Workers, Won(exec'[v])
        PROVE  /\ ~InWaves(exec'[v])
               /\ \A n \in Nodes : Succeeded(rows'[exec'[v].run][n])
               /\ \A w \in Workers : InWaves(exec'[w]) /\ exec'[w].run = exec'[v].run =>
                      exec'[w].outputs = Nodes
    BY DEF Wins
  <2>1. PICK r : r = exec'[v].run
    OBVIOUS
  <2>2. ~InWaves(exec'[v]) /\ \A n \in Nodes : Succeeded(rows[r][n])
    BY <2>0, <2>1 DEF Turned
  <2>3. r \in Runs
    <3>1. exec'[v].pc # "idle"
      <4>1. exec'[v].pc \in AfterWaves
        BY <2>0 DEF Turned, View, Won
      <4>2. QED
        BY <4>1 DEF AfterWaves
    <3>2. QED
      BY <1>t, <2>1, <3>1
  <2>4. \A n \in Nodes : Succeeded(rows'[r][n])
    BY <2>2, <2>3 DEF Quiet, Tidy, Succeeded
  <2>5. ASSUME NEW w \in Workers, InWaves(exec'[w]), exec'[w].run = r
        PROVE  exec'[w].outputs = Nodes
    <3>1. w # v
      BY <2>2, <2>5
    <3>2. exec'[w].outputs \subseteq Nodes
      BY <1>t
    <3>3. CASE InWaves(exec[w]) /\ exec[w].run = r /\ exec[w].outputs \subseteq exec'[w].outputs
      <4>1. Won(exec[v]) /\ exec[v].run = r
        <5>1. \/ Won(exec[v]) /\ r = exec[v].run
              \/ InWaves(exec[w]) => exec[w].run # r
          BY <2>0, <2>1, <3>1 DEF Turned
        <5>2. QED
          BY <3>3, <5>1
      <4>2. exec[w].outputs = Nodes
        BY <3>3, <4>1 DEF Flow, Wins
      <4>3. QED
        BY <3>2, <3>3, <4>2
    <3>4. CASE exec'[w].outputs = InStatus(r, "succeeded")
      BY <2>2, <3>4 DEF InStatus, Latest, Succeeded, StatusOf
    <3>5. QED
      BY <2>5, <3>3, <3>4 DEF Turned
  <2>6. QED
    BY <2>1, <2>2, <2>4, <2>5
<1>5. QED
  BY <1>1, <1>2, <1>3, <1>4 DEF Flow

-----------------------------------------------------------------------------
(* Which steps only tidy up                                                 *)

TidyRows == \A r \in Runs, n \in Nodes : Tidy(rows[r][n], rows'[r][n])
CalmAsks == \A r \in Runs, n \in Nodes : Calm(asks[r][n], asks'[r][n])

\* Tidying up one run is tidying up.
LEMMA TidyRun ==
    ASSUME IInv, NEW r \in Runs, NEW tables, rows' = [rows EXCEPT ![r] = tables],
           \A n \in Nodes : Tidy(rows[r][n], tables[n])
    PROVE  TidyRows
<1>1. DOMAIN rows = Runs
  BY DEF IInv, TypeOK, StateTypeOK
<1>2. ASSUME NEW q \in Runs, NEW n \in Nodes PROVE Tidy(rows[q][n], rows'[q][n])
  <2>1. CASE q = r
    <3>1. rows'[q] = tables
      BY <1>1, <2>1
    <3>2. QED
      BY <2>1, <3>1
  <2>2. CASE q # r
    <3>1. rows'[q][n] = rows[q][n]
      BY <1>1, <2>2
    <3>2. QED
      BY <3>1, SameIsTidy
  <2>3. QED
    BY <2>1, <2>2
<1>3. QED
  BY <1>2 DEF TidyRows

\* record_skipped, fail_stale_running and reset_failed tidy up.
LEMMA SkipTidies ==
    ASSUME IInv, NEW r \in Runs, NEW S, rows' = [rows EXCEPT ![r] = Skip(@, S)]
    PROVE  TidyRows
<1> DEFINE tables == Skip(rows[r], S)
<1>1. \A n \in Nodes : Tidy(rows[r][n], tables[n])
  <2>1. TAKE n \in Nodes
  <2>2. GoodTable(rows[r][n])
    BY Typed
  <2>3. tables[n] = SkipOne(rows[r][n]) \/ tables[n] = rows[r][n]
    BY DEF Skip
  <2>4. QED
    BY <2>2, <2>3, SkipIsTidy, SameIsTidy
<1>2. rows' = [rows EXCEPT ![r] = tables]
  OBVIOUS
<1> HIDE DEF tables
<1>3. QED
  BY <1>1, <1>2, TidyRun

\* fail_stale_running fails what was in flight.
LEMMA FailStaleTidies ==
    ASSUME IInv, NEW r \in Runs, rows' = [rows EXCEPT ![r] = FailStale(@)]
    PROVE  TidyRows
<1> DEFINE tables == FailStale(rows[r])
<1>1. \A n \in Nodes : Tidy(rows[r][n], tables[n])
  <2>1. TAKE n \in Nodes
  <2>2. GoodTable(rows[r][n])
    BY Typed
  <2>3. tables[n] = Move(rows[r][n], "running", "failed")
    BY DEF FailStale
  <2>4. QED
    BY <2>2, <2>3, FailStaleIsTidy
<1>2. rows' = [rows EXCEPT ![r] = tables]
  OBVIOUS
<1> HIDE DEF tables
<1>3. QED
  BY <1>1, <1>2, TidyRun

\* reset_failed deletes what failed or was skipped.
LEMMA ResetTidies ==
    ASSUME IInv, NEW r \in Runs, rows' = [rows EXCEPT ![r] = Reset(@)]
    PROVE  TidyRows
<1> DEFINE tables == Reset(rows[r])
<1>1. \A n \in Nodes : Tidy(rows[r][n], tables[n])
  <2>1. TAKE n \in Nodes
  <2>2. GoodTable(rows[r][n])
    BY Typed
  <2>3. tables[n] =
          Restrict(rows[r][n], {a \in DOMAIN rows[r][n] : ~Retryable(rows[r][n][a])})
    BY DEF Reset
  <2>4. QED
    BY <2>2, <2>3, ResetIsTidy
<1>2. rows' = [rows EXCEPT ![r] = tables]
  OBVIOUS
<1> HIDE DEF tables
<1>3. QED
  BY <1>1, <1>2, TidyRun

\* A session that is gone lets go of what it had in flight of one node.
LEMMA DisownTidies ==
    ASSUME IInv, NEW r \in Runs, NEW n \in Nodes, NEW w,
           rows' = [rows EXCEPT ![r][n] = Disown(@, w)]
    PROVE  /\ TidyRows
           /\ w # NoWorker => \A a \in DOMAIN rows'[r][n] : rows'[r][n][a].by # w
<1> DEFINE tables == [rows[r] EXCEPT ![n] = Disown(rows[r][n], w)]
<1>t. GoodTable(rows[r][n]) /\ rows[r] = [m \in Nodes |-> rows[r][m]] /\ DOMAIN rows = Runs
  BY DEF IInv, TypeOK, StateTypeOK, GoodTable
<1>1. \A m \in Nodes : Tidy(rows[r][m], tables[m])
  BY <1>t, DisownIsTidy, SameIsTidy
<1>2. rows' = [rows EXCEPT ![r] = tables]
  OBVIOUS
<1>3. rows'[r][n] = Disown(rows[r][n], w)
  BY <1>t
<1> HIDE DEF tables
<1>4. QED
  BY <1>t, <1>1, <1>2, <1>3, TidyRun, DisownIsTidy

\* A step that writes no row.
LEMMA SameTidies == ASSUME rows' = rows PROVE TidyRows
BY SameIsTidy DEF TidyRows

\* expire_pending opens nothing and answers nothing.
LEMMA ExpireCalms ==
    ASSUME AskTypes, NEW r \in Runs, asks' = [asks EXCEPT ![r] = Expire(@)]
    PROVE  CalmAsks
<1>1. ASSUME NEW q \in Runs, NEW n \in Nodes PROVE Calm(asks[q][n], asks'[q][n])
  <2>1. CASE q # r
    <3>1. asks'[q][n] = asks[q][n]
      BY <2>1 DEF AskTypes
    <3>2. QED
      BY <3>1 DEF Calm
  <2>2. CASE q = r
    <3> DEFINE old == asks[q][n]
               new == asks'[q][n]
    <3>1. old \in Seq(AskStatus)
      BY DEF AskTypes
    <3>2. new = [i \in 1 .. Len(old) |-> IF old[i] = "pending" THEN "expired" ELSE old[i]]
      BY <2>2 DEF AskTypes, Expire
    <3> HIDE DEF old, new
    <3>3. /\ new \in Seq(AskStatus) /\ Len(new) = Len(old)
          /\ \A i \in 1 .. Len(old) : new[i] = IF old[i] = "pending" THEN "expired" ELSE old[i]
      <4>1. \A i \in 1 .. Len(old) : (IF old[i] = "pending" THEN "expired" ELSE old[i]) \in AskStatus
        BY <3>1 DEF AskStatus
      <4>2. new \in [1 .. Len(old) -> AskStatus] /\ Len(old) \in Nat
        BY <3>1, <3>2, <4>1
      <4>3. QED
        BY <3>2, <4>2
    <3>4. ~Open(new)
      BY <3>3 DEF Open
    <3>5. new # <<>> => old # <<>>
      BY <3>1, <3>3
    <3>6. Approved(new) => Approved(old)
      <4> SUFFICES ASSUME Approved(new) PROVE Approved(old)
        OBVIOUS
      <4>1. Len(new) \in 1 .. Len(old) /\ new[Len(new)] = "approved"
        BY <3>3 DEF Approved, Last
      <4>2. old[Len(old)] = "approved"
        BY <3>1, <3>3, <4>1
      <4>3. QED
        BY <3>1, <3>3, <4>1, <4>2 DEF Approved, Last
    <3>7. QED
      BY <3>4, <3>5, <3>6 DEF Calm, old, new
  <2>3. QED
    BY <2>1, <2>2
<1>2. QED
  BY <1>1 DEF CalmAsks

\* A step that asks nothing and answers nothing.
LEMMA SameCalms == ASSUME asks' = asks PROVE CalmAsks
BY DEF CalmAsks, Calm

\* What a worker writes for one node.
WritesRow(w, n) ==
    StartNode(w, n) \/ NodeSucceeds(w, n) \/ NodeFails(w, n) \/ OpenGate(w, n) \/ OpenTask(w, n)

\* Everything else a worker does tidies up.
LEMMA WorkerTidies ==
    ASSUME IInv, AskTypes, NEW w \in Workers, WorkerStep(w)
    PROVE  (TidyRows /\ CalmAsks) \/ \E n \in Nodes : WritesRow(w, n)
<1>0. exec[w].pc # "idle" => exec[w].run \in Runs
  BY Typed
<1>1. CASE Abort(w)
  BY <1>0, <1>1, SkipTidies, SameCalms DEF Abort
<1>2. CASE SweepStale(w)
  BY <1>0, <1>2, FailStaleTidies, SameCalms DEF SweepStale
<1>3. CASE EndWave(w)
  <2>1. PICK e : e = exec[w]
    OBVIOUS
  <2>2. PICK f : f = exec'[w]
    OBVIOUS
  <2>3. rows' = [rows EXCEPT ![e.run] = Skip(@, Cut(e))] /\ e.pc = "wave"
    BY <1>3, <2>1, <2>2, EndWaveSets, SMTT(30)
  <2>4. asks' = asks
    BY <1>3, Zenon DEF EndWave
  <2>5. QED
    BY <1>0, <2>1, <2>3, <2>4, SkipTidies, SameCalms
<1>4. CASE SkipUnreached(w)
  <2>1. asks' = asks /\ exec[w].run \in Runs
    BY <1>0, <1>4 DEF SkipUnreached
  <2>2. CASE exec[w].outcome = "succeeded"
    BY <1>4, <2>1, <2>2, SameTidies, SameCalms DEF SkipUnreached
  <2>3. CASE exec[w].outcome # "succeeded"
    BY <1>4, <2>1, <2>3, SkipTidies, SameCalms DEF SkipUnreached
  <2>4. QED
    BY <2>2, <2>3
<1>5. CASE ExpireGates(w)
  BY <1>0, <1>5, SameTidies, ExpireCalms DEF ExpireGates
<1>6. CASE (\E r \in Runs : Dequeue(w, r)) \/ AbortFinish(w) \/ AbortRelease(w)
  BY <1>6, SameTidies, SameCalms, Zenon DEF Dequeue, AbortFinish, AbortRelease
<1>7. CASE MarkRunning(w) \/ FirstBeat(w) \/ BeginPass(w) \/ PassesExhausted(w)
  BY <1>7, SameTidies, SameCalms DEF MarkRunning, FirstBeat, BeginPass, PassesExhausted
<1>8. CASE StopCancelled(w) \/ NextWave(w) \/ EndPass(w)
  BY <1>8, SameTidies, SameCalms, Zenon DEF StopCancelled, NextWave, EndPass
<1>9. CASE StopBroken(w) \/ StopOverBudget(w) \/ ParkOnGate(w) \/ ParkOnTask(w)
  BY <1>9, SameTidies, SameCalms DEF StopBroken, StopOverBudget, ParkOnGate, ParkOnTask
<1>10. CASE PauseRelease(w) \/ FinishRun(w) \/ FinishRelease(w) \/ ClearCancel(w)
  BY <1>10, SameTidies, SameCalms DEF PauseRelease, FinishRun, FinishRelease, ClearCancel
<1>11. ASSUME NEW n \in Nodes,
              NumberNode(w, n) \/ NumberTaken(w, n) \/ RowLost(w, n) \/ FindOpen(w, n)
       PROVE  TidyRows /\ CalmAsks
  BY <1>11, SameTidies, SameCalms DEF NumberNode, NumberTaken, RowLost, FindOpen
<1>11a. ASSUME NEW n \in Nodes, GateTaken(w, n)
        PROVE  TidyRows /\ CalmAsks
  <2>1. asks' = asks /\ exec[w].run \in Runs
        /\ rows' = [rows EXCEPT ![exec[w].run][n] = Disown(@, w)]
    BY <1>0, <1>11a DEF GateTaken
  <2>2. QED
    BY <2>1, DisownTidies, SameCalms
<1>12. \/ \E r \in Runs : Dequeue(w, r)
       \/ AbortFinish(w) \/ AbortRelease(w)
       \/ MarkRunning(w) \/ FirstBeat(w) \/ BeginPass(w) \/ PassesExhausted(w)
       \/ StopCancelled(w) \/ NextWave(w) \/ EndPass(w)
       \/ StopBroken(w) \/ StopOverBudget(w) \/ ParkOnGate(w) \/ ParkOnTask(w)
       \/ PauseRelease(w) \/ FinishRun(w) \/ FinishRelease(w) \/ ClearCancel(w)
       \/ Abort(w) \/ SweepStale(w) \/ EndWave(w) \/ SkipUnreached(w) \/ ExpireGates(w)
       \/ \E n \in Nodes : NumberNode(w, n) \/ NumberTaken(w, n) \/ RowLost(w, n) \/ FindOpen(w, n)
       \/ \E n \in Nodes : GateTaken(w, n)
       \/ \E n \in Nodes : WritesRow(w, n)
  BY DEF WorkerStep, WritesRow
<1>13. QED
  BY <1>1, <1>2, <1>3, <1>4, <1>5, <1>6, <1>7, <1>8, <1>9, <1>10, <1>11, <1>11a, <1>12

\* A request in progress is about a run.
LEMMA RequestRun ==
    ASSUME IInv, NEW h \in Handlers
    PROVE  api[h].run \in Runs \/ api[h].run = NoRun
BY DEF IInv, TypeOK, ControlTypeOK, Handler

\* Writing to the rows or questions of no run writes nothing.
LEMMA NoRunNoWrite ==
    ASSUME IInv, AskTypes
    PROVE  \A v : [rows EXCEPT ![NoRun] = v] = rows /\ [asks EXCEPT ![NoRun] = v] = asks
<1>1. /\ rows = [r \in Runs |-> [n \in Nodes |-> rows[r][n]]]
      /\ DOMAIN rows = Runs /\ asks = [r \in Runs |-> asks[r]]
  BY DEF IInv, TypeOK, StateTypeOK, AskTypes
<1>2. NoRun \notin Runs
  BY RunAssumption
<1>3. QED
  BY <1>1, <1>2

\* Everything a request does but the verdict and the clearance tidies up.
LEMMA RequestTidies ==
    ASSUME IInv, AskTypes, NEW h \in Handlers,
           ControlStep(h) \/ DecisionStep(h) \/ ControlRequest(h) \/ DecisionRequest(h)
    PROVE  \/ TidyRows /\ CalmAsks
           \/ \E verdict \in {"approved", "rejected"} : Decide(h, verdict)
           \/ Clear(h)
<1>1. CASE CancelSkip(h)
  <2>1. asks' = asks /\ rows' = [rows EXCEPT ![api[h].run] = Skip(@, Nodes)]
    BY <1>1 DEF CancelSkip
  <2>2. CASE api[h].run \in Runs
    BY <2>1, <2>2, SkipTidies, SameCalms
  <2>3. CASE api[h].run = NoRun
    BY <2>1, <2>3, NoRunNoWrite, SameTidies, SameCalms
  <2>4. QED
    BY <2>2, <2>3, RequestRun
<1>2. CASE RejectSkip(h)
  <2>1. asks' = asks /\ rows' = [rows EXCEPT ![api[h].run] = Skip(@, Descendants(Deps, api[h].node))]
    BY <1>2 DEF RejectSkip
  <2>2. CASE api[h].run \in Runs
    BY <2>1, <2>2, SkipTidies, SameCalms
  <2>3. CASE api[h].run = NoRun
    BY <2>1, <2>3, NoRunNoWrite, SameTidies, SameCalms
  <2>4. QED
    BY <2>2, <2>3, RequestRun
<1>3. CASE RetryReset(h)
  <2>1. asks' = asks /\ rows' = [rows EXCEPT ![api[h].run] = Reset(@)]
    BY <1>3 DEF RetryReset
  <2>2. CASE api[h].run \in Runs
    BY <2>1, <2>2, ResetTidies, SameCalms
  <2>3. CASE api[h].run = NoRun
    BY <2>1, <2>3, NoRunNoWrite, SameTidies, SameCalms
  <2>4. QED
    BY <2>2, <2>3, RequestRun
<1>4. CASE CloseQuestions(h)
  <2>1. rows' = rows /\ asks' = [asks EXCEPT ![api[h].run] = Expire(@)]
    BY <1>4 DEF CloseQuestions
  <2>2. CASE api[h].run \in Runs
    BY <2>1, <2>2, SameTidies, ExpireCalms
  <2>3. CASE api[h].run = NoRun
    BY <2>1, <2>3, NoRunNoWrite, SameTidies, SameCalms
  <2>4. QED
    BY <2>2, <2>3, RequestRun
<1>5. CASE UNCHANGED <<rows, asks>>
  BY <1>5, SameTidies, SameCalms
<1>6. \/ CancelSkip(h) \/ RejectSkip(h) \/ RetryReset(h) \/ CloseQuestions(h)
      \/ UNCHANGED <<rows, asks>> \/ Clear(h)
      \/ \E verdict \in {"approved", "rejected"} : Decide(h, verdict)
  <2>1. CASE ControlStep(h)
    BY <2>1 DEF ControlStep, LaunchCommit, LaunchCommitFails, LaunchEnqueue, LaunchFails,
       CancelFlag, CancelFinish, ReleaseLock, RetryLock, RetryClear, Requeue, Enqueue, EnqueueFails
  <2>2. CASE DecisionStep(h)
    BY <2>2 DEF DecisionStep, DecideConflict, ResumeLock, RejectFinish
  <2>3. CASE ControlRequest(h)
    BY <2>3 DEF ControlRequest, LaunchLock, CancelLoad, RetryLoad
  <2>4. CASE DecisionRequest(h)
    BY <2>4 DEF DecisionRequest, DecideLoad, ClearLoad
  <2>5. QED
    BY <2>1, <2>2, <2>3, <2>4
<1>7. QED
  BY <1>1, <1>2, <1>3, <1>4, <1>5, <1>6

\* The sweep tidies up.
LEMMA SweepTidies == ASSUME IInv, AskTypes, ReaperStep PROVE TidyRows /\ CalmAsks
<1>0. reaper.run \in Runs \/ reaper.run = NoRun
  BY DEF IInv, TypeOK, ReaperTypeOK
<1>1. CASE ReapLoad
  <2>1. asks' = asks
    BY <1>1 DEF ReapLoad
  <2>2. CASE rows' = rows
    BY <2>1, <2>2, SameTidies, SameCalms
  <2>3. CASE rows' = [rows EXCEPT ![reaper.run] = FailStale(@)] /\ reaper.run \in Runs
    BY <2>1, <2>3, FailStaleTidies, SameCalms
  <2>4. QED
    BY <1>0, <1>1, <2>2, <2>3, NoRunNoWrite DEF ReapLoad
<1>2. CASE ReapExpire
  <2>1. rows' = rows /\ asks' = [asks EXCEPT ![reaper.run] = Expire(@)]
    BY <1>2 DEF ReapExpire
  <2>2. CASE reaper.run \in Runs
    BY <2>1, <2>2, SameTidies, ExpireCalms
  <2>3. CASE reaper.run = NoRun
    BY <2>1, <2>3, NoRunNoWrite, SameTidies, SameCalms
  <2>4. QED
    BY <1>0, <2>2, <2>3
<1>3. CASE UNCHANGED <<rows, asks>>
  BY <1>3, SameTidies, SameCalms
<1>4. QED
  BY <1>1, <1>2, <1>3 DEF ReaperStep, ListStale, CheckBeat, ReapFinish, ReapRelease

\* A worker that dies leaves its rows to nobody.
LEMMA CrashTidies ==
    ASSUME IInv, NEW w \in Workers, WorkerCrash(w)
    PROVE  /\ TidyRows /\ CalmAsks
           /\ \A r \in Runs, n \in Nodes : \A a \in DOMAIN rows'[r][n] : rows'[r][n][a].by # w
<1>1. asks' = asks /\ \A r \in Runs, n \in Nodes : rows'[r][n] = Disown(rows[r][n], w)
  BY DEF WorkerCrash
<1>2. w # NoWorker
  BY RunAssumption
<1>3. \A r \in Runs, n \in Nodes : GoodTable(rows[r][n])
  BY Typed
<1>4. QED
  BY <1>1, <1>2, <1>3, DisownIsTidy, SameCalms DEF TidyRows

-----------------------------------------------------------------------------
(* Where a worker may turn                                                  *)

\* A worker that leaves the wave loop, or never was in it.
LEMMA LeavesTurns ==
    ASSUME Flow(exec, rows, asks, api), NEW w \in Workers, NEW e, e = exec[w],
           NEW f, Leaves(e, f)
    PROVE  Turned(e, f, w)
<1>0. View(e, rows, asks)
  BY DEF Flow
<1>1. InOrder(f)
  BY <1>0 DEF View, Leaves, InOrder, InWaves, NotInWave
<1>2. View(f, rows, asks)
  BY <1>0, <1>1 DEF View, Leaves, InWaves
<1>3. ~(\E r, n, a, row : n \in Nodes /\ HeldAt(e, r, n, a, row))
  BY DEF Leaves, HeldAt
<1>4. Won(f) => Won(e) /\ f.run = e.run
  BY DEF Leaves, Won
<1>5. Won(e) => \A n \in Nodes : Succeeded(rows[e.run][n])
  BY DEF Flow, Wins
<1>6. ~InWaves(f)
  BY DEF Leaves
<1>7. \A r \in Runs, n \in Nodes : \A a \in DOMAIN rows'[r][n] :
          ~HeldAt(e, r, n, a, rows'[r][n][a])
  BY <1>3
<1>8. QED
  BY <1>2, <1>4, <1>5, <1>6, <1>7 DEF Turned

\* A run ends as a success with everything done.
LEMMA EndPassTurns ==
    ASSUME IInv, Flow(exec, rows, asks, api), OneExecutor, NEW w \in Workers, EndPass(w), Alone(w),
           NEW e, e = exec[w], NEW f, f = exec'[w]
    PROVE  Turned(e, f, w)
<1>t. exec \in [Workers -> Job]
  BY Typed
<1>0. /\ View(e, rows, asks) /\ e.pc = "between" /\ e.outcome = "none" /\ Later(e) = {}
  BY DEF Flow, View, EndPass, AfterWaves
<1>1. CASE e.blocked # {} \/ e.halted # {}
  <2>1. Leaves(e, f)
    BY <1>t, <1>0, <1>1 DEF EndPass, GoFinish, Go, Leaves, InWaves, AfterWaves, Job
  <2>2. QED
    BY <2>1, LeavesTurns
<1>2. CASE e.blocked = {} /\ e.halted = {}
  <2>1. /\ f.pc = "ending" /\ f.at = NotInWave /\ f.run = e.run /\ f.outcome = "succeeded"
    BY <1>t, <1>2 DEF EndPass, GoFinish, Job
  <2>2. View(f, rows, asks)
    BY <2>1 DEF View, InOrder, InWaves, NotInWave, AfterWaves
  <2>3. ASSUME NEW n \in Nodes PROVE Succeeded(rows[e.run][n])
    <3>1. PICK k \in 1 .. Cardinality(Nodes) : n \in Wave(Deps, k)
      BY EveryNodeLayered, GraphAssumption DEF Nodes
    <3>2. e.wave \in Nat /\ k \in Nat /\ Cardinality(Nodes) \in Nat
      BY <1>t, <3>1, FS_CardinalityType, GraphAssumption DEF Job, Nodes
    <3>3. ToRun(e, k) = {}
      <4>1. CASE k <= e.wave
        BY <1>0, <3>1, <3>2, <4>1 DEF View, InOrder, InWaves
      <4>2. CASE k > e.wave
        <5>1. k \in (e.wave + 1) .. Cardinality(Nodes)
          BY <3>1, <3>2, <4>2
        <5>2. QED
          BY <1>0, <5>1 DEF Later
      <4>3. QED
        BY <3>2, <4>1, <4>2
    <3>4. e.waiting = {}
      BY <1>0, <1>2 DEF View, InOrder, InWaves
    <3>5. n \in e.outputs
      BY <1>2, <3>1, <3>3, <3>4 DEF ToRun
    <3>6. QED
      BY <1>0, <3>5 DEF View, InWaves, PassAt
  <2>4. ASSUME NEW v \in Workers \ {w} PROVE exec'[v] = exec[v] /\ (InWaves(exec[v]) => exec[v].run # f.run)
    <3>1. exec'[v] = exec[v]
      BY DEF Alone
    <3>2. e.run \in Runs
      BY <1>0, Typed
    <3>3. ASSUME InWaves(exec[v]), exec[v].run = e.run PROVE FALSE
      BY <1>0, <3>2, <3>3 DEF OneExecutor, WorksOn, AtWork, InWaves
    <3>4. QED
      BY <2>1, <3>1, <3>3
  <2>5. \A r \in Runs, n \in Nodes : \A a \in DOMAIN rows'[r][n] :
          ~HeldAt(e, r, n, a, rows'[r][n][a])
    BY <1>0 DEF HeldAt
  <2>6. ~InWaves(f)
    BY <2>1 DEF InWaves
  <2>7. QED
    BY <2>1, <2>2, <2>3, <2>4, <2>5, <2>6, Zenon DEF Turned
<1>3. QED
  BY <1>1, <1>2

\* A pass starts from what the rows say.
LEMMA BeginTurns ==
    ASSUME IInv, Flow(exec, rows, asks, api), NEW w \in Workers, BeginPass(w),
           NEW e, e = exec[w], NEW f, f = exec'[w]
    PROVE  Turned(e, f, w)
<1>t. exec \in [Workers -> Job]
  BY Typed
<1>0. View(e, rows, asks) /\ e.pc = "pass" /\ e.outcome = "none" /\ e.run \in Runs
  BY Typed DEF Flow, View, BeginPass, AfterWaves
<1>1. /\ f.pc = "between" /\ f.run = e.run /\ f.outcome = "none" /\ f.at = e.at
      /\ f.outputs = InStatus(e.run, "succeeded")
      /\ f.halted = InStatus(e.run, "awaiting_approval")
  <2>1. PICK r : r = exec[w].run
    OBVIOUS
  <2>2. PICK open : open = InStatus(r, "awaiting_approval")
    OBVIOUS
  <2>3. PICK done : done = InStatus(r, "succeeded")
    OBVIOUS
  <2>4. exec' = [exec EXCEPT ![w].pc = "between", ![w].pass = @ + 1, ![w].wave = 0,
                             ![w].outputs = done, ![w].halted = open,
                             ![w].waiting = Downstream(open), ![w].blocked = {}]
    BY <2>1, <2>2, <2>3 DEF BeginPass
  <2>5. QED
    BY <1>t, <1>0, <2>1, <2>2, <2>3, <2>4 DEF Job
<1>2. InOrder(f)
  BY <1>0, BeginInOrder DEF View
<1>3. ASSUME NEW n \in Nodes PROVE PassAt(f, rows[e.run], asks[e.run], n)
  <2>1. SoundAt(rows[e.run], asks[e.run], n)
    BY <1>0 DEF Flow, SoundRuns
  <2>2. f.at[n] = "none"
    BY <1>0, <1>1 DEF View, InOrder
  <2>3. \A m \in Nodes : /\ m \in f.outputs <=> Succeeded(rows[e.run][m])
                         /\ m \in f.halted <=> StatusOf(rows[e.run][m]) = "awaiting_approval"
    BY <1>1 DEF InStatus, Latest, Succeeded, StatusOf
  <2>4. Deps[n] \subseteq Nodes
    BY GraphAssumption DEF Nodes
  <2>5. QED
    BY <2>1, <2>2, <2>3, <2>4 DEF SoundAt, PassAt
<1>4. View(f, rows, asks)
  BY <1>1, <1>2, <1>3 DEF View
<1>5. \A r \in Runs, n \in Nodes : \A a \in DOMAIN rows'[r][n] :
        ~HeldAt(e, r, n, a, rows'[r][n][a])
  BY <1>0 DEF HeldAt
<1>6. ~Won(f)
  BY <1>1 DEF Won
<1>7. QED
  BY <1>1, <1>4, <1>5, <1>6, Zenon DEF Turned

\* A worker that starts the next wave.
LEMMA NextTurns ==
    ASSUME IInv, Flow(exec, rows, asks, api), NEW w \in Workers, NextWave(w),
           NEW e, e = exec[w], NEW f, f = exec'[w]
    PROVE  Turned(e, f, w)
<1>t. exec \in [Workers -> Job]
  BY Typed
<1>0. View(e, rows, asks) /\ e.pc = "between" /\ e.outcome = "none"
  BY DEF Flow, View, NextWave, AfterWaves
<1>1. /\ f.pc = "wave" /\ f.run = e.run /\ f.outcome = "none"
      /\ f.outputs = e.outputs /\ f.halted = e.halted
      /\ \A n \in Nodes : f.at[n] \in {"todo", "none"}
  <2>1. PICK k \in Later(exec[w]) :
          exec' = [exec EXCEPT
               ![w].pc = "wave", ![w].wave = k,
               ![w].at = [n \in Nodes |->
                   IF n \in ToRun(exec[w], k) THEN "todo" ELSE "none"]]
    BY Zenon DEF NextWave
  <2>2. PICK at : at = [n \in Nodes |-> IF n \in ToRun(exec[w], k) THEN "todo" ELSE "none"]
    OBVIOUS
  <2>3. exec' = [exec EXCEPT ![w].pc = "wave", ![w].wave = k, ![w].at = at]
    BY <2>1, <2>2
  <2>4. \A n \in Nodes : at[n] \in {"todo", "none"}
    BY <2>2
  <2>5. QED
    BY <1>t, <1>0, <2>3, <2>4 DEF Job
<1>2. InOrder(f)
  BY <1>0, NextInOrder DEF View
<1>3. ASSUME NEW n \in Nodes
      PROVE  PassAt(f, rows[e.run], asks[e.run], n) /\ NumberedAt(f, rows[e.run][n], n)
  <2>1. PassAt(e, rows[e.run], asks[e.run], n) /\ e.at[n] = "none"
    BY <1>0 DEF View, InWaves, InOrder
  <2>2. f.at[n] \in {"todo", "none"}
    BY <1>1
  <2>3. QED
    BY <1>1, <2>1, <2>2 DEF PassAt, NumberedAt, Underway
<1>4. View(f, rows, asks)
  BY <1>1, <1>2, <1>3 DEF View
<1>5. \A r \in Runs, n \in Nodes : \A a \in DOMAIN rows'[r][n] :
        ~HeldAt(e, r, n, a, rows'[r][n][a])
  BY <1>0 DEF HeldAt
<1>6. ~Won(f)
  BY <1>1 DEF Won
<1>7. InWaves(e)
  BY <1>0 DEF InWaves
<1>8. QED
  BY <1>1, <1>4, <1>5, <1>6, <1>7, Zenon DEF Turned

\* A worker that ends a wave.
LEMMA EndWaveTurns ==
    ASSUME IInv, Flow(exec, rows, asks, api), NEW w \in Workers, EndWave(w),
           NEW e, e = exec[w], NEW f, f = exec'[w]
    PROVE  Turned(e, f, w)
<1>0. View(e, rows, asks)
  BY DEF Flow
<1>1. /\ f.pc \in {"between", "over_budget"} /\ e.pc = "wave"
      /\ f.at = NotInWave /\ f.run = e.run /\ f.outcome = e.outcome
      /\ f.outputs = e.outputs \cup Ended(e, "ok")
      /\ f.halted = e.halted \cup Ended(e, "halted")
      /\ \A n \in Nodes : e.at[n] \in {"none", "ok", "halted", "failed"}
  BY EndWaveSets
<1>2. InOrder(f)
  BY <1>0, EndInOrder DEF View
<1>3. e.outcome = "none" /\ InWaves(e)
  BY <1>0, <1>1 DEF View, AfterWaves, InWaves
<1>4. ASSUME NEW n \in Nodes PROVE PassAt(f, rows[e.run], asks[e.run], n)
  <2>1. PassAt(e, rows[e.run], asks[e.run], n)
    BY <1>0, <1>3 DEF View
  <2>2. f.at[n] = "none"
    BY <1>1 DEF NotInWave
  <2>3. (n \in f.outputs <=> n \in e.outputs \/ e.at[n] = "ok")
        /\ (n \in f.halted <=> n \in e.halted \/ e.at[n] = "halted")
        /\ e.outputs \subseteq f.outputs
    BY <1>1 DEF Ended
  <2>4. QED
    BY <2>1, <2>2, <2>3 DEF PassAt
<1>5. View(f, rows, asks)
  BY <1>1, <1>2, <1>3, <1>4 DEF View
<1>6. ASSUME NEW r, NEW n \in Nodes, NEW a, NEW row PROVE ~HeldAt(e, r, n, a, row)
  BY <1>1 DEF HeldAt, Underway
<1>7. ~Won(f)
  BY <1>1, <1>3 DEF Won
<1>8. e.outputs \subseteq f.outputs
  BY <1>1
<1>9. QED
  BY <1>1, <1>3, <1>5, <1>6, <1>7, <1>8, Zenon DEF Turned

\* Whatever happens to one node of a wave happens to that node only.
Elsewhere(e, f, n) ==
    \A m \in Nodes \ {n} : f.at[m] = e.at[m] /\ f.base[m] = e.base[m] /\ f.tries[m] = e.tries[m]

\* A step of one node leaves the other nodes of the wave where they are.
LEMMA NodeStepElsewhere ==
    ASSUME IInv, NEW w \in Workers, NEW n \in Nodes, NodeStep(w, n)
    PROVE  Elsewhere(exec[w], exec'[w], n)
<1>t. exec \in [Workers -> Job]
  BY Typed
<1> USE <1>t DEF Job, Elsewhere
<1>1. CASE NumberNode(w, n)
  BY <1>1 DEF NumberNode
<1>2. CASE StartNode(w, n)
  BY <1>2 DEF StartNode
<1>3. ASSUME NEW p, exec' = [exec EXCEPT ![w].at[n] = p] PROVE Elsewhere(exec[w], exec'[w], n)
  BY <1>3
<1> HIDE DEF Elsewhere
<1>4. CASE NumberTaken(w, n) \/ RowLost(w, n) \/ FindOpen(w, n) \/ GateTaken(w, n)
  BY <1>3, <1>4 DEF NumberTaken, RowLost, FindOpen, GateTaken
<1>5. CASE NodeSucceeds(w, n) \/ NodeFails(w, n)
  BY <1>3, <1>5 DEF NodeSucceeds, NodeFails, Checkpoint
<1>6. CASE OpenGate(w, n) \/ OpenTask(w, n)
  BY <1>3, <1>6 DEF OpenGate, OpenTask, Checkpoint
<1>7. QED
  BY <1>1, <1>2, <1>4, <1>5, <1>6 DEF NodeStep

\* A node takes its number, looks for its question, or is broken.
LEMMA NodeTurns ==
    ASSUME IInv, Flow(exec, rows, asks, api), NEW w \in Workers, NEW n \in Nodes,
           \/ NumberNode(w, n) \/ NumberTaken(w, n) \/ RowLost(w, n)
           \/ FindOpen(w, n) \/ GateTaken(w, n),
           NEW e, e = exec[w], NEW f, f = exec'[w]
    PROVE  Turned(e, f, w)
<1>t. exec \in [Workers -> Job]
  BY Typed
<1>0. /\ View(e, rows, asks) /\ AtOne(e, f, n) /\ Elsewhere(e, f, n)
  BY NodeMoves, NodeStepElsewhere DEF Flow, NodeStep
<1>1. e.pc = "wave" /\ f.pc = "wave" /\ f.run = e.run /\ e.run \in Runs
      /\ f.outputs = e.outputs /\ f.halted = e.halted /\ f.outcome = e.outcome
  BY <1>0, Typed DEF AtOne
<1>2. e.outcome = "none" /\ InWaves(e) /\ InWaves(f) /\ InOrder(f)
  BY <1>0, <1>1, AtOneInOrder DEF View, AfterWaves, InWaves
<1>3. f.at[n] \in {"numbered", "broken", "found", "asking"}
      /\ e.at[n] \in {"todo", "numbered", "backoff", "running", "found", "asking"}
  BY <1>t DEF NumberNode, NumberTaken, RowLost, FindOpen, GateTaken, Underway, Job
<1>4. PassAt(f, rows[e.run], asks[e.run], n)
  <2>1. PassAt(e, rows[e.run], asks[e.run], n)
    BY <1>0, <1>2 DEF View
  <2>2. QED
    BY <1>1, <1>3, <2>1 DEF PassAt
<1>5. NumberedAt(f, rows[e.run][n], n)
  <2>1. CASE f.at[n] = "broken"
    BY <2>1 DEF NumberedAt, Underway
  <2>1a. CASE f.at[n] \in {"found", "asking"}
    <3>1. FindOpen(w, n)
      BY <1>t, <2>1a DEF NumberNode, NumberTaken, RowLost, GateTaken, Job
    <3>2. e.at[n] \in Underway /\ f.base[n] = e.base[n] /\ f.tries[n] = e.tries[n]
      BY <1>t, <3>1 DEF FindOpen, Underway, Job
    <3>3. NumberedAt(e, rows[e.run][n], n)
      BY <1>0, <1>1 DEF View
    <3>4. QED
      BY <2>1a, <3>2, <3>3 DEF NumberedAt
  <2>2. CASE f.at[n] = "numbered"
    <3> DEFINE table == rows[e.run][n]
    <3>1. GoodTable(table)
      BY <1>1, Typed
    <3>2. /\ f.tries[n] = e.tries[n] /\ e.tries[n] \in Nat
          /\ f.base[n] = IF DOMAIN table = {} THEN 1 ELSE Newest(table) + 1
      <4>1. NumberNode(w, n)
        BY <1>t, <2>2 DEF NumberTaken, RowLost, FindOpen, GateTaken, Job
      <4>2. PICK first : first = IF DOMAIN table = {} THEN 1 ELSE Newest(table) + 1
        OBVIOUS
      <4>3. exec' = [exec EXCEPT ![w].at[n] = "numbered", ![w].base[n] = first]
        BY <4>1, <4>2 DEF NumberNode
      <4>4. QED
        BY <1>t, <4>2, <4>3 DEF Job
    <3> HIDE DEF table
    <3>3. CASE DOMAIN table = {}
      BY <2>2, <3>2, <3>3 DEF NumberedAt, table, Underway
    <3>4. CASE DOMAIN table # {}
      <4>1. Newest(table) \in Nat /\ \A a \in DOMAIN table : a <= Newest(table) /\ a \in Nat
        BY <3>1, <3>4, NewestIsGreatest DEF GoodTable, IsTable
      <4>2. f.base[n] >= 1 /\ \A a \in DOMAIN table : a <= f.base[n] + f.tries[n]
        BY <3>2, <3>4, <4>1
      <4>3. QED
        BY <2>2, <4>2 DEF NumberedAt, table, Underway
    <3>5. QED
      BY <3>3, <3>4
  <2>3. QED
    BY <1>3, <2>1, <2>1a, <2>2
<1>6. View(f, rows, asks)
  <2>1. \A m \in Nodes : PassAt(f, rows[e.run], asks[e.run], m)
    <3>1. ASSUME NEW m \in Nodes \ {n} PROVE PassAt(f, rows[e.run], asks[e.run], m)
      <4>1. PassAt(e, rows[e.run], asks[e.run], m) /\ f.at[m] = e.at[m]
        BY <1>0, <1>2 DEF View, Elsewhere
      <4>2. QED
        BY <1>1, <4>1 DEF PassAt
    <3>2. QED
      BY <1>4, <3>1
  <2>2. ASSUME NEW m \in Nodes PROVE NumberedAt(f, rows[e.run][m], m)
    <3>1. CASE m = n
      BY <1>5, <3>1
    <3>2. CASE m # n
      BY <1>0, <1>1, <3>2 DEF View, Elsewhere, NumberedAt
    <3>3. QED
      BY <3>1, <3>2
  <2>3. QED
    BY <1>1, <1>2, <2>1, <2>2 DEF View
<1>7. ASSUME NEW r \in Runs, NEW m \in Nodes, NEW a \in DOMAIN rows'[r][m],
             rows'[r][m][a].by = w, HeldAt(e, r, m, a, rows'[r][m][a])
      PROVE  HeldAt(f, r, m, a, rows'[r][m][a])
  <2>1. CASE m # n
    BY <1>0, <1>1, <1>7, <2>1 DEF HeldAt, Elsewhere
  <2>2. CASE m = n
    <3>1. e.at[n] \in Underway /\ r = e.run
      BY <1>7, <2>2 DEF HeldAt
    <3>2. RowLost(w, n) \/ FindOpen(w, n) \/ GateTaken(w, n)
      BY <3>1 DEF NumberNode, NumberTaken, Underway
    <3>3. CASE RowLost(w, n)
      <4>1. a \in Held(w, n)
        BY <1>7, <2>2, <3>1, <3>3 DEF Held, RowLost
      <4>2. QED
        BY <3>3, <4>1 DEF RowLost
    <3>4. CASE FindOpen(w, n)
      <4>1. f.at[n] \in Underway /\ f.base[n] = e.base[n] /\ f.tries[n] = e.tries[n]
        BY <1>t, <3>4 DEF FindOpen, Underway, Job
      <4>2. QED
        BY <1>1, <1>7, <2>2, <4>1 DEF HeldAt
    <3>5. CASE GateTaken(w, n)
      <4>1. rows' = [rows EXCEPT ![r][n] = Disown(@, w)] /\ w # NoWorker
        BY <3>1, <3>5, RunAssumption DEF GateTaken
      <4>2. \A b \in DOMAIN rows'[r][n] : rows'[r][n][b].by # w
        BY <4>1, DisownTidies
      <4>3. QED
        BY <1>7, <2>2, <4>2
    <3>6. QED
      BY <3>2, <3>3, <3>4, <3>5
  <2>3. QED
    BY <2>1, <2>2
<1>8. ~Won(f)
  BY <1>1, <1>2 DEF Won
<1>9. e.outputs \subseteq f.outputs
  BY <1>1
<1>10. QED
  BY <1>1, <1>2, <1>6, <1>7, <1>8, <1>9, Zenon DEF Turned

=============================================================================
