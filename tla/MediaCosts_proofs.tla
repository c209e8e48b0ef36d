-------------------------- MODULE MediaCosts_proofs --------------------------
(***************************************************************************)
(* The money of every creative run, whatever its caps, its jobs and the      *)
(* tasks that submit, await and check them: what the provider charges stays  *)
(* within both caps as long as no image is POSTed a second time, but for what *)
(* the code takes for free; each row says what its job was charged, if the   *)
(* provider said so; and the counter of reserved money is exact.             *)
(***************************************************************************)
EXTENDS MediaJobs_proofs, Lemmas_proofs

-----------------------------------------------------------------------------
(* Sums                                                                     *)

\* g gives every subset of S the sum of f over it.
Sums(f, S, g) ==
    /\ g \in [SUBSET S -> Int]
    /\ g[{}] = 0
    /\ \A s \in SUBSET S : \A x \in s : g[s] = f[x] + g[s \ {x}]

\* The sum over the subsets of a finite set exists: one member more adds what f
\* gives it, whichever members are taken first.
LEMMA SumsExist ==
    ASSUME NEW S, IsFiniteSet(S), NEW f, \A x \in S : f[x] \in Int
    PROVE  \E g : Sums(f, S, g)
<1> DEFINE T == {s \in SUBSET S : \E g : Sums(f, s, g)}
<1>1. {} \in T
  <2>1. Sums(f, {}, [s \in SUBSET {} |-> 0])
    BY DEF Sums
  <2>2. QED
    BY <2>1
<1>2. ASSUME NEW s \in SUBSET S, NEW x \in S \ s, s \in T PROVE s \cup {x} \in T
  <2>1. PICK g : Sums(f, s, g)
    BY <1>2
  <2>2. /\ g \in [SUBSET s -> Int] /\ g[{}] = 0
        /\ \A t \in SUBSET s : \A y \in t : g[t] = f[y] + g[t \ {y}]
    BY <2>1 DEF Sums
  <2> DEFINE h == [t \in SUBSET (s \cup {x}) |-> IF x \in t THEN f[x] + g[t \ {x}] ELSE g[t]]
  <2>3. \A t \in SUBSET (s \cup {x}) : t \ {x} \in SUBSET s /\ (x \notin t => t \in SUBSET s)
    OBVIOUS
  <2>4. h \in [SUBSET (s \cup {x}) -> Int]
    BY <2>2, <2>3
  <2>5. h[{}] = 0
    BY <2>2
  <2>6. ASSUME NEW t \in SUBSET (s \cup {x}), NEW y \in t PROVE h[t] = f[y] + h[t \ {y}]
    <3>1. t \ {y} \in SUBSET (s \cup {x})
      OBVIOUS
    <3>2. CASE y = x
      BY <2>3, <3>1, <3>2
    <3>3. CASE y # x /\ x \in t
      <4>1. h[t] = f[x] + g[t \ {x}] /\ h[t \ {y}] = f[x] + g[(t \ {y}) \ {x}]
        BY <3>1, <3>3
      <4>2. (t \ {y}) \ {x} = (t \ {x}) \ {y} /\ t \ {x} \in SUBSET s /\ y \in t \ {x}
        BY <2>3, <3>3
      <4>3. g[t \ {x}] = f[y] + g[(t \ {y}) \ {x}]
        <5>1. g[t \ {x}] = f[y] + g[(t \ {x}) \ {y}]
          BY <2>2, <4>2, Zenon
        <5>2. QED
          BY <4>2, <5>1, Zenon
      <4>4. f[x] \in Int /\ f[y] \in Int /\ g[(t \ {y}) \ {x}] \in Int
        <5>1. (t \ {y}) \ {x} \in SUBSET s /\ y \in S
          OBVIOUS
        <5>2. QED
          BY <2>2, <5>1
      <4>5. QED
        BY <4>1, <4>3, <4>4
    <3>4. CASE y # x /\ x \notin t
      <4>1. t \in SUBSET s /\ h[t] = g[t] /\ h[t \ {y}] = g[t \ {y}]
        BY <3>1, <3>4
      <4>2. QED
        BY <2>2, <4>1
    <3>5. QED
      BY <3>2, <3>3, <3>4
  <2>7. Sums(f, s \cup {x}, h)
    <3> HIDE DEF h
    <3>1. QED
      BY <2>4, <2>5, <2>6 DEF Sums
  <2>8. QED
    BY <2>7
<1>3. SUBSET S \subseteq T
  <2> HIDE DEF T
  <2>1. QED
    BY <1>1, <1>2, SubsetInduction
<1>4. S \in T
  BY <1>3
<1>5. QED
  BY <1>4

\* What Total computes, taking the members in the order of CHOOSE, is that sum.
LEMMA TotalIsSum ==
    ASSUME NEW S, IsFiniteSet(S), NEW f, NEW g, Sums(f, S, g)
    PROVE  Total(f, S) = g[S]
<1> DEFINE one(s) == CHOOSE x \in s : TRUE
           Solves(h) == h = [s \in SUBSET S |-> IF s = {} THEN 0 ELSE f[one(s)] + h[s \ {one(s)}]]
           total == CHOOSE h : Solves(h)
<1>1. Total(f, S) = total[S]
  BY DEF Total, MapThenSumSet, MapThenFoldSet
<1>2. \A s \in SUBSET S : s # {} => one(s) \in s /\ s \ {one(s)} \in SUBSET S
  <2>1. TAKE s \in SUBSET S
  <2>2. HAVE s # {}
  <2>3. PICK x \in s : TRUE
    BY <2>2
  <2>4. one(s) \in s
    BY <2>3, Zenon
  <2> HIDE DEF one
  <2>5. QED
    BY <2>4
<1> HIDE DEF one
<1>3. \A s \in SUBSET S : g[s] = IF s = {} THEN 0 ELSE f[one(s)] + g[s \ {one(s)}]
  BY <1>2 DEF Sums
<1>4. g = [s \in SUBSET S |-> g[s]]
  BY DEF Sums
<1>5. Solves(g)
  BY <1>3, <1>4
<1>6. Solves(total)
  <2> HIDE DEF Solves
  <2>1. QED
    BY <1>5
<1> HIDE DEF total
<1>7. \A s \in SUBSET S : total[s] = IF s = {} THEN 0 ELSE f[one(s)] + total[s \ {one(s)}]
  BY <1>6
<1> HIDE DEF Solves
<1>8. ASSUME NEW n \in Nat, \A s \in SUBSET S : Cardinality(s) = n => total[s] = g[s],
             NEW s \in SUBSET S, Cardinality(s) = n + 1
      PROVE  total[s] = g[s]
  <2>1. s # {}
    <3>1. Cardinality({}) = 0
      BY FS_EmptySet
    <3>2. n + 1 # 0
      OBVIOUS
    <3>3. QED
      BY <1>8, <3>1, <3>2, Zenon
  <2>2. one(s) \in s /\ s \ {one(s)} \in SUBSET S
    BY <1>2, <2>1
  <2>3. Cardinality(s \ {one(s)}) = n
    <3>1. IsFiniteSet(s)
      BY FS_Subset
    <3>2. Cardinality(s \ {one(s)}) = Cardinality(s) - 1
      BY <2>2, <3>1, FS_RemoveElement
    <3>3. QED
      BY <1>8, <3>2
  <2>4. total[s \ {one(s)}] = g[s \ {one(s)}]
    BY <1>8, <2>2, <2>3
  <2>5. QED
    BY <1>3, <1>7, <2>1, <2>4
<1> DEFINE N == {n \in Nat : \A s \in SUBSET S : Cardinality(s) = n => total[s] = g[s]}
<1>9. 0 \in N
  <2>1. \A s \in SUBSET S : Cardinality(s) = 0 => s = {}
    BY FS_Subset, FS_EmptySet
  <2>2. QED
    BY <1>3, <1>7, <2>1
<1>10. \A n \in Nat : n \in N => n + 1 \in N
  BY <1>8
<1>11. Nat \subseteq N
  <2> HIDE DEF N
  <2>1. QED
    BY <1>9, <1>10, SetInduction
<1>12. Cardinality(S) \in Nat
  BY FS_CardinalityType
<1>13. QED
  BY <1>1, <1>11, <1>12

-----------------------------------------------------------------------------

\* The laws of Total that the accounts need.
LEMMA TotalLaws ==
    ASSUME NEW S, IsFiniteSet(S), NEW f, \A x \in S : f[x] \in Int
    PROVE  /\ Total(f, {}) = 0
           /\ \A s \in SUBSET S : Total(f, s) \in Int
           /\ \A s \in SUBSET S : \A x \in S \ s : Total(f, s \cup {x}) = f[x] + Total(f, s)
           /\ \A s \in SUBSET S : \A x \in s : Total(f, s) = f[x] + Total(f, s \ {x})
<1>1. PICK g : Sums(f, S, g)
  BY SumsExist
<1>2. /\ g \in [SUBSET S -> Int] /\ g[{}] = 0
      /\ \A s \in SUBSET S : \A x \in s : g[s] = f[x] + g[s \ {x}]
  BY <1>1 DEF Sums
<1>3. \A s \in SUBSET S : Total(f, s) = g[s]
  <2>1. TAKE s \in SUBSET S
  <2>2. IsFiniteSet(s)
    BY FS_Subset
  <2> DEFINE h == [t \in SUBSET s |-> g[t]]
  <2>3. \A t \in SUBSET s : t \in SUBSET S /\ \A x \in t : t \ {x} \in SUBSET s
    OBVIOUS
  <2>4. h \in [SUBSET s -> Int] /\ h[{}] = 0
    BY <1>2, <2>3
  <2>5. \A t \in SUBSET s : \A x \in t : h[t] = f[x] + h[t \ {x}]
    BY <1>2, <2>3
  <2>6. Sums(f, s, h) /\ h[s] = g[s]
    <3>1. h[s] = g[s]
      OBVIOUS
    <3> HIDE DEF h
    <3>2. QED
      BY <2>4, <2>5, <3>1 DEF Sums
  <2> HIDE DEF h
  <2>7. QED
    BY <2>2, <2>6, TotalIsSum
<1>4. ASSUME NEW s \in SUBSET S, NEW x \in s PROVE Total(f, s) = f[x] + Total(f, s \ {x})
  <2>1. s \ {x} \in SUBSET S
    OBVIOUS
  <2>2. QED
    BY <1>2, <1>3, <2>1
<1>5. ASSUME NEW s \in SUBSET S, NEW x \in S \ s PROVE Total(f, s \cup {x}) = f[x] + Total(f, s)
  <2>1. s \cup {x} \in SUBSET S /\ x \in s \cup {x} /\ (s \cup {x}) \ {x} = s
    OBVIOUS
  <2>2. QED
    BY <1>4, <2>1
<1>6. {} \in SUBSET S
  OBVIOUS
<1>7. QED
  BY <1>2, <1>3, <1>4, <1>5, <1>6

\* Amounts that are no larger add up to no more.
LEMMA TotalMonotone ==
    ASSUME NEW S, IsFiniteSet(S), NEW f, NEW g,
           \A x \in S : f[x] \in Int /\ g[x] \in Int /\ f[x] <= g[x]
    PROVE  Total(f, S) <= Total(g, S)
<1> DEFINE T == {s \in SUBSET S : Total(f, s) <= Total(g, s)}
<1>1. {} \in T
  BY TotalLaws
<1>2. ASSUME NEW s \in SUBSET S, NEW x \in S \ s, s \in T PROVE s \cup {x} \in T
  <2>1. /\ Total(f, s) \in Int /\ Total(f, s \cup {x}) = f[x] + Total(f, s)
        /\ Total(g, s) \in Int /\ Total(g, s \cup {x}) = g[x] + Total(g, s)
    BY TotalLaws
  <2>2. f[x] \in Int /\ g[x] \in Int /\ f[x] <= g[x] /\ Total(f, s) <= Total(g, s)
    BY <1>2
  <2>3. QED
    BY <2>1, <2>2
<1>3. SUBSET S \subseteq T
  <2> HIDE DEF T
  <2>1. QED
    BY <1>1, <1>2, SubsetInduction
<1>4. QED
  BY <1>3

\* The same amounts add up to the same.
LEMMA TotalSame ==
    ASSUME NEW S, IsFiniteSet(S), NEW f, NEW g, \A x \in S : f[x] \in Int /\ g[x] = f[x]
    PROVE  Total(f, S) = Total(g, S)
<1>1. Total(f, S) <= Total(g, S) /\ Total(g, S) <= Total(f, S)
  BY TotalMonotone
<1>2. Total(f, S) \in Int /\ Total(g, S) \in Int
  BY TotalLaws
<1>3. QED
  BY <1>1, <1>2

\* What is not negative does not add up to less than nothing.
LEMMA TotalNat ==
    ASSUME NEW S, IsFiniteSet(S), NEW f, \A x \in S : f[x] \in Nat
    PROVE  Total(f, S) \in Nat
<1> DEFINE T == {s \in SUBSET S : Total(f, s) \in Nat}
<1>1. {} \in T
  BY TotalLaws
<1>2. ASSUME NEW s \in SUBSET S, NEW x \in S \ s, s \in T PROVE s \cup {x} \in T
  <2>1. Total(f, s \cup {x}) = f[x] + Total(f, s)
    BY TotalLaws
  <2>2. QED
    BY <1>2, <2>1
<1>3. SUBSET S \subseteq T
  <2> HIDE DEF T
  <2>1. QED
    BY <1>1, <1>2, SubsetInduction
<1>4. QED
  BY <1>3

\* One amount changes.
LEMMA TotalChange ==
    ASSUME NEW S, IsFiniteSet(S), NEW f, NEW g, NEW j \in S,
           \A x \in S : f[x] \in Int /\ g[x] \in Int, \A x \in S \ {j} : g[x] = f[x]
    PROVE  Total(g, S) = Total(f, S) - f[j] + g[j]
<1>1. IsFiniteSet(S \ {j})
  BY FS_RemoveElement
<1>2. Total(f, S \ {j}) = Total(g, S \ {j})
  BY <1>1, TotalSame
<1>3. /\ Total(f, S) = f[j] + Total(f, S \ {j})
      /\ Total(g, S) = g[j] + Total(g, S \ {j})
      /\ Total(f, S \ {j}) \in Int
  <2>1. S \in SUBSET S /\ S \ {j} \in SUBSET S
    OBVIOUS
  <2>2. QED
    BY <2>1, TotalLaws, SMTT(30)
<1>4. f[j] \in Int /\ g[j] \in Int
  OBVIOUS
<1>5. QED
  BY <1>2, <1>3, <1>4
-----------------------------------------------------------------------------
(* The inductive invariant                                                  *)

\* The amounts.
Amounts ==
    /\ spent \in Nat /\ reserved \in Int
    /\ floor \in [Tasks -> Nat]
    /\ charged \in [Jobs -> Nat]

\* What the code takes a job to cost, once its end is known.
Price(j) ==
    IF remote[j] = "completed" THEN CostOf(j, quoted[j])
    ELSE IF remote[j] = "failed" THEN quoted[j] ELSE 0

\* A job that was POSTed at most once: until it is known how it ended nothing was
\* quoted, and its estimate stays reserved once it was sent; after that, the row and
\* the budget say its price as soon as they say anything.
Purse(j) ==
    /\ charged[j] <= Estimate[j] /\ quoted[j] \in {0, charged[j]}
    /\ posts[j] = 0 => remote[j] = "none" /\ charged[j] = 0
    /\ posts[j] = 1 /\ ~Known(j) => hold[j] = "reserved"
    /\ ~Known(j) => /\ quoted[j] = 0 /\ row[j].cost = 0
                    /\ row[j].status \notin Finished
                    /\ hold[j] \notin {"reconciled", "released"}
    /\ row[j].cost \in {0, Price(j)}
    /\ row[j].status \in Finished => row[j].cost = Price(j)
    /\ row[j].status = "completed" => remote[j] = "completed"
    /\ Price(j) > 0 => AlreadyBacked(j)
    /\ hold[j] = "reconciled" => Price(j) > 0

\* What a task at work on such a job relies on.
Payer(t) ==
    LET j == Job(t)
    IN  /\ task[t].pc \in {"slot", "claim", "post"} /\ posts[j] = 0 => AlreadyBacked(j)
        /\ task[t].pc \in {"drop", "fail"} => remote[j] = "nothing"
        /\ task[t].pc = "store" => remote[j] = "completed"
        /\ task[t].pc \in {"store", "settle", "resettle"} => Known(j) /\ task[t].bill = Price(j)
        /\ task[t].pc = "heard" => remote[j] \in {"completed", "failed"}
        /\ task[t].pc = "sent" => posts[j] = 1
        /\ task[t].pc = "sent" /\ j \in Images => remote[j] = "none" /\ charged[j] = 0

Working(t) == task[t].pc # "idle" /\ posts[Job(t)] < 2

\* One task at a time waits for the answer to the one POST of an image.
OneSender ==
    \A t, u \in Tasks :
        /\ Job(t) \in Images /\ Job(u) = Job(t) /\ posts[Job(t)] < 2
        /\ task[t].pc = "sent" /\ task[u].pc = "sent"
        => u = t

\* An image has no id at the provider, and is never waited for.
ImagesAtOnce ==
    /\ \A j \in Images : ~row[j].id
    /\ \A t \in Tasks : Job(t) \in Images =>
          task[t].pc \notin {"save", "lost", "reopen", "polling", "note", "heard"}

Money ==
    /\ Amounts
    /\ \A j \in Jobs : posts[j] < 2 => Purse(j)
    /\ \A t \in Tasks : Working(t) => Payer(t)
    /\ OneSender
    /\ ImagesAtOnce

-----------------------------------------------------------------------------
(* What a step changes                                                      *)

\* Task t is at pc for job j with a bill, and the others are where they were.
Turned(t, pc, j, bill) ==
    /\ task'[t].pc = pc /\ task'[t].job = j /\ task'[t].bill = bill
    /\ \A u \in Tasks \ {t} : task'[u] = task[u]

\* Which jobs a step changes when one task is turned.
LEMMA Turns ==
    ASSUME task \in TaskType, NEW t \in Tasks
    PROVE  /\ \A pc \in Steps : Go(t, pc) => Turned(t, pc, Job(t), task[t].bill)
           /\ \A pc \in Steps, j \in Jobs, by \in {"node", "check"} :
                 Begin(t, j, pc, by) => Turned(t, pc, j, 0)
           /\ Return(t) => Turned(t, "idle", NoJob, 0)
           /\ Wait(t) => Turned(t, "await", Job(t), 0)
<1>1. \A pc \in Steps : Go(t, pc) => Turned(t, pc, Job(t), task[t].bill)
  BY DEF TaskType, Go, Turned, Job
<1>2. \A pc \in Steps, j \in Jobs, by \in {"node", "check"} :
         Begin(t, j, pc, by) => Turned(t, pc, j, 0)
  BY DEF TaskType, Begin, Turned, Idle
<1>3. Return(t) => Turned(t, "idle", NoJob, 0)
  BY DEF TaskType, Return, Turned, Idle
<1>4. Wait(t) => Turned(t, "await", Job(t), 0)
  BY DEF TaskType, Wait, Turned, Job
<1>5. QED
  BY <1>1, <1>2, <1>3, <1>4

\* The row of job j says status and cost now, and the others what they said.
Priced(j, status, id, cost) ==
    /\ row'[j].status = status /\ row'[j].id = id /\ row'[j].cost = cost
    /\ \A k \in Jobs \ {j} : row'[k] = row[k]

\* What a task may pay for a job it has claimed.
LEMMA Prices ==
    ASSUME row \in RowType, NEW j \in Jobs
    PROVE  /\ \A status \in Statuses : SetStatus(j, status) => Priced(j, status, row[j].id, row[j].cost)
           /\ \A status \in Statuses, cost \in Nat :
                 Finish(j, status, cost) => Priced(j, status, row[j].id, cost)
           /\ row' = [row EXCEPT ![j].id = TRUE, ![j].status = "submitted"]
              => Priced(j, "submitted", TRUE, row[j].cost)
<1>1. \A status \in Statuses : SetStatus(j, status) => Priced(j, status, row[j].id, row[j].cost)
  BY DEF RowType, SetStatus, Priced
<1>2. \A status \in Statuses, cost \in Nat :
         Finish(j, status, cost) => Priced(j, status, row[j].id, cost)
  BY DEF RowType, Finish, Priced
<1>3. row' = [row EXCEPT ![j].id = TRUE, ![j].status = "submitted"]
      => Priced(j, "submitted", TRUE, row[j].cost)
  BY DEF RowType, Priced
<1>4. QED
  BY <1>1, <1>2, <1>3

\* A step changes nothing of job k.
Untouched(k) ==
    /\ posts'[k] = posts[k] /\ remote'[k] = remote[k]
    /\ charged'[k] = charged[k] /\ quoted'[k] = quoted[k]
    /\ hold'[k] = hold[k] /\ row'[k] = row[k]

\* What a step may do to job j under the feet of the tasks that work on it: POST it,
\* learn its end, and let its money go once it was sent.
Fair(j) ==
    /\ posts[j] \in Nat /\ posts'[j] \in Nat /\ posts[j] <= posts'[j]
    /\ Known(j) /\ posts'[j] < 2 => remote'[j] = remote[j] /\ quoted'[j] = quoted[j]
    /\ AlreadyBacked(j) /\ posts[j] = 0 => AlreadyBacked(j)'

\* The tasks that a step leaves alone owe what they owed.
LEMMA OtherPayers ==
    ASSUME Money, NEW u \in Tasks, task'[u] = task[u],
           Untouched(Job(u)) \/ Fair(Job(u)),
           task[u].pc = "sent" /\ Job(u) \in Images /\ posts'[Job(u)] < 2
               => remote'[Job(u)] = remote[Job(u)] /\ charged'[Job(u)] = charged[Job(u)],
           Working(u)'
    PROVE  Payer(u)'
<1>1. Job(u)' = Job(u)
  BY DEF Job
<1>2. Working(u)
  BY <1>1 DEF Working, Untouched, Fair
<1>3. Payer(u)
  BY <1>2 DEF Money
<1>4. CASE Untouched(Job(u))
  BY <1>1, <1>3, <1>4 DEF Payer, Untouched, AlreadyBacked, Known, Price, CostOf
<1>5. CASE Fair(Job(u))
  BY <1>1, <1>2, <1>3, <1>5 DEF Payer, Fair, AlreadyBacked, Known, Working, Price, CostOf
<1>6. QED
  BY <1>4, <1>5

\* No other task than t waits for the answer to a POST of job j.
Alone(t, j) == \A u \in Tasks \ {t} : ~(task[u].pc = "sent" /\ Job(u) = j)

\* A step of task t that touches job j and leaves t at pc for job i.
LEMMA TaskPays ==
    ASSUME IInv, IInv', Money, NEW t \in Tasks, NEW j \in Jobs, NEW pc, NEW i, NEW bill,
           Turned(t, pc, i, bill), Amounts',
           \A k \in Jobs \ {j} : Untouched(k), Fair(j),
           posts'[j] < 2 => Purse(j)',
           pc # "idle" /\ posts'[i] < 2 => Payer(t)',
           posts'[j] < 2 /\ j \in Images =>
               (remote'[j] = remote[j] /\ charged'[j] = charged[j]) \/ Alone(t, j),
           pc = "sent" => i = j /\ (j \in Images /\ posts'[j] < 2 => Alone(t, j)),
           j \in Images => ~row'[j].id,
           i \in Images => pc \notin {"save", "lost", "reopen", "polling", "note", "heard"}
    PROVE  Money'
<1>1. \A k \in Jobs : posts'[k] < 2 => Purse(k)'
  <2>1. ASSUME NEW k \in Jobs \ {j}, posts'[k] < 2 PROVE Purse(k)'
    <3>1. Untouched(k) /\ Purse(k)
      BY <2>1 DEF Untouched, Money
    <3>2. QED
      BY <3>1 DEF Untouched, Purse, Known, AlreadyBacked, Price, CostOf
  <2>2. QED
    BY <2>1
<1>2. \A u \in Tasks \ {t} : task'[u] = task[u] /\ Job(u)' = Job(u)
  BY DEF Turned, Job
<1>3. task'[t].pc = pc /\ Job(t)' = i
  BY DEF Turned, Job
<1>4. \A k \in Jobs : posts'[k] < 2 => posts[k] < 2
  BY DEF Untouched, Fair
<1>5. \A u \in Tasks : task[u].pc # "idle" => Job(u) \in Jobs
  BY DEF IInv, Types, Job
<1>6. ASSUME NEW u \in Tasks, Working(u)' PROVE Payer(u)'
  <2>1. CASE u = t
    BY <1>3, <1>6, <2>1 DEF Working
  <2>2. CASE u # t
    <3>1. task'[u] = task[u] /\ Job(u) \in Jobs
      BY <1>2, <1>5, <1>6, <2>2 DEF Working
    <3>2. Untouched(Job(u)) \/ Fair(Job(u))
      BY <3>1
    <3>3. ASSUME task[u].pc = "sent", Job(u) \in Images, posts'[Job(u)] < 2
          PROVE  remote'[Job(u)] = remote[Job(u)] /\ charged'[Job(u)] = charged[Job(u)]
      BY <2>2, <3>1, <3>3 DEF Untouched, Alone
    <3>4. QED
      BY <1>6, <3>1, <3>2, <3>3, OtherPayers
  <2>3. QED
    BY <2>1, <2>2
<1>7. OneSender'
  <2>1. SUFFICES ASSUME NEW u \in Tasks, NEW v \in Tasks, Job(u)' \in Images, Job(v)' = Job(u)',
                        posts'[Job(u)'] < 2, task'[u].pc = "sent", task'[v].pc = "sent"
                 PROVE  v = u
    BY DEF OneSender, Images
  <2>2. CASE u # t /\ v # t
    <3>1. Job(u) \in Images /\ Job(v) = Job(u) /\ task[u].pc = "sent" /\ task[v].pc = "sent"
      BY <1>2, <2>1, <2>2 DEF Images
    <3>2. posts[Job(u)] < 2
      BY <1>2, <1>4, <2>1, <2>2, <3>1 DEF Images
    <3>3. QED
      BY <3>1, <3>2 DEF Money, OneSender
  <2>3. CASE u = t /\ v # t
    BY <1>2, <1>3, <2>1, <2>3 DEF Alone, Images
  <2>4. CASE v = t /\ u # t
    BY <1>2, <1>3, <2>1, <2>4 DEF Alone, Images
  <2>5. QED
    BY <2>2, <2>3, <2>4
<1>8. ImagesAtOnce'
  <2>1. ASSUME NEW k \in Jobs, k \in Images PROVE ~row'[k].id
    <3>1. k # j => row'[k] = row[k]
      BY DEF Untouched
    <3>2. QED
      BY <2>1, <3>1 DEF Money, ImagesAtOnce
  <2>2. ASSUME NEW u \in Tasks, Job(u)' \in Images
        PROVE  task'[u].pc \notin {"save", "lost", "reopen", "polling", "note", "heard"}
    <3>1. CASE u = t
      BY <1>3, <2>2, <3>1 DEF Images
    <3>2. CASE u # t
      BY <1>2, <2>2, <3>2 DEF Money, ImagesAtOnce, Images
    <3>3. QED
      BY <3>1, <3>2
  <2>3. QED
    BY <2>1, <2>2 DEF ImagesAtOnce, Images
<1>9. QED
  BY <1>1, <1>6, <1>7, <1>8 DEF Money

\* A step of the provider or of a route, which moves no task, on job j.
LEMMA EventPays ==
    ASSUME IInv, IInv', Money, UNCHANGED <<task, spent, reserved, floor>>, NEW j \in Jobs,
           charged' \in [Jobs -> Nat],
           \A k \in Jobs \ {j} : Untouched(k), Fair(j),
           posts'[j] < 2 => Purse(j)',
           (remote'[j] = remote[j] /\ charged'[j] = charged[j]) \/ j \notin Images,
           row'[j].id = row[j].id
    PROVE  Money'
<1>1. \A k \in Jobs : posts'[k] < 2 => Purse(k)'
  <2>1. ASSUME NEW k \in Jobs \ {j}, posts'[k] < 2 PROVE Purse(k)'
    <3>1. Untouched(k) /\ Purse(k)
      BY <2>1 DEF Untouched, Money
    <3>2. QED
      BY <3>1 DEF Untouched, Purse, Known, AlreadyBacked, Price, CostOf
  <2>2. QED
    BY <2>1
<1>2. \A u \in Tasks : task'[u] = task[u] /\ Job(u)' = Job(u)
  BY DEF Job
<1>4. \A k \in Jobs : posts'[k] < 2 => posts[k] < 2
  BY DEF Untouched, Fair
<1>5. \A u \in Tasks : task[u].pc # "idle" => Job(u) \in Jobs
  BY DEF IInv, Types, Job
<1>6. ASSUME NEW u \in Tasks, Working(u)' PROVE Payer(u)'
  <2>1. task'[u] = task[u] /\ Job(u) \in Jobs
    BY <1>2, <1>5, <1>6 DEF Working
  <2>2. Untouched(Job(u)) \/ Fair(Job(u))
    BY <2>1
  <2>3. Job(u) \in Images =>
            remote'[Job(u)] = remote[Job(u)] /\ charged'[Job(u)] = charged[Job(u)]
    BY <2>1 DEF Untouched
  <2>4. QED
    BY <1>6, <2>1, <2>2, <2>3, OtherPayers
<1>7. OneSender'
  BY <1>2, <1>4 DEF Money, OneSender, Images
<1>8. ImagesAtOnce'
  BY <1>2 DEF Money, ImagesAtOnce, Images, Untouched
<1>9. Amounts'
  BY DEF Money, Amounts
<1>10. QED
  BY <1>1, <1>6, <1>7, <1>8, <1>9 DEF Money

\* A job whose row alone was written.
LEMMA RowPurse ==
    ASSUME NEW j \in Jobs, Purse(j), NEW status, NEW id, NEW cost, Priced(j, status, id, cost),
           UNCHANGED <<posts[j], remote[j], charged[j], quoted[j], hold[j]>>,
           \/ cost = row[j].cost /\ status \notin Finished
           \/ cost = Price(j) /\ Known(j) /\ (status = "completed" => remote[j] = "completed")
    PROVE  Purse(j)'
<1>1. Price(j)' = Price(j)
  BY DEF Price, CostOf
<1>2. QED
  BY <1>1 DEF Purse, Priced, Known, AlreadyBacked, Finished

-----------------------------------------------------------------------------
(* The actions                                                              *)

\* Nothing is owed before the first POST.
LEMMA InitPays == Init => Money
<1> SUFFICES ASSUME Init PROVE Money
  OBVIOUS
<1>1. Amounts
  BY DEF Init, BudgetInit, Amounts
<1>2. ASSUME NEW j \in Jobs PROVE Purse(j) /\ ~row[j].id
  <2>1. /\ charged[j] = 0 /\ quoted[j] = 0 /\ posts[j] = 0 /\ remote[j] = "none" /\ hold[j] = "none"
        /\ row[j] = [status |-> "absent", id |-> FALSE, cost |-> 0]
    BY DEF Init, BudgetInit
  <2>2. Estimate[j] \in Nat
    BY BudgetAssumption
  <2>3. QED
    BY <2>1, <2>2 DEF Purse, Known, Finished, AlreadyBacked, Price
<1>3. \A t \in Tasks : task[t].pc = "idle"
  BY DEF Init, Idle
<1>4. QED
  BY <1>1, <1>2, <1>3 DEF Money, Working, OneSender, ImagesAtOnce, Images

\* What a row may be given: the cost it had, or the price of a job that ended.
Sound(j, status, cost) ==
    posts[j] < 2 =>
        \/ cost = row[j].cost /\ status \notin Finished
        \/ cost = Price(j) /\ Known(j) /\ (status = "completed" => remote[j] = "completed")

\* A step that writes no more than the row of job j, and moves task t.
LEMMA RowTurn ==
    ASSUME IInv, IInv', Money, NEW t \in Tasks, NEW j \in Jobs,
           NEW pc, pc # "sent", NEW bill, Turned(t, pc, IF pc = "idle" THEN NoJob ELSE j, bill),
           NEW status, NEW id, NEW cost, Priced(j, status, id, cost),
           UNCHANGED <<hold, spent, reserved, floor, posts, remote, charged, quoted>>,
           Sound(j, status, cost),
           pc # "idle" /\ posts[j] < 2 => Payer(t)',
           j \in Images => ~id /\ pc \notin {"save", "lost", "reopen", "polling", "note", "heard"}
    PROVE  Money'
<1>1. Amounts'
  BY DEF Money, Amounts
<1>2. (\A k \in Jobs \ {j} : Untouched(k)) /\ Fair(j)
  BY DEF Untouched, Fair, Priced, IInv, Types, AlreadyBacked
<1>3. posts'[j] < 2 => Purse(j)'
  BY RowPurse DEF Money, Sound
<1>4. NoJob \notin Images
  BY MediaAssumption DEF Images
<1>5. row'[j].id = id
  BY DEF Priced
<1>6. QED
  BY <1>1, <1>2, <1>3, <1>4, <1>5, TaskPays

\* A step that moves task t, and may read the committed spend.
LEMMA QuietTurn ==
    ASSUME IInv, IInv', Money, NEW t \in Tasks, NEW j \in Jobs,
           NEW pc, pc # "sent", NEW bill, Turned(t, pc, IF pc = "idle" THEN NoJob ELSE j, bill),
           UNCHANGED <<hold, spent, reserved, row, posts, remote, charged, quoted>>,
           floor' \in [Tasks -> Nat],
           pc # "idle" /\ posts[j] < 2 => Payer(t)',
           j \in Images => pc \notin {"save", "lost", "reopen", "polling", "note", "heard"}
    PROVE  Money'
<1>1. Amounts'
  BY DEF Money, Amounts
<1>2. (\A k \in Jobs \ {j} : Untouched(k)) /\ Fair(j)
  BY DEF Untouched, Fair, IInv, Types, AlreadyBacked
<1>3. posts'[j] < 2 => Purse(j)'
  BY DEF Money, Purse, Known, AlreadyBacked, Price, CostOf
<1>4. NoJob \notin Images
  BY MediaAssumption DEF Images
<1>5. j \in Images => ~row'[j].id
  BY DEF Money, ImagesAtOnce
<1>6. QED
  BY <1>1, <1>2, <1>3, <1>4, <1>5, TaskPays

\* The sum of the costs on the rows.
LEMMA CommittedIsNat == IInv => Committed \in Nat
<1> SUFFICES ASSUME IInv PROVE Committed \in Nat
  OBVIOUS
<1> DEFINE costs == [j \in Jobs |-> row[j].cost]
<1>1. \A j \in Jobs : costs[j] \in Nat
  BY DEF IInv, Types, RowType
<1> HIDE DEF costs
<1>2. Total(costs, Jobs) \in Nat
  BY <1>1, TotalNat, BudgetAssumption
<1>3. QED
  BY <1>2 DEF Committed, costs

\* What a task at work on job j starts a step with.
Starts(t, j) ==
    /\ Job(t) = j /\ task[t].pc # "idle"
    /\ task \in TaskType /\ row \in RowType
    /\ hold \in [Jobs -> {"none", "reserved", "reconciled", "released"}]
    /\ posts[j] \in Nat /\ charged[j] \in Nat /\ quoted[j] \in Nat /\ task[t].bill \in Nat
    /\ Estimate[j] \in Nat /\ Estimate[j] > 0
    /\ remote[j] \in {"none", "rendering", "completed", "failed", "nothing"}
    /\ row[j].cost \in Nat /\ row[j].status \in Statuses /\ row[j].id \in BOOLEAN
    /\ posts[j] < 2 => Purse(j) /\ Payer(t)
    /\ j \in Videos => VideoRow(j) /\ VideoTask(t)
    /\ j \in Images <=> j \notin Videos
    /\ j \in Videos <=> Mode(t) = "video"
    /\ j \in Images <=> Mode(t) = "image"
    /\ j \in Images => /\ ~row[j].id
                       /\ task[t].pc \notin {"save", "lost", "reopen", "polling", "note", "heard"}

\* A job that begins owes nothing and has nothing held.
LEMMA Started ==
    ASSUME IInv, Money, NEW t \in Tasks, task[t].pc # "idle"
    PROVE  \E j \in Jobs : Starts(t, j)
<1>1. PICK j \in Jobs : Job(t) = j
  BY DEF IInv, Types, Job
<1>2. /\ row[j] \in [status : Statuses, id : BOOLEAN, cost : Nat]
      /\ task[t] \in [pc : Steps, job : Jobs \cup {NoJob}, by : {"node", "check"}, bill : Nat]
  BY DEF IInv, Types, RowType, TaskType
<1>3. Estimate[j] \in Nat /\ Estimate[j] > 0 /\ Modality[j] \in {"image", "video"}
  BY BudgetAssumption, MediaAssumption DEF Modalities
<1>4. posts[j] < 2 => Purse(j) /\ Payer(t)
  BY <1>1 DEF Money, Working
<1>5. /\ j \in Videos => VideoRow(j) /\ VideoTask(t)
      /\ j \in Images => /\ ~row[j].id
                         /\ task[t].pc \notin {"save", "lost", "reopen", "polling", "note", "heard"}
  BY <1>1 DEF IInv, OnVideo, At, Money, ImagesAtOnce
<1>6. /\ j \in Images <=> j \notin Videos
      /\ j \in Videos <=> Mode(t) = "video"
      /\ j \in Images <=> Mode(t) = "image"
  BY <1>1, <1>3 DEF Images, Videos, Mode
<1>7. /\ task \in TaskType /\ row \in RowType
      /\ hold \in [Jobs -> {"none", "reserved", "reconciled", "released"}]
      /\ posts[j] \in Nat /\ charged[j] \in Nat /\ quoted[j] \in Nat
      /\ remote[j] \in {"none", "rendering", "completed", "failed", "nothing"}
  BY DEF IInv, Types, Money, Amounts
<1>8. QED
  BY <1>1, <1>2, <1>3, <1>4, <1>5, <1>6, <1>7 DEF Starts

\* The steps that move a task and write nothing but the floor.
LEMMA QuietSteps ==
    ASSUME IInv, IInv', Money, NEW t \in Tasks, NEW j \in Jobs, Starts(t, j),
           BudgetInputs(t) \/ TakeSlot(t) \/ PostUnanswered(t) \/ VideoTaken(t) \/ BeginWait(t) \/ Poll(t)
    PROVE  Money'
<1> DEFINE bill == task[t].bill
<1>0. floor \in [Tasks -> Nat] /\ task \in TaskType
  BY DEF Money, Amounts, Starts
<1>1. CASE BudgetInputs(t)
  <2>1. Turned(t, "reserve", j, bill)
    BY <1>1, <1>0, Turns DEF BudgetInputs, Steps, Starts
  <2>2. floor' \in [Tasks -> Nat]
    BY <1>0, <1>1, CommittedIsNat DEF BudgetInputs
  <2>3. UNCHANGED <<hold, spent, reserved, row, posts, remote, charged, quoted>>
    BY <1>1 DEF BudgetInputs, budget
  <2>4. Payer(t)'
    BY <2>1 DEF Turned, Payer
  <2>5. QED
    BY <2>1, <2>2, <2>3, <2>4, QuietTurn
<1>2. CASE TakeSlot(t)
  <2>1. UNCHANGED <<hold, spent, reserved, row, posts, remote, charged, quoted, floor>>
    BY <1>2 DEF TakeSlot, budget, rest
  <2>2. CASE Return(t)
    <3>1. Turned(t, "idle", NoJob, 0)
      BY <1>0, <2>2, Turns
    <3>2. QED
      BY <1>0, <2>1, <3>1, QuietTurn
  <2>3. CASE Go(t, "claim")
    <3>1. Turned(t, "claim", j, bill)
      BY <1>0, <2>3, Turns DEF Steps, Starts
    <3>2. posts[j] < 2 => Payer(t)'
      BY <1>2, <2>1, <3>1 DEF Turned, Payer, Starts, TakeSlot, At, AlreadyBacked, Job
    <3>3. QED
      BY <1>0, <2>1, <3>1, <3>2, QuietTurn
  <2>4. QED
    BY <1>2, <2>2, <2>3 DEF TakeSlot
<1>3. CASE PostUnanswered(t) \/ VideoTaken(t)
  <2>1. UNCHANGED <<hold, spent, reserved, row, posts, remote, charged, quoted, floor>> /\ j \notin Images
    BY <1>3 DEF PostUnanswered, VideoTaken, budget, rest, Starts
  <2>2. ASSUME NEW pc \in {"lost", "save"}, Go(t, pc) PROVE Money'
    <3>1. Turned(t, pc, j, bill)
      BY <1>0, <2>2, Turns DEF Steps, Starts
    <3>2. Payer(t)'
      BY <2>2, <3>1 DEF Turned, Payer
    <3>3. QED
      BY <1>0, <2>1, <2>2, <3>1, <3>2, QuietTurn
  <2>3. QED
    BY <1>3, <2>2 DEF PostUnanswered, VideoTaken
<1>4. CASE BeginWait(t)
  <2>1. UNCHANGED <<hold, spent, reserved, row, posts, remote, charged, quoted, floor>>
    BY <1>4 DEF BeginWait, budget, rest
  <2>2. CASE Return(t)
    <3>1. Turned(t, "idle", NoJob, 0)
      BY <1>0, <2>2, Turns
    <3>2. QED
      BY <1>0, <2>1, <3>1, QuietTurn
  <2>3. CASE ~Return(t)
    <3>0. Go(t, "polling") /\ j \notin Images
      BY <1>4, <2>3 DEF BeginWait, Starts
    <3>1. Turned(t, "polling", j, bill)
      BY <1>0, <3>0, Turns DEF Steps, Starts
    <3>2. Payer(t)'
      BY <3>1 DEF Turned, Payer
    <3>3. QED
      BY <1>0, <2>1, <3>0, <3>1, <3>2, QuietTurn
  <2>4. QED
    BY <2>2, <2>3
<1>5. CASE Poll(t)
  <2>1. UNCHANGED <<hold, spent, reserved, row, posts, remote, charged, quoted, floor>>
    BY <1>5 DEF Poll, budget, rest
  <2>2. j \notin Images /\ remote[j] # "none"
    BY <1>5 DEF Poll, At, Starts, VideoTask
  <2> DEFINE pc == CASE remote[j] = "rendering" -> "note"
                     [] remote[j] = "nothing" -> "drop"
                     [] OTHER -> "heard"
  <2>3. /\ pc \in {"note", "drop", "heard"}
        /\ pc = "drop" => remote[j] = "nothing"
        /\ pc = "heard" => remote[j] \in {"completed", "failed"}
    BY <2>2 DEF Starts
  <2>4. Go(t, pc)
    BY <1>5 DEF Poll, Starts
  <2> HIDE DEF pc
  <2>5. Turned(t, pc, j, bill)
    BY <1>0, <2>3, <2>4, Turns DEF Steps, Starts
  <2>6. Payer(t)'
    BY <2>1, <2>3, <2>5 DEF Turned, Payer, Job
  <2>7. QED
    BY <1>0, <2>1, <2>2, <2>3, <2>5, <2>6, QuietTurn
<1>6. QED
  BY <1>1, <1>2, <1>3, <1>4, <1>5

\* The steps that write a row and move the task.
LEMMA RowSteps ==
    ASSUME IInv, IInv', Money, NEW t \in Tasks, NEW j \in Jobs, Starts(t, j),
           \/ Refuse(t) \/ Claim(t) \/ SaveId(t) \/ RecordUnknown(t) \/ Complete(t) \/ Fail(t)
           \/ Deadline(t) \/ NoteProgress(t) \/ Conclude(t) \/ Reopen(t) \/ Requeue(t)
    PROVE  Money'
<1> DEFINE bill == task[t].bill
<1>0. /\ floor \in [Tasks -> Nat] /\ task \in TaskType /\ row \in RowType
      /\ Job(t) = j /\ posts[j] \in Nat
  BY DEF Money, Amounts, Starts
<1>a. UNCHANGED <<hold, spent, reserved, floor, posts, remote, charged, quoted>>
  BY DEF Refuse, Claim, SaveId, RecordUnknown, Complete, Fail, Deadline, NoteProgress, Conclude,
         Reopen, Requeue, budget, rest
\* ... and return, with a status that says nothing of money.
<1>1. ASSUME Return(t), NEW status \in Statuses \ Finished, SetStatus(j, status) PROVE Money'
  <2>1. Turned(t, "idle", NoJob, 0) /\ Priced(j, status, row[j].id, row[j].cost)
    BY <1>0, <1>1, Turns, Prices
  <2>2. QED
    BY <1>1, <1>a, <2>1, RowTurn DEF Starts, Sound
<1>2. CASE Refuse(t) \/ RecordUnknown(t) \/ Deadline(t)
  BY <1>0, <1>1, <1>2 DEF Refuse, RecordUnknown, Deadline, Statuses, Finished
\* ... and go on, with such a status.
<1>3. ASSUME NEW pc \in {"post", "polling", "await", "inputs"}, Go(t, pc),
             NEW status \in Statuses \ Finished, SetStatus(j, status),
             j \in Images => pc # "polling",
             pc = "post" /\ posts[j] = 0 => AlreadyBacked(j)
      PROVE  Money'
  <2>1. Turned(t, pc, j, bill) /\ Priced(j, status, row[j].id, row[j].cost)
    BY <1>0, <1>3, Turns, Prices DEF Steps
  <2>2. Payer(t)'
    BY <1>a, <1>3, <2>1 DEF Turned, Payer, AlreadyBacked, Job
  <2>3. QED
    BY <1>3, <1>a, <2>1, <2>2, RowTurn DEF Starts, Sound
<1>4. CASE NoteProgress(t) \/ Reopen(t) \/ Requeue(t)
  BY <1>0, <1>3, <1>4 DEF NoteProgress, Reopen, Requeue, Statuses, Finished, Starts, At
<1>5. CASE Claim(t)
  <2>1. CASE row[j].status = "queued"
    <3>1. posts[j] = 0 => AlreadyBacked(j)
      BY <1>0, <1>5 DEF Claim, At, Starts, Payer
    <3>2. QED
      BY <1>0, <1>3, <1>5, <2>1, <3>1 DEF Claim, Statuses, Finished
  <2>2. CASE row[j].status # "queued" /\ Return(t)
    <3>1. Turned(t, "idle", NoJob, 0) /\ UNCHANGED row
      BY <1>0, <1>5, <2>2, Turns DEF Claim
    <3>2. QED
      BY <1>0, <1>a, <3>1, QuietTurn
  <2>3. CASE row[j].status # "queued" /\ Wait(t)
    <3>1. Turned(t, "await", j, 0) /\ UNCHANGED row
      BY <1>0, <1>5, <2>3, Turns DEF Claim
    <3>2. Payer(t)'
      BY <3>1 DEF Turned, Payer
    <3>3. QED
      BY <1>0, <1>a, <3>1, <3>2, QuietTurn
  <2>4. QED
    BY <1>0, <1>5, <2>1, <2>2, <2>3 DEF Claim
<1>6. CASE SaveId(t)
  <2>1. j \notin Images
    BY <1>6 DEF SaveId, At, Starts
  <2>2. Turned(t, "await", j, 0) /\ Priced(j, "submitted", TRUE, row[j].cost)
    BY <1>0, <1>6, Turns, Prices DEF SaveId
  <2>3. Payer(t)'
    BY <2>2 DEF Turned, Payer
  <2>4. QED
    BY <1>a, <2>1, <2>2, <2>3, RowTurn DEF Finished, Sound
<1>7. CASE Fail(t)
  <2>1. Turned(t, "idle", NoJob, 0) /\ Priced(j, "failed", row[j].id, row[j].cost)
    BY <1>0, <1>7, Turns, Prices DEF Fail, Statuses
  <2>2. posts[j] < 2 => row[j].cost = Price(j) /\ Known(j)
    BY <1>7 DEF Fail, At, Starts, Payer, Purse, Known, Price
  <2>3. QED
    BY <1>a, <2>1, <2>2, RowTurn DEF Starts, Sound
<1>8. ASSUME NEW status \in Finished, NEW cost \in Nat, Finish(j, status, cost),
             NEW b, Turned(t, "settle", j, b),
             posts[j] < 2 => /\ b = Price(j) /\ cost = Price(j) /\ Known(j)
                             /\ status = "completed" => remote[j] = "completed"
      PROVE  Money'
  <2>1. Priced(j, status, row[j].id, cost)
    BY <1>0, <1>8, Prices DEF Finished, Statuses
  <2>2. posts[j] < 2 => Payer(t)'
    BY <1>a, <1>8 DEF Turned, Payer, Job, Known, Price, CostOf
  <2>3. posts[j] < 2 => /\ cost = Price(j) /\ Known(j)
                        /\ status = "completed" => remote[j] = "completed"
    BY <1>8
  <2>4. Turned(t, "settle", IF "settle" = "idle" THEN NoJob ELSE j, b)
    BY <1>8
  <2>5. "settle" # "idle" /\ posts[j] < 2 => Payer(t)'
    BY <2>2
  <2>6. j \in Images =>
            ~row[j].id /\ "settle" \notin {"save", "lost", "reopen", "polling", "note", "heard"}
    BY DEF Starts
  <2>7. Sound(j, status, cost)
    BY <2>3 DEF Sound
  <2>8. "settle" # "sent"
    OBVIOUS
  <2>9. QED
    BY <1>a, <2>1, <2>4, <2>5, <2>6, <2>7, <2>8, RowTurn, ZenonT(60)
<1>9. CASE Complete(t)
  <2>1. Turned(t, "settle", j, bill) /\ Finish(j, "completed", bill) /\ bill \in Nat
    BY <1>0, <1>9, Turns DEF Complete, Steps, Starts
  <2>2. posts[j] < 2 => bill = Price(j) /\ Known(j) /\ remote[j] = "completed"
    BY <1>9 DEF Complete, At, Starts, Payer
  <2>3. QED
    BY <1>8, <2>1, <2>2 DEF Finished
<1>10. CASE Conclude(t)
  <2> DEFINE status == IF remote[j] = "completed" THEN "completed" ELSE "failed"
             cost == IF remote[j] = "completed" THEN CostOf(j, quoted[j]) ELSE quoted[j]
  <2>1. quoted[j] \in Nat /\ cost \in Nat /\ status \in Finished
    BY DEF Finished, Starts, CostOf, Money, Amounts
  <2>2. posts[j] < 2 => /\ Known(j) /\ cost = Price(j)
                        /\ status = "completed" => remote[j] = "completed"
    BY <1>10 DEF Conclude, At, Starts, Payer, Known, Price
  <2>3. Finish(j, status, cost)
    BY <1>0, <1>10 DEF Conclude
  <2>4. task' = [task EXCEPT ![t].pc = "settle", ![t].bill = cost]
    BY <1>0, <1>10 DEF Conclude
  <2> HIDE DEF status, cost
  <2>5. Turned(t, "settle", j, cost)
    BY <1>0, <2>1, <2>4 DEF TaskType, Turned, Job
  <2>6. QED
    BY <1>8, <2>1, <2>2, <2>3, <2>5
<1>11. QED
  BY <1>2, <1>4, <1>5, <1>6, <1>7, <1>9, <1>10

\* The scripts on one hash leave the amounts and the other hashes what they were.
LEMMA Scripts ==
    ASSUME hold \in [Jobs -> {"none", "reserved", "reconciled", "released"}],
           spent \in Nat, reserved \in Int, NEW j \in Jobs, NEW amount \in Nat,
           Reserve(j, amount) \/ Reconcile(j, amount) \/ Release(j)
    PROVE  /\ spent' \in Nat /\ reserved' \in Int
           /\ \A k \in Jobs \ {j} : hold'[k] = hold[k]
           /\ Reserve(j, amount) =>
                 hold'[j] = IF ~AlreadyBacked(j) /\ Fits(j, amount) THEN "reserved" ELSE hold[j]
           /\ Reconcile(j, amount) =>
                 hold'[j] = IF hold[j] = "none" THEN "none" ELSE "reconciled"
           /\ Release(j) => hold'[j] = IF hold[j] = "reserved" THEN "released" ELSE hold[j]
<1>0. Estimate[j] \in Nat
  BY BudgetAssumption
<1>1. CASE Reserve(j, amount)
  <2>1. CASE AlreadyBacked(j)
    BY <1>1, <2>1 DEF Reserve, budget, AlreadyBacked, Reconcile, Release
  <2>2. CASE ~AlreadyBacked(j) /\ Fits(j, amount)
    BY <1>0, <1>1, <2>2 DEF Reserve, Counted, AlreadyBacked, budget, Reconcile, Release
  <2>3. CASE ~AlreadyBacked(j) /\ ~Fits(j, amount)
    BY <1>1, <2>3 DEF Reserve, Counted, AlreadyBacked, budget, Reconcile, Release
  <2>4. QED
    BY <2>1, <2>2, <2>3
<1>2. CASE Reconcile(j, amount)
  BY <1>0, <1>2 DEF Reserve, Reconcile, Release, budget, AlreadyBacked, Counted
<1>3. CASE Release(j)
  BY <1>0, <1>3 DEF Reserve, Reconcile, Release, budget, AlreadyBacked, Counted
<1>4. QED
  BY <1>1, <1>2, <1>3

\* The steps that call a script of the budget.
LEMMA BudgetSteps ==
    ASSUME IInv, IInv', Money, NEW t \in Tasks, NEW j \in Jobs, Starts(t, j),
           ReserveEstimate(t) \/ DropReservation(t) \/ Settle(t)
    PROVE  Money'
<1> DEFINE bill == task[t].bill
<1>0. /\ floor \in [Tasks -> Nat] /\ task \in TaskType /\ Job(t) = j /\ posts[j] \in Nat
      /\ hold \in [Jobs -> {"none", "reserved", "reconciled", "released"}]
      /\ spent \in Nat /\ reserved \in Int /\ bill \in Nat /\ floor[t] \in Nat
  BY DEF Money, Amounts, Starts
<1>a. UNCHANGED <<row, posts, remote, charged, quoted>>
  BY DEF ReserveEstimate, DropReservation, Settle, rest
<1>b. j \in Images => ~row'[j].id
  BY <1>a DEF Starts
<1>p. Price(j)' = Price(j) /\ Price(j) \in Nat
  BY <1>a DEF Price, CostOf, Starts
\* What a step that ends at pc has to show.
<1>1. ASSUME NEW pc \in {"slot", "refused", "fail", "await", "idle"}, NEW b,
             Turned(t, pc, IF pc = "idle" THEN NoJob ELSE j, b),
             Amounts', \A k \in Jobs \ {j} : hold'[k] = hold[k],
             AlreadyBacked(j) /\ posts[j] = 0 => AlreadyBacked(j)',
             posts[j] < 2 => Purse(j)',
             posts[j] < 2 /\ pc # "idle" => Payer(t)'
      PROVE  Money'
  <2>1. (\A k \in Jobs \ {j} : Untouched(k)) /\ Fair(j)
    BY <1>0, <1>1, <1>a DEF Untouched, Fair
  <2>2. NoJob \notin Images
    BY MediaAssumption DEF Images
  <2> DEFINE i == IF pc = "idle" THEN NoJob ELSE j
  <2>3. pc # "idle" /\ posts'[i] < 2 => Payer(t)'
    BY <1>1, <1>a
  <2>4. posts'[j] < 2 => Purse(j)'
    BY <1>1, <1>a
  <2>5. pc # "sent" /\ pc \notin {"save", "lost", "reopen", "polling", "note", "heard"}
    BY <1>1
  <2>6. Turned(t, pc, i, b) /\ Amounts' /\ remote'[j] = remote[j] /\ charged'[j] = charged[j]
    BY <1>1, <1>a
  <2> HIDE DEF i
  <2>7. QED
    BY <1>b, <2>1, <2>3, <2>4, <2>5, <2>6, TaskPays
<1>2. CASE ReserveEstimate(t)
  <2> DEFINE pc == IF AlreadyBacked(j) \/ Fits(j, floor[t]) THEN "slot" ELSE "refused"
  <2>1. Reserve(j, floor[t]) /\ Go(t, pc) /\ floor' = [floor EXCEPT ![t] = 0]
    BY <1>0, <1>2 DEF ReserveEstimate
  <2>2. /\ spent' \in Nat /\ reserved' \in Int
        /\ \A k \in Jobs \ {j} : hold'[k] = hold[k]
        /\ hold'[j] = IF ~AlreadyBacked(j) /\ Fits(j, floor[t]) THEN "reserved" ELSE hold[j]
    BY <1>0, <2>1, Scripts
  <2>3. Turned(t, pc, j, bill)
    BY <1>0, <2>1, Turns DEF Steps
  <2>4. Amounts'
    BY <1>0, <1>a, <2>1, <2>2 DEF Amounts, Money
  <2>5. AlreadyBacked(j) => AlreadyBacked(j)'
    BY <2>2 DEF AlreadyBacked
  <2>6. posts[j] < 2 => Purse(j)'
    <3>1. SUFFICES ASSUME posts[j] < 2 PROVE Purse(j)'
      OBVIOUS
    <3>2. Purse(j)
      BY <3>1 DEF Starts
    <3>3. hold'[j] = hold[j] \/ (hold'[j] = "reserved" /\ ~AlreadyBacked(j))
      BY <2>2
    <3>4. QED
      BY <1>a, <1>p, <3>2, <3>3 DEF Purse, Known, AlreadyBacked
  <2>7. Payer(t)'
    <3>1. pc = "slot" => AlreadyBacked(j)'
      BY <2>2 DEF AlreadyBacked
    <3>2. task'[t].pc = pc /\ Job(t)' = j /\ pc \in {"slot", "refused"}
      BY <2>3 DEF Turned, Job
    <3> HIDE DEF pc
    <3>3. QED
      BY <3>1, <3>2 DEF Payer
  <2>8. pc \in {"slot", "refused"}
    OBVIOUS
  <2> HIDE DEF pc
  <2>9. QED
    BY <1>1, <2>2, <2>3, <2>4, <2>5, <2>6, <2>7, <2>8
\* What ended without a cost gives its money back.
<1>3. ASSUME Release(j), UNCHANGED floor, posts[j] < 2 => Known(j) /\ Price(j) = 0
      PROVE  /\ Amounts' /\ \A k \in Jobs \ {j} : hold'[k] = hold[k]
             /\ AlreadyBacked(j) /\ posts[j] = 0 => AlreadyBacked(j)'
             /\ posts[j] < 2 => Purse(j)'
  <2>1. /\ spent' \in Nat /\ reserved' \in Int
        /\ \A k \in Jobs \ {j} : hold'[k] = hold[k]
        /\ hold'[j] = IF hold[j] = "reserved" THEN "released" ELSE hold[j]
    BY <1>0, <1>3, Scripts
  <2>2. posts[j] < 2 => posts[j] # 0
    BY <1>3 DEF Starts, Purse, Known
  <2>3. posts[j] < 2 => Purse(j)'
    BY <1>3, <1>a, <1>p, <2>1 DEF Starts, Purse, Known, AlreadyBacked
  <2>4. QED
    BY <1>0, <1>3, <1>a, <2>1, <2>2, <2>3 DEF Amounts, Money
<1>4. CASE DropReservation(t)
  <2>1. Release(j) /\ Go(t, "fail") /\ UNCHANGED floor
    BY <1>0, <1>4 DEF DropReservation, rest
  <2>2. posts[j] < 2 => remote[j] = "nothing" /\ Known(j) /\ Price(j) = 0
    BY <1>4 DEF DropReservation, At, Starts, Payer, Known, Price
  <2>3. Turned(t, "fail", j, bill)
    BY <1>0, <2>1, Turns DEF Steps
  <2>4. posts[j] < 2 => Payer(t)'
    BY <1>a, <2>2, <2>3 DEF Turned, Payer, Job
  <2>5. Turned(t, "fail", IF "fail" = "idle" THEN NoJob ELSE j, bill)
    BY <2>3
  <2> HIDE DEF bill
  <2>6. QED
    BY <1>1, <1>3, <2>1, <2>2, <2>4, <2>5
<1>5. CASE Settle(t)
  <2>1. posts[j] < 2 => Known(j) /\ bill = Price(j)
    BY <1>5 DEF Settle, At, Starts, Payer
  <2>2. /\ Amounts' /\ \A k \in Jobs \ {j} : hold'[k] = hold[k]
        /\ AlreadyBacked(j) /\ posts[j] = 0 => AlreadyBacked(j)'
        /\ posts[j] < 2 => Purse(j)'
    <3>1. CASE bill > 0
      <4>1. Reconcile(j, bill) /\ UNCHANGED floor
        BY <1>0, <1>5, <3>1 DEF Settle, rest
      <4>2. /\ spent' \in Nat /\ reserved' \in Int
            /\ \A k \in Jobs \ {j} : hold'[k] = hold[k]
            /\ hold'[j] = IF hold[j] = "none" THEN "none" ELSE "reconciled"
        BY <1>0, <4>1, Scripts
      <4>3. posts[j] < 2 => Purse(j)'
        BY <1>a, <1>p, <2>1, <3>1, <4>2 DEF Starts, Purse, Known, AlreadyBacked
      <4>4. AlreadyBacked(j) => AlreadyBacked(j)'
        BY <4>2 DEF AlreadyBacked
      <4>5. QED
        BY <1>0, <1>a, <4>1, <4>2, <4>3, <4>4 DEF Amounts, Money
    <3>2. CASE bill = 0
      <4>1. Release(j) /\ UNCHANGED floor
        BY <1>0, <1>5, <3>2 DEF Settle, rest
      <4>2. posts[j] < 2 => Known(j) /\ Price(j) = 0
        BY <2>1, <3>2
      <4>3. QED
        BY <1>3, <4>1, <4>2
    <3>3. QED
      BY <1>0, <3>1, <3>2
  <2>3. CASE Wait(t)
    <3>1. Turned(t, "await", j, 0)
      BY <1>0, <2>3, Turns
    <3>2. Payer(t)'
      BY <3>1 DEF Turned, Payer
    <3>3. Turned(t, "await", IF "await" = "idle" THEN NoJob ELSE j, 0)
      BY <3>1
    <3>4. QED
      BY <1>1, <2>2, <3>2, <3>3
  <2>4. CASE Return(t)
    <3>1. Turned(t, "idle", IF "idle" = "idle" THEN NoJob ELSE j, 0)
      BY <1>0, <2>4, Turns
    <3>2. QED
      BY <1>1, <2>2, <3>1
  <2>5. QED
    BY <1>5, <2>3, <2>4 DEF Settle
<1>6. QED
  BY <1>2, <1>4, <1>5

\* The POST and its answers.
LEMMA PostSteps ==
    ASSUME IInv, IInv', Money, NEW t \in Tasks, NEW j \in Jobs, Starts(t, j),
           Post(t) \/ PostFails(t) \/ ImageMade(t)
    PROVE  Money'
<1> DEFINE bill == task[t].bill
<1>0. /\ floor \in [Tasks -> Nat] /\ task \in TaskType /\ Job(t) = j /\ posts[j] \in Nat
      /\ posts \in [Jobs -> Nat] /\ charged \in [Jobs -> Nat] /\ quoted \in [Jobs -> Nat]
      /\ remote \in [Jobs -> {"none", "rendering", "completed", "failed", "nothing"}]
  BY DEF Money, Amounts, Starts, IInv, Types
<1>a. UNCHANGED <<row, hold, spent, reserved, floor>>
  BY DEF Post, PostFails, ImageMade, budget
<1>b. j \in Images => ~row'[j].id
  BY <1>a DEF Starts
<1>1. CASE Post(t)
  <2>1. /\ posts'[j] = posts[j] + 1 /\ \A k \in Jobs \ {j} : posts'[k] = posts[k]
        /\ UNCHANGED <<remote, charged, quoted>> /\ Amounts'
    BY <1>0, <1>1, <1>a DEF Post, Money, Amounts
  <2>2. Turned(t, "sent", j, bill)
    BY <1>0, <1>1, Turns DEF Post, Steps
  <2>3. (\A k \in Jobs \ {j} : Untouched(k)) /\ Fair(j)
    BY <1>0, <1>a, <2>1 DEF Untouched, Fair, AlreadyBacked
  <2>4. posts'[j] < 2 => /\ posts[j] = 0 /\ Purse(j) /\ AlreadyBacked(j)
                         /\ remote[j] = "none" /\ charged[j] = 0
    BY <1>0, <1>1, <2>1 DEF Post, At, Starts, Payer, Purse
  <2>5. posts'[j] < 2 => Purse(j)'
    BY <1>a, <2>1, <2>4 DEF Purse, Known, AlreadyBacked, Price
  <2>6. posts'[j] < 2 => Payer(t)'
    BY <2>1, <2>2, <2>4 DEF Payer, Turned, Job
  <2>7. posts'[j] < 2 => Alone(t, j)
    BY <2>4 DEF Alone, Money, Working, Payer
  <2>8. QED
    BY <1>a, <1>b, <2>1, <2>2, <2>3, <2>5, <2>6, <2>7, TaskPays
<1>2. CASE PostFails(t)
  <2>1. PICK cost \in 0 .. Estimate[j] : Bill(t, cost)
    BY <1>0, <1>2 DEF PostFails
  <2>2. cost \in Nat /\ cost <= Estimate[j] /\ (cost > 0 => j \in Images)
    BY <1>0, <2>1 DEF Bill, Starts
  <2>3. /\ remote'[j] = "nothing" /\ \A k \in Jobs \ {j} : remote'[k] = remote[k]
        /\ charged'[j] = charged[j] + cost /\ \A k \in Jobs \ {j} : charged'[k] = charged[k]
        /\ charged' \in [Jobs -> Nat] /\ UNCHANGED <<posts, quoted>>
    BY <1>0, <1>2, <2>1, <2>2 DEF PostFails, Bill
  <2>4. Turned(t, "drop", j, bill)
    BY <1>0, <1>2, Turns DEF PostFails, Steps
  <2>5. posts[j] < 2 => posts[j] = 1 /\ remote[j] = "none" /\ ~Known(j) /\ Purse(j)
    BY <1>2 DEF PostFails, At, Starts, Payer, Known
  <2>6. (\A k \in Jobs \ {j} : Untouched(k)) /\ Fair(j)
    BY <1>0, <1>a, <2>3, <2>5 DEF Untouched, Fair, AlreadyBacked
  <2>7. posts'[j] < 2 => Purse(j)'
    <3>1. posts[j] < 2 => charged'[j] <= Estimate[j]
      <4>1. j \in Images /\ posts[j] < 2 => charged[j] = 0
        BY <1>2 DEF PostFails, At, Starts, Payer
      <4>2. QED
        BY <1>0, <2>2, <2>3, <2>5, <4>1 DEF Purse
    <3>2. QED
      BY <1>a, <2>3, <2>5, <3>1 DEF Purse, Known, AlreadyBacked, Price
  <2>8. Payer(t)'
    BY <2>3, <2>4 DEF Payer, Turned, Job
  <2>9. posts'[j] < 2 /\ j \in Images => Alone(t, j)
    BY <1>0, <1>2, <2>3 DEF Alone, Money, OneSender, PostFails, At
  <2>10. Amounts'
    BY <1>a, <2>3 DEF Money, Amounts
  <2>11. QED
    BY <1>b, <2>4, <2>6, <2>7, <2>8, <2>9, <2>10, TaskPays
<1>3. CASE ImageMade(t)
  <2>0. j \in Images
    BY <1>3 DEF ImageMade, Starts
  <2>1. PICK cost, said :
          /\ cost \in 0 .. Estimate[j] /\ said \in {0, cost} /\ Bill(t, cost)
          /\ quoted' = [quoted EXCEPT ![j] = said]
          /\ task' = [task EXCEPT ![t].pc = "store", ![t].bill = CostOf(j, said)]
    BY <1>0, <1>3 DEF ImageMade
  <2>2. cost \in Nat /\ said \in Nat /\ cost <= Estimate[j]
    BY <2>1 DEF Starts
  <2>3. /\ remote'[j] = "completed" /\ \A k \in Jobs \ {j} : remote'[k] = remote[k]
        /\ charged'[j] = charged[j] + cost /\ \A k \in Jobs \ {j} : charged'[k] = charged[k]
        /\ quoted'[j] = said /\ \A k \in Jobs \ {j} : quoted'[k] = quoted[k]
        /\ charged' \in [Jobs -> Nat] /\ UNCHANGED posts
    BY <1>0, <1>3, <2>1, <2>2 DEF ImageMade, Bill
  <2>4. Turned(t, "store", j, CostOf(j, said))
    BY <1>0, <2>1 DEF TaskType, Turned, Job
  <2>5. posts[j] < 2 => /\ posts[j] = 1 /\ remote[j] = "none" /\ charged[j] = 0
                        /\ ~Known(j) /\ Purse(j)
    BY <1>3, <2>0 DEF ImageMade, At, Starts, Payer, Known
  <2>6. (\A k \in Jobs \ {j} : Untouched(k)) /\ Fair(j)
    BY <1>0, <1>a, <2>3, <2>5 DEF Untouched, Fair, AlreadyBacked
  <2>7. posts'[j] < 2 => Purse(j)'
    <3>1. posts[j] < 2 => charged'[j] = cost
      BY <2>2, <2>3, <2>5
    <3>2. QED
      BY <1>a, <2>1, <2>2, <2>3, <2>5, <3>1 DEF Purse, Known, AlreadyBacked
  <2>8. posts'[j] < 2 => Payer(t)'
    BY <2>3, <2>4, <2>5 DEF Payer, Turned, Job, Known, Price, CostOf
  <2>9. posts'[j] < 2 => Alone(t, j)
    BY <1>0, <1>3, <2>0, <2>3 DEF Alone, Money, OneSender, ImageMade, At
  <2>10. Amounts'
    BY <1>a, <2>3 DEF Money, Amounts
  <2>11. QED
    BY <1>b, <2>4, <2>6, <2>7, <2>8, <2>9, <2>10, TaskPays
<1>4. QED
  BY <1>1, <1>2, <1>3

\* A node's submit, or its resume: a job that ended is accounted for again.
LEMMA SubmitPays ==
    ASSUME IInv, IInv', Money, NEW t \in Tasks, NEW j \in Jobs, SubmitOrResume(t, j)
    PROVE  Money'
<1>0. /\ floor \in [Tasks -> Nat] /\ task \in TaskType /\ row \in RowType
      /\ task[t].pc = "idle" /\ row[j].id \in BOOLEAN /\ row[j].cost \in Nat
      /\ UNCHANGED <<hold, spent, reserved, floor, posts, remote, charged, quoted>>
      /\ j \in Images => ~row[j].id
  BY DEF Money, Amounts, IInv, Types, SubmitOrResume, At, budget, rest, RowType, ImagesAtOnce
<1>1. CASE row[j].status \in {"absent", "queued"} /\ SetStatus(j, "queued") /\ Begin(t, j, "inputs", "node")
  <2>1. Turned(t, "inputs", j, 0) /\ Priced(j, "queued", row[j].id, row[j].cost)
    BY <1>0, <1>1, Turns, Prices DEF Steps, Statuses
  <2>2. Payer(t)'
    BY <2>1 DEF Payer, Turned
  <2>3. Sound(j, "queued", row[j].cost)
    BY DEF Sound, Finished
  <2> DEFINE pc == "inputs"
             status == "queued"
  <2>4. /\ Turned(t, pc, IF pc = "idle" THEN NoJob ELSE j, 0) /\ Priced(j, status, row[j].id, row[j].cost)
        /\ pc # "sent" /\ pc \notin {"save", "lost", "reopen", "polling", "note", "heard"}
        /\ Sound(j, status, row[j].cost)
    BY <2>1, <2>3
  <2> HIDE DEF pc, status
  <2>5. QED
    BY <1>0, <2>2, <2>4, RowTurn, Zenon
<1>2. CASE SetStatus(j, "unknown") /\ UNCHANGED task
  <2>1. Priced(j, "unknown", row[j].id, row[j].cost)
    BY <1>0, <1>2, Prices DEF Statuses
  <2>2. (\A k \in Jobs \ {j} : Untouched(k)) /\ Fair(j) /\ row'[j].id = row[j].id
    BY <1>0, <2>1 DEF Untouched, Fair, Priced, IInv, Types, AlreadyBacked
  <2>3. posts'[j] < 2 => Purse(j)'
    BY <1>0, <2>1, RowPurse DEF Money, Finished
  <2>4. QED
    BY <1>0, <1>2, <2>2, <2>3, EventPays DEF Money, Amounts
<1>3. CASE /\ row[j].status \in Finished /\ UNCHANGED row
           /\ task' = [task EXCEPT ![t] = [Idle EXCEPT !.pc = "resettle", !.job = j, !.bill = row[j].cost]]
  <2>1. Turned(t, "resettle", j, row[j].cost)
    BY <1>0, <1>3 DEF TaskType, Turned, Idle
  <2>2. posts[j] < 2 => Known(j) /\ row[j].cost = Price(j)
    BY <1>3 DEF Money, Purse
  <2>3. posts[j] < 2 => Payer(t)'
    BY <1>0, <2>1, <2>2 DEF Payer, Turned, Job, Known, Price, CostOf
  <2> DEFINE cost == row[j].cost
  <2>4. Turned(t, "resettle", IF "resettle" = "idle" THEN NoJob ELSE j, cost)
    BY <2>1
  <2> HIDE DEF cost
  <2>5. QED
    BY <1>0, <1>3, <2>3, <2>4, QuietTurn
<1>4. CASE Begin(t, j, "await", "node") /\ UNCHANGED row
  <2>1. Turned(t, "await", j, 0)
    BY <1>0, <1>4, Turns DEF Steps
  <2>2. Payer(t)'
    BY <2>1 DEF Payer, Turned
  <2>3. QED
    BY <1>0, <1>4, <2>1, <2>2, QuietTurn
<1>5. QED
  BY <1>1, <1>2, <1>3, <1>4 DEF SubmitOrResume

\* A check that starts, and a task that is killed.
LEMMA CheckPays ==
    ASSUME IInv, IInv', Money, NEW t \in Tasks, NEW j \in Jobs, Check(t, j)
    PROVE  Money'
<1>0. /\ floor \in [Tasks -> Nat] /\ task \in TaskType
      /\ UNCHANGED <<hold, spent, reserved, floor, row, posts, remote, charged, quoted>>
      /\ j \in Images => ~row[j].id
  BY DEF Money, Amounts, IInv, Types, Check, budget, ImagesAtOnce
<1>1. ASSUME NEW pc \in {"reopen", "await", "requeue"}, Begin(t, j, pc, "check"),
             pc = "reopen" => row[j].id
      PROVE  Money'
  <2>1. Turned(t, pc, j, 0)
    BY <1>0, <1>1, Turns DEF Steps
  <2>2. Payer(t)'
    BY <1>1, <2>1 DEF Payer, Turned
  <2>3. QED
    BY <1>0, <1>1, <2>1, <2>2, QuietTurn
<1>2. CASE UNCHANGED task
  <2>1. (\A k \in Jobs \ {j} : Untouched(k)) /\ Fair(j)
    BY <1>0 DEF Untouched, Fair, IInv, Types, AlreadyBacked
  <2>2. posts'[j] < 2 => Purse(j)'
    BY <1>0 DEF Money, Purse, Known, AlreadyBacked, Price, CostOf
  <2>3. QED
    BY <1>0, <1>2, <2>1, <2>2, EventPays DEF Money, Amounts
<1>3. QED
  BY <1>1, <1>2 DEF Check

\* A killed task leaves its debts where the next one finds them.
LEMMA StopPays ==
    ASSUME IInv, IInv', Money, NEW t \in Tasks, Stop(t)
    PROVE  Money'
<1>1. PICK j \in Jobs : Starts(t, j)
  BY Started DEF Stop, At
<1>2. PICK cost \in 0 .. Estimate[j] : Bill(t, cost)
  BY <1>1 DEF Stop, Starts
<1>3. /\ cost \in Nat /\ cost <= Estimate[j]
      /\ cost > 0 => j \in Images /\ task[t].pc = "sent"
  BY <1>1, <1>2 DEF Bill, Starts, At
<1>4. Turned(t, "idle", NoJob, 0) /\ floor' \in [Tasks -> Nat]
  BY Turns DEF Stop, IInv, Types, Money, Amounts
<1>5. /\ UNCHANGED <<hold, spent, reserved, row, posts, remote, quoted>>
      /\ charged'[j] = charged[j] + cost /\ \A k \in Jobs \ {j} : charged'[k] = charged[k]
      /\ charged' \in [Jobs -> Nat]
  BY <1>1, <1>2, <1>3 DEF Stop, budget, Bill, Starts, Money, Amounts
<1>6. (\A k \in Jobs \ {j} : Untouched(k)) /\ Fair(j) /\ Amounts'
  BY <1>4, <1>5 DEF Untouched, Fair, AlreadyBacked, Money, Amounts, IInv, Types
<1>7. posts'[j] < 2 => Purse(j)'
  <2>1. SUFFICES ASSUME posts[j] < 2 PROVE Purse(j)'
    BY <1>5
  <2>2. Purse(j) /\ Payer(t) /\ Job(t) = j /\ charged[j] \in Nat
    BY <1>1, <2>1 DEF Starts
  <2>3. cost > 0 => charged[j] = 0 /\ quoted[j] = 0 /\ posts[j] = 1
    BY <1>3, <2>2 DEF Payer, Purse, Known
  <2>4. charged'[j] <= Estimate[j] /\ quoted[j] \in {0, charged'[j]} /\ (posts[j] = 0 => charged'[j] = 0)
    BY <1>3, <1>5, <2>2, <2>3 DEF Purse
  <2>5. Price(j)' = Price(j)
    BY <1>5 DEF Price, CostOf
  <2>6. QED
    BY <1>5, <2>2, <2>4, <2>5 DEF Purse, Known, AlreadyBacked
<1>8. posts'[j] < 2 /\ j \in Images =>
          (remote'[j] = remote[j] /\ charged'[j] = charged[j]) \/ Alone(t, j)
  <2>1. CASE cost = 0
    BY <1>1, <1>5, <2>1 DEF Starts
  <2>2. CASE cost > 0 /\ posts'[j] < 2
    BY <1>1, <1>3, <1>5, <2>2 DEF Alone, Money, OneSender, Starts
  <2>3. QED
    BY <1>3, <2>1, <2>2
<1>9. (j \in Images => ~row'[j].id) /\ NoJob \notin Images
  BY <1>1, <1>5, MediaAssumption DEF Starts, Images
<1>10. QED
  BY <1>4, <1>6, <1>7, <1>8, <1>9, TaskPays

\* The provider and the route.
LEMMA EventsPay ==
    ASSUME IInv, IInv', Money, NEW j \in Jobs,
           \/ Ask(j) \/ Accept(j)
           \/ \E end \in {"completed", "failed", "nothing"} : \E cost \in 0 .. Estimate[j] :
                 \E said \in {0, cost} : ProviderEnds(j, end, cost, said)
    PROVE  Money'
<1>0. /\ UNCHANGED <<task, hold, spent, reserved, floor, row, posts>>
      /\ posts \in [Jobs -> Nat] /\ charged \in [Jobs -> Nat] /\ quoted \in [Jobs -> Nat]
      /\ remote \in [Jobs -> {"none", "rendering", "completed", "failed", "nothing"}]
      /\ posts[j] < 2 => Purse(j)
      /\ Estimate[j] \in Nat
  BY BudgetAssumption DEF Ask, Accept, ProviderEnds, budget, IInv, Types, Money, Amounts
<1>1. CASE Ask(j)
  <2>1. UNCHANGED <<remote, charged, quoted>>
    BY <1>1 DEF Ask
  <2>2. (\A k \in Jobs \ {j} : Untouched(k)) /\ Fair(j)
    BY <1>0, <2>1 DEF Untouched, Fair, AlreadyBacked
  <2>3. posts'[j] < 2 => Purse(j)'
    BY <1>0, <2>1 DEF Purse, Known, AlreadyBacked, Price, CostOf
  <2>4. QED
    BY <1>0, <2>1, <2>2, <2>3, EventPays
<1>2. CASE Accept(j)
  <2>1. /\ remote'[j] = "rendering" /\ \A k \in Jobs \ {j} : remote'[k] = remote[k]
        /\ UNCHANGED <<charged, quoted>> /\ remote[j] = "none" /\ posts[j] > 0 /\ j \notin Images
    BY <1>0, <1>2 DEF Accept, Images, Videos
  <2>2. (\A k \in Jobs \ {j} : Untouched(k)) /\ Fair(j)
    BY <1>0, <2>1 DEF Untouched, Fair, AlreadyBacked, Known
  <2>3. posts'[j] < 2 => Purse(j)'
    BY <1>0, <2>1 DEF Purse, Known, AlreadyBacked, Price, CostOf
  <2>4. QED
    BY <1>0, <2>1, <2>2, <2>3, EventPays
<1>3. ASSUME NEW end \in {"completed", "failed", "nothing"}, NEW cost \in 0 .. Estimate[j],
             NEW said \in {0, cost}, ProviderEnds(j, end, cost, said)
      PROVE  Money'
  <2>1. /\ remote'[j] = end /\ \A k \in Jobs \ {j} : remote'[k] = remote[k]
        /\ charged'[j] = cost /\ \A k \in Jobs \ {j} : charged'[k] = charged[k]
        /\ quoted'[j] = said /\ \A k \in Jobs \ {j} : quoted'[k] = quoted[k]
        /\ charged' = [charged EXCEPT ![j] = cost]
        /\ remote[j] = "rendering" /\ j \in Videos /\ j \notin Images
    BY <1>0, <1>3 DEF ProviderEnds, Images, Videos
  <2>2. cost \in Nat /\ cost <= Estimate[j] /\ charged' \in [Jobs -> Nat]
    BY <1>0, <2>1
  <2>3. (\A k \in Jobs \ {j} : Untouched(k)) /\ Fair(j)
    BY <1>0, <2>1 DEF Untouched, Fair, AlreadyBacked, Known
  <2>4. posts'[j] < 2 => Purse(j)'
    <3>1. posts[j] = 1
      BY <2>1 DEF IInv, VideoRow
    <3>2. QED
      BY <1>0, <2>1, <2>2, <3>1 DEF Purse, Known, AlreadyBacked
  <2>5. QED
    BY <1>0, <2>1, <2>2, <2>3, <2>4, EventPays
<1>4. QED
  BY <1>1, <1>2, <1>3

\* Every step keeps what rows, hashes and tasks say about the money.
LEMMA MoneyKept == IInv /\ IInv' /\ Money /\ [Next]_vars => Money'
<1> SUFFICES ASSUME IInv, IInv', Money, [Next]_vars PROVE Money'
  OBVIOUS
<1>1. ASSUME NEW t \in Tasks, Step(t) PROVE Money'
  <2>1. task[t].pc # "idle"
    BY <1>1 DEF Step, At, BudgetInputs, ReserveEstimate, Refuse, TakeSlot, Claim, Post, PostFails,
           PostUnanswered, VideoTaken, ImageMade, SaveId, RecordUnknown, Complete,
           DropReservation, Fail, Settle, BeginWait, Deadline, Poll, NoteProgress, Conclude,
           Reopen, Requeue
  <2>2. PICK j \in Jobs : Starts(t, j)
    BY <2>1, Started
  <2>3. QED
    BY <1>1, <2>2, QuietSteps, RowSteps, BudgetSteps, PostSteps DEF Step
<1>2. CASE UNCHANGED vars
  <2>1. UNCHANGED <<hold, spent, reserved, row, task, floor, posts, remote, charged, quoted>>
    BY <1>2 DEF vars
  <2>2. \A j \in Jobs : posts'[j] < 2 => Purse(j)'
    BY <2>1 DEF Money, Purse, Known, AlreadyBacked, Price, CostOf
  <2>3. ASSUME NEW t \in Tasks, Working(t)' PROVE Payer(t)'
    <3>1. Working(t) /\ Payer(t)
      BY <2>1, <2>3 DEF Money, Working, Job
    <3>2. QED
      BY <2>1, <3>1 DEF Payer, Known, AlreadyBacked, Job, Images, Videos, Price, CostOf
  <2>4. Amounts' /\ OneSender' /\ ImagesAtOnce'
    BY <2>1 DEF Money, Amounts, OneSender, ImagesAtOnce, Job, Images, Videos
  <2>5. QED
    BY <2>2, <2>3, <2>4 DEF Money
<1>3. QED
  BY <1>1, <1>2, SubmitPays, CheckPays, StopPays, EventsPay DEF Next

\* The invariant of the amounts holds throughout.
THEOREM MoneyInvariance == Spec => [](IInv /\ Money)
<1>1. Spec => []IInv
  BY Invariance
<1>2. Init => Money
  BY InitPays
<1>3. IInv /\ IInv' /\ Money /\ [Next]_vars => Money'
  BY MoneyKept
<1>4. QED
  BY <1>1, <1>2, <1>3, PTL DEF Spec

\* For every creative run: the rows, the tasks, the reservations and the amounts stay
\* what their columns can hold, and the spend is never negative (GenerationJob,
\* budget.py).
THEOREM MediaTypesKept == Spec => []TypeOK
<1>1. IInv /\ Money => TypeOK
  BY DEF IInv, Types, Money, Amounts, TypeOK, BudgetTypeOK, MediaTypeOK, RowType, TaskType
<1>2. QED
  BY MoneyInvariance, <1>1, PTL

\* A completed row records what its one POST was charged if the provider said so, and
\* the estimate if it did not, for every set of jobs and tasks, however they are killed,
\* resumed and checked again (_conclude, _generate_image).
THEOREM CostsAreBills == Spec => []CostIsBill
<1>1. IInv /\ Money => CostIsBill
  <2> SUFFICES ASSUME Money, IInv, NEW j \in Jobs, row[j].status = "completed", posts[j] = 1
               PROVE  row[j].cost = IF quoted[j] > 0 THEN charged[j] ELSE Estimate[j]
    BY DEF CostIsBill
  <2>1. Purse(j) /\ quoted[j] \in Nat
    BY DEF Money, IInv, Types
  <2>2. row[j].cost = CostOf(j, quoted[j]) /\ quoted[j] \in {0, charged[j]}
    BY <2>1 DEF Purse, Price, Finished
  <2>3. QED
    BY <2>1, <2>2 DEF CostOf
<1>2. QED
  BY MoneyInvariance, <1>1, PTL

-----------------------------------------------------------------------------
(* The counter of reserved money, and the caps                              *)

Reserved == {j \in Jobs : hold[j] = "reserved"}
Reconciled == {j \in Jobs : hold[j] = "reconciled"}

\* The estimates of a finite set of jobs can be summed.
LEMMA EstimatesAreInts == IsFiniteSet(Jobs) /\ \A j \in Jobs : Estimate[j] \in Int
  BY BudgetAssumption

\* Each script moves the counter by the estimate of the job whose hash it marks.
LEMMA ScriptsCount ==
    ASSUME hold \in [Jobs -> {"none", "reserved", "reconciled", "released"}],
           NEW j \in Jobs, NEW amount, ReservedExact,
           Reserve(j, amount) \/ Reconcile(j, amount) \/ Release(j)
    PROVE  ReservedExact'
<1>0. /\ reserved = Total(Estimate, Reserved)
      /\ Total(Estimate, Reserved) \in Int
      /\ Estimate[j] \in Int
      /\ \A s \in SUBSET Jobs : \A x \in Jobs \ s : Total(Estimate, s \cup {x}) = Estimate[x] + Total(Estimate, s)
      /\ \A s \in SUBSET Jobs : \A x \in s : Total(Estimate, s) = Estimate[x] + Total(Estimate, s \ {x})
      /\ \A s \in SUBSET Jobs : Total(Estimate, s) \in Int
  BY EstimatesAreInts, TotalLaws DEF ReservedExact, Reserved
<1>1. CASE UNCHANGED <<hold, reserved>>
  BY <1>1 DEF ReservedExact
<1>2. CASE /\ ~AlreadyBacked(j) /\ hold' = [hold EXCEPT ![j] = "reserved"]
           /\ reserved' = reserved + Estimate[j]
  <2>1. Reserved' = Reserved \cup {j} /\ j \in Jobs \ Reserved
    BY <1>2 DEF Reserved, AlreadyBacked
  <2>2. Total(Estimate, Reserved \cup {j}) = Estimate[j] + Total(Estimate, Reserved)
    BY <1>0, <2>1 DEF Reserved
  <2>3. QED
    BY <1>0, <1>2, <2>1, <2>2 DEF ReservedExact, Reserved
<1>3. ASSUME hold[j] = "reserved", NEW mark \in {"reconciled", "released"},
             hold' = [hold EXCEPT ![j] = mark], reserved' = reserved - Estimate[j]
      PROVE  ReservedExact'
  <2>1. Reserved' = Reserved \ {j} /\ j \in Reserved
    BY <1>3 DEF Reserved
  <2>2. Total(Estimate, Reserved) = Estimate[j] + Total(Estimate, Reserved \ {j})
    BY <1>0, <2>1 DEF Reserved
  <2>3. Total(Estimate, Reserved \ {j}) \in Int
    BY <1>0 DEF Reserved
  <2>4. QED
    BY <1>0, <1>3, <2>1, <2>2, <2>3 DEF ReservedExact, Reserved
<1>4. CASE hold[j] = "released" /\ hold' = [hold EXCEPT ![j] = "reconciled"] /\ reserved' = reserved
  <2>1. Reserved' = Reserved
    BY <1>4 DEF Reserved
  <2>2. QED
    BY <1>0, <1>4, <2>1 DEF ReservedExact, Reserved
<1>5. CASE Reserve(j, amount)
  BY <1>1, <1>2, <1>5 DEF Reserve, budget
<1>6. CASE Reconcile(j, amount)
  BY <1>1, <1>3, <1>4, <1>6 DEF Reconcile, budget
<1>7. CASE Release(j)
  BY <1>1, <1>3, <1>7 DEF Release, budget
<1>8. QED
  BY <1>5, <1>6, <1>7

\* What a step does to the budget.
LEMMA BudgetMoves ==
    ASSUME IInv, Money, [Next]_vars
    PROVE  \/ UNCHANGED budget
           \/ \E t \in Tasks, j \in Jobs :
                 /\ Starts(t, j)
                 /\ UNCHANGED <<charged, quoted, remote, posts>>
                 /\ \/ At(t, "reserve") /\ Reserve(j, floor[t])
                    \/ At(t, "drop") /\ Release(j)
                    \/ /\ At(t, "settle") \/ At(t, "resettle")
                       /\ IF task[t].bill > 0 THEN Reconcile(j, task[t].bill) ELSE Release(j)
<1>1. ASSUME NEW t \in Tasks, ReserveEstimate(t) \/ DropReservation(t) \/ Settle(t)
      PROVE  \E j \in Jobs :
                 /\ Starts(t, j)
                 /\ UNCHANGED <<charged, quoted, remote, posts>>
                 /\ \/ At(t, "reserve") /\ Reserve(j, floor[t])
                    \/ At(t, "drop") /\ Release(j)
                    \/ /\ At(t, "settle") \/ At(t, "resettle")
                       /\ IF task[t].bill > 0 THEN Reconcile(j, task[t].bill) ELSE Release(j)
  <2>1. task[t].pc # "idle"
    BY <1>1 DEF ReserveEstimate, DropReservation, Settle, At
  <2>2. PICK j \in Jobs : Starts(t, j)
    BY <2>1, Started
  <2>3. Job(t) = j
    BY <2>2 DEF Starts
  <2>4. QED
    BY <1>1, <2>2, <2>3 DEF ReserveEstimate, DropReservation, Settle, rest
<1>2. ASSUME NEW t \in Tasks, Step(t), ~(ReserveEstimate(t) \/ DropReservation(t) \/ Settle(t))
      PROVE  UNCHANGED budget
  BY <1>2 DEF Step, BudgetInputs, Refuse, TakeSlot, Claim, Post, PostFails, PostUnanswered,
         VideoTaken, ImageMade, SaveId, RecordUnknown, Complete, Fail, BeginWait, Deadline, Poll,
         NoteProgress, Conclude, Reopen, Requeue
<1>3. CASE UNCHANGED vars
  BY <1>3 DEF vars, budget
<1>4. QED
  BY <1>1, <1>2, <1>3, ZenonT(60) DEF Next, SubmitOrResume, Check, Stop, Ask, Accept, ProviderEnds

\* For every set of jobs, the counter of reserved money is the sum of the jobs'
\* reservations, however reserve, reconcile and release interleave (the Lua scripts).
THEOREM ReservationsAddUp == Spec => []ReservedExact
<1>1. Init => ReservedExact
  <2>1. ASSUME Init PROVE {j \in Jobs : hold[j] = "reserved"} = {} /\ reserved = 0
    BY <2>1 DEF Init, BudgetInit
  <2>2. Total(Estimate, {}) = 0
    BY EstimatesAreInts, TotalLaws
  <2>3. QED
    BY <2>1, <2>2 DEF ReservedExact
<1>2. IInv /\ Money /\ ReservedExact /\ [Next]_vars => ReservedExact'
  <2> SUFFICES ASSUME IInv, Money, ReservedExact, [Next]_vars PROVE ReservedExact'
    OBVIOUS
  <2>1. CASE UNCHANGED budget
    BY <2>1 DEF budget, ReservedExact
  <2>2. ASSUME NEW j \in Jobs, NEW amount, Reserve(j, amount) \/ Reconcile(j, amount) \/ Release(j)
        PROVE  ReservedExact'
    BY <2>2, ScriptsCount DEF IInv, Types
  <2>3. QED
    BY <2>1, <2>2, BudgetMoves
<1>3. QED
  BY MoneyInvariance, <1>1, <1>2, PTL DEF Spec

-----------------------------------------------------------------------------
(* The caps                                                                 *)

OncePosted == \A j \in Images : posts[j] < 2

\* What the reconciled jobs were taken to cost.
PriceList == [j \in Jobs |-> Price(j)]
Paid == Total(PriceList, Reconciled)

\* Money that was let go is in the spend, and what is reserved for a job that will be
\* charged fits beside it. The spend itself may be larger: a cost that is on its row
\* already is counted by the floor, and again when its job is reconciled.
Covered ==
    OncePosted =>
        /\ Paid <= spent
        /\ reserved + Paid <= MediaCap
        /\ reserved + Paid > 0 => TextSpent + reserved + Paid <= CreativeCap

\* A step POSTs a job once more, or no job.
LEMMA PostsGrow ==
    ASSUME IInv, [Next]_vars, NEW j \in Jobs
    PROVE  /\ posts[j] \in Nat /\ posts'[j] \in Nat /\ posts[j] <= posts'[j]
           /\ posts'[j] = posts[j] \/ \E t \in Tasks : Post(t) /\ Job(t) = j
<1>0. posts \in [Jobs -> Nat]
  BY DEF IInv, Types
<1>1. ASSUME NEW t \in Tasks, Step(t) PROVE UNCHANGED posts \/ Post(t)
  BY <1>1 DEF Step, BudgetInputs, ReserveEstimate, Refuse, TakeSlot, Claim, PostFails,
         PostUnanswered, VideoTaken, ImageMade, SaveId, RecordUnknown, Complete,
         DropReservation, Fail, Settle, BeginWait, Deadline, Poll, NoteProgress, Conclude,
         Reopen, Requeue, rest
<1>2. CASE UNCHANGED posts
  BY <1>0, <1>2
<1>3. ASSUME NEW t \in Tasks, Post(t)
      PROVE  /\ posts[j] <= posts'[j] /\ posts'[j] \in Nat
             /\ posts'[j] = posts[j] \/ Job(t) = j
  <2>1. Job(t) \in Jobs
    BY <1>3 DEF Post, At, Job, IInv, Types
  <2>2. QED
    BY <1>0, <1>3, <2>1 DEF Post
<1>4. QED
  BY <1>0, <1>1, <1>2, <1>3, ZenonT(60) DEF Next, SubmitOrResume, Check, Stop, Ask, Accept, ProviderEnds, rest, vars

\* The prices of the jobs.
LEMMA PricesAreNat ==
    ASSUME IInv
    PROVE  \A j \in Jobs : Price(j) \in Nat /\ PriceList[j] = Price(j)
<1>1. \A j \in Jobs : quoted[j] \in Nat /\ Estimate[j] \in Nat
  BY BudgetAssumption DEF IInv, Types
<1>2. QED
  BY <1>1 DEF Price, CostOf, PriceList

\* The price of a job that was POSTed at most once stays, once its end is known.
LEMMA PricesStay ==
    ASSUME IInv, Money, [Next]_vars, NEW j \in Jobs, posts'[j] < 2
    PROVE  /\ posts[j] < 2 /\ Purse(j)
           /\ Known(j) => Known(j)' /\ Price(j)' = Price(j)
<1>0. /\ quoted \in [Jobs -> Nat]
      /\ remote \in [Jobs -> {"none", "rendering", "completed", "failed", "nothing"}]
  BY DEF IInv, Types
<1>1. posts[j] < 2 /\ Purse(j)
  BY PostsGrow DEF Money
<1>2. ASSUME NEW t \in Tasks, Step(t) PROVE UNCHANGED <<quoted, remote>> \/ PostFails(t) \/ ImageMade(t)
  BY <1>2 DEF Step, BudgetInputs, ReserveEstimate, Refuse, TakeSlot, Claim, Post,
         PostUnanswered, VideoTaken, SaveId, RecordUnknown, Complete,
         DropReservation, Fail, Settle, BeginWait, Deadline, Poll, NoteProgress, Conclude,
         Reopen, Requeue, rest
<1> DEFINE Stays == remote'[j] = remote[j] /\ quoted'[j] = quoted[j]
<1> SUFFICES ASSUME Known(j) PROVE Stays
  BY <1>1 DEF Known, Price, CostOf
<1>3. CASE UNCHANGED <<quoted, remote>>
  BY <1>3
<1>4. ASSUME NEW t \in Tasks, PostFails(t) \/ ImageMade(t) PROVE Stays
  <2>1. PICK k \in Jobs : Starts(t, k)
    BY <1>4, Started DEF PostFails, ImageMade, At
  <2>2. k # j
    BY <1>1, <1>4, <2>1 DEF PostFails, ImageMade, At, Starts, Payer, Known
  <2>3. Job(t) = k
    BY <2>1 DEF Starts
  <2>4. QED
    BY <1>0, <1>4, <2>2, <2>3 DEF PostFails, ImageMade
<1>5. ASSUME NEW k \in Jobs, NEW end \in {"completed", "failed", "nothing"}, NEW cost, NEW said,
             ProviderEnds(k, end, cost, said)
      PROVE  Stays
  BY <1>0, <1>5 DEF ProviderEnds, Known
<1>6. ASSUME NEW k \in Jobs, Accept(k) PROVE Stays
  BY <1>0, <1>6 DEF Accept, Known
<1>7. ASSUME NEW t \in Tasks, NEW k \in Jobs, SubmitOrResume(t, k) \/ Check(t, k)
      PROVE  UNCHANGED <<quoted, remote>>
  BY <1>7 DEF SubmitOrResume, Check, rest
<1>8. QED
  <2> HIDE DEF Stays
  <2>1. CASE UNCHANGED vars
    BY <1>3, <2>1 DEF vars
  <2>2. ASSUME NEW t \in Tasks, Step(t) PROVE Stays
    BY <1>2, <1>3, <1>4, <2>2
  <2>3. ASSUME NEW t \in Tasks, NEW k \in Jobs, SubmitOrResume(t, k) \/ Check(t, k) PROVE Stays
    BY <1>3, <1>7, <2>3
  <2>4. ASSUME NEW t \in Tasks, Stop(t) PROVE Stays
    <3>1. UNCHANGED <<quoted, remote>>
      BY <2>4 DEF Stop
    <3>2. QED
      BY <1>3, <3>1
  <2>5. ASSUME NEW k \in Jobs, Ask(k) PROVE Stays
    <3>1. UNCHANGED <<quoted, remote>>
      BY <2>5 DEF Ask
    <3>2. QED
      BY <1>3, <3>1
  <2>6. QED
    BY <1>5, <1>6, <2>1, <2>2, <2>3, <2>4, <2>5 DEF Next

\* A reconciled job is one whose end is known.
LEMMA ReconciledIsKnown ==
    ASSUME NEW j \in Jobs, Purse(j), hold[j] = "reconciled"
    PROVE  Known(j)
BY DEF Purse

\* The scripts keep both caps, called as the steps of the tasks call them.
LEMMA ScriptsCover ==
    ASSUME IInv, Covered, OncePosted, NEW t \in Tasks, NEW j \in Jobs, Starts(t, j), posts[j] < 2,
           spent \in Nat, reserved \in Int, floor \in [Tasks -> Nat], UNCHANGED <<remote, quoted>>,
           \/ At(t, "reserve") /\ Reserve(j, floor[t])
           \/ At(t, "drop") /\ Release(j)
           \/ /\ At(t, "settle") \/ At(t, "resettle")
              /\ IF task[t].bill > 0 THEN Reconcile(j, task[t].bill) ELSE Release(j)
    PROVE  /\ Paid' <= spent'
           /\ reserved' + Paid' <= MediaCap
           /\ reserved' + Paid' > 0 => TextSpent + reserved' + Paid' <= CreativeCap
<1>0. /\ Paid <= spent /\ reserved + Paid <= MediaCap
      /\ reserved + Paid > 0 => TextSpent + reserved + Paid <= CreativeCap
      /\ Price(j) > 0 => AlreadyBacked(j)
      /\ task[t].pc \in {"settle", "resettle"} => task[t].bill = Price(j)
      /\ hold \in [Jobs -> {"none", "reserved", "reconciled", "released"}]
  BY DEF Covered, Starts, Payer, Purse
<1>n. /\ Estimate[j] \in Nat /\ Price(j) \in Nat /\ floor[t] \in Nat
      /\ MediaCap \in Nat /\ CreativeCap \in Nat /\ TextSpent \in Nat
  BY BudgetAssumption, PricesAreNat
<1>e. Price(j) <= Estimate[j]
  BY DEF Starts, Purse, Price, CostOf
<1>i. /\ Paid \in Int
      /\ \A s \in SUBSET Jobs : \A x \in Jobs \ s :
            Total(PriceList, s \cup {x}) = PriceList[x] + Total(PriceList, s)
  <2>1. \A x \in Jobs : PriceList[x] \in Int
    BY PricesAreNat
  <2>2. Reconciled \in SUBSET Jobs
    BY DEF Reconciled
  <2>3. QED
    BY <2>1, <2>2, BudgetAssumption, TotalLaws DEF Paid
<1>l. PriceList' = PriceList /\ PriceList[j] = Price(j)
  BY PricesAreNat DEF PriceList, Price, CostOf
<1>s. Reconciled' = Reconciled => Paid' = Paid
  BY <1>l DEF Paid
<1>1. CASE At(t, "reserve") /\ Reserve(j, floor[t])
  <2>1. CASE AlreadyBacked(j)
    BY <1>0, <1>1, <1>s, <2>1 DEF Reserve, budget, Reconciled
  <2>2. CASE ~AlreadyBacked(j) /\ ~Fits(j, floor[t])
    <3>1. Reconciled' = Reconciled /\ reserved' = reserved /\ spent' = Counted(floor[t])
      BY <1>1, <2>2 DEF Reserve, Reconciled
    <3>2. spent <= Counted(floor[t]) /\ Counted(floor[t]) \in Nat
      BY <1>n DEF Counted
    <3>3. QED
      BY <1>0, <1>i, <1>s, <3>1, <3>2
  <2>3. CASE ~AlreadyBacked(j) /\ Fits(j, floor[t])
    <3>1. /\ hold' = [hold EXCEPT ![j] = "reserved"]
          /\ reserved' = reserved + Estimate[j] /\ spent' = Counted(floor[t])
      BY <1>1, <2>3 DEF Reserve
    <3>2. Reconciled' = Reconciled
      BY <1>0, <2>3, <3>1 DEF Reconciled, AlreadyBacked
    <3>3. spent <= Counted(floor[t]) /\ Counted(floor[t]) \in Nat
      BY <1>n DEF Counted
    <3>4. /\ Counted(floor[t]) + reserved + Estimate[j] <= MediaCap
          /\ TextSpent + (Counted(floor[t]) + reserved + Estimate[j]) <= CreativeCap
      BY <2>3 DEF Fits
    <3> DEFINE counted == Counted(floor[t])
    <3> HIDE DEF counted
    <3>5. QED
      BY <1>0, <1>i, <1>n, <1>s, <3>1, <3>2, <3>3, <3>4 DEF counted
  <2>4. QED
    BY <2>1, <2>2, <2>3
\* What is released was not charged.
<1>2. CASE Release(j)
  <2>1. CASE hold[j] # "reserved"
    BY <1>0, <1>2, <1>s, <2>1 DEF Release, budget, Reconciled
  <2>2. CASE hold[j] = "reserved"
    <3>1. /\ hold' = [hold EXCEPT ![j] = "released"]
          /\ reserved' = reserved - Estimate[j] /\ spent' = spent
      BY <1>2, <2>2 DEF Release
    <3>2. Reconciled' = Reconciled
      BY <1>0, <2>2, <3>1 DEF Reconciled
    <3>3. QED
      BY <1>0, <1>i, <1>n, <1>s, <3>1, <3>2
  <2>3. QED
    BY <2>1, <2>2
\* What is reconciled is charged no more than was reserved for it.
<1>3. CASE (At(t, "settle") \/ At(t, "resettle")) /\ task[t].bill > 0 /\ Reconcile(j, task[t].bill)
  <2>0. task[t].bill = Price(j) /\ Price(j) > 0 /\ AlreadyBacked(j)
    BY <1>0, <1>3 DEF At
  <2>1. CASE hold[j] \in {"none", "reconciled"}
    BY <1>0, <1>3, <1>s, <2>1 DEF Reconcile, budget, Reconciled
  <2>2. CASE hold[j] = "reserved"
    <3>1. /\ hold' = [hold EXCEPT ![j] = "reconciled"]
          /\ reserved' = reserved - Estimate[j] /\ spent' = spent + Price(j)
      BY <1>3, <2>0, <2>2 DEF Reconcile
    <3>2. Reconciled' = Reconciled \cup {j} /\ j \in Jobs \ Reconciled /\ Reconciled \in SUBSET Jobs
      BY <1>0, <2>2, <3>1 DEF Reconciled
    <3>3. Paid' = Price(j) + Paid
      BY <1>i, <1>l, <3>2 DEF Paid
    <3>4. QED
      BY <1>0, <1>e, <1>i, <1>n, <3>1, <3>3
  <2>3. QED
    BY <1>0, <2>0, <2>1, <2>2 DEF AlreadyBacked
<1>4. QED
  BY <1>1, <1>2, <1>3

\* Every step keeps what is committed covered by what is counted.
LEMMA CoveredKept == IInv /\ IInv' /\ Money /\ Covered /\ [Next]_vars => Covered'
<1> SUFFICES ASSUME IInv, IInv', Money, Covered, [Next]_vars, OncePosted'
             PROVE  /\ Paid' <= spent'
                    /\ reserved' + Paid' <= MediaCap
                    /\ reserved' + Paid' > 0 => TextSpent + reserved' + Paid' <= CreativeCap
  BY DEF Covered
<1>0. ASSUME NEW j \in Jobs PROVE posts'[j] < 2
  <2>1. CASE j \in Images
    BY <2>1 DEF OncePosted, Images, Videos
  <2>2. CASE j \in Videos
    BY <2>2 DEF IInv, VideoRow, Videos
  <2>3. QED
    BY <2>1, <2>2 DEF Images
<1>1. \A j \in Jobs : posts[j] < 2 /\ Purse(j)
  BY <1>0, PricesStay
<1>2. OncePosted
  BY <1>1 DEF OncePosted, Images
<1>3. CASE UNCHANGED budget
  <2>1. Reconciled' = Reconciled /\ spent' = spent /\ reserved' = reserved
    BY <1>3 DEF budget, Reconciled
  <2>2. \A j \in Reconciled : PriceList'[j] = PriceList[j] /\ PriceList[j] \in Int
    <3>1. SUFFICES ASSUME NEW j \in Jobs, hold[j] = "reconciled"
                   PROVE  PriceList'[j] = PriceList[j] /\ PriceList[j] \in Int
      BY DEF Reconciled
    <3>2. Price(j)' = Price(j)
      BY <1>0, <1>1, <3>1, ReconciledIsKnown, PricesStay
    <3>3. PriceList'[j] = Price(j)'
      BY DEF PriceList
    <3>4. QED
      BY <3>2, <3>3, PricesAreNat
  <2>3. IsFiniteSet(Reconciled)
    BY BudgetAssumption, FS_Subset DEF Reconciled
  <2>4. Paid' = Paid
    BY <2>1, <2>2, <2>3, TotalSame DEF Paid
  <2>5. QED
    BY <1>2, <2>1, <2>4 DEF Covered
<1>4. QED
  BY <1>1, <1>2, <1>3, BudgetMoves, ScriptsCover DEF Money, Amounts

\* What the provider charged is reserved, or in what was paid, but for what is taken
\* for free.
Paying == {j \in Jobs : ~TakenForFree(j)}

\* What backs the charge of a job, on either side of the account.
LEMMA ChargeIsBacked ==
    ASSUME IInv, NEW j \in Jobs, posts[j] < 2, Purse(j), ~TakenForFree(j)
    PROVE  /\ charged[j] <= Estimate[j]
           /\ hold[j] = "reconciled" => charged[j] <= Price(j)
           /\ hold[j] \notin {"reserved", "reconciled"} => charged[j] = 0
<1>0. /\ posts[j] \in Nat /\ quoted[j] \in Nat /\ charged[j] <= Estimate[j]
      /\ remote[j] \in {"none", "rendering", "completed", "failed", "nothing"}
      /\ Estimate[j] > 0 /\ Estimate[j] \in Nat /\ quoted[j] \in {0, charged[j]}
  BY BudgetAssumption DEF IInv, Types, Purse
<1>1. CASE Known(j)
  <2>1. Price(j) > 0 /\ charged[j] <= Price(j)
    BY <1>0, <1>1 DEF Known, TakenForFree, Price, CostOf
  <2>2. AlreadyBacked(j)
    BY <2>1 DEF Purse
  <2>3. QED
    BY <1>0, <2>1, <2>2 DEF AlreadyBacked
<1>2. CASE ~Known(j)
  <2>1. hold[j] # "reconciled" /\ (posts[j] = 0 => charged[j] = 0) /\ (posts[j] = 1 => hold[j] = "reserved")
    BY <1>2 DEF Purse
  <2>2. posts[j] = 0 \/ posts[j] = 1
    BY <1>0
  <2>3. QED
    BY <1>0, <2>1, <2>2
<1>3. QED
  BY <1>1, <1>2

LEMMA BilledIsCovered ==
    ASSUME IInv, Amounts, \A j \in Jobs : posts[j] < 2 /\ Purse(j), ReservedExact
    PROVE  /\ Total(charged, Paying) \in Int /\ Paid \in Int /\ reserved \in Int
           /\ Total(charged, Paying) <= reserved + Paid
<1>0. /\ IsFiniteSet(Jobs)
      /\ \A j \in Jobs : /\ charged[j] \in Nat /\ Estimate[j] \in Nat
                         /\ PriceList[j] \in Nat /\ PriceList[j] = Price(j)
  BY BudgetAssumption, PricesAreNat DEF Amounts
<1>1. /\ Total(charged, {}) = 0 /\ Total(Estimate, {}) = 0 /\ Total(PriceList, {}) = 0
      /\ \A s \in SUBSET Jobs : Total(charged, s) \in Int
      /\ \A s \in SUBSET Jobs : Total(Estimate, s) \in Int
      /\ \A s \in SUBSET Jobs : Total(PriceList, s) \in Int
      /\ \A s \in SUBSET Jobs : \A x \in Jobs \ s : Total(charged, s \cup {x}) = charged[x] + Total(charged, s)
      /\ \A s \in SUBSET Jobs : \A x \in Jobs \ s : Total(Estimate, s \cup {x}) = Estimate[x] + Total(Estimate, s)
      /\ \A s \in SUBSET Jobs : \A x \in Jobs \ s : Total(PriceList, s \cup {x}) = PriceList[x] + Total(PriceList, s)
  BY <1>0, TotalLaws
<1> DEFINE bound(s) == Total(Estimate, s \cap Reserved) + Total(PriceList, s \cap Reconciled)
           T == {s \in SUBSET Jobs : Total(charged, s \cap Paying) <= bound(s)}
<1>2. {} \in T
  <2>1. {} \cap Reserved = {} /\ {} \cap Reconciled = {} /\ {} \cap Paying = {}
    OBVIOUS
  <2>2. QED
    BY <1>1, <2>1
<1>3. ASSUME NEW s \in SUBSET Jobs, NEW x \in Jobs \ s, s \in T PROVE s \cup {x} \in T
  <2> DEFINE more == IF x \in Paying THEN charged[x] ELSE 0
  <2> SUFFICES Total(charged, (s \cup {x}) \cap Paying)
               <= Total(Estimate, (s \cup {x}) \cap Reserved)
                  + Total(PriceList, (s \cup {x}) \cap Reconciled)
    OBVIOUS
  <2>0. /\ Total(charged, s \cap Paying) <= Total(Estimate, s \cap Reserved) + Total(PriceList, s \cap Reconciled)
        /\ Total(charged, s \cap Paying) \in Int
        /\ Total(Estimate, s \cap Reserved) \in Int /\ Total(PriceList, s \cap Reconciled) \in Int
        /\ more \in Int /\ Estimate[x] \in Int /\ PriceList[x] \in Int
    <3>1. s \cap Reserved \in SUBSET Jobs /\ s \cap Reconciled \in SUBSET Jobs /\ s \cap Paying \in SUBSET Jobs
      OBVIOUS
    <3>2. QED
      BY <1>0, <1>1, <1>3, <3>1
  <2>1. Total(charged, (s \cup {x}) \cap Paying) = more + Total(charged, s \cap Paying)
    <3>1. CASE x \in Paying
      <4>1. /\ (s \cup {x}) \cap Paying = (s \cap Paying) \cup {x}
            /\ s \cap Paying \in SUBSET Jobs /\ x \in Jobs \ (s \cap Paying)
        BY <3>1
      <4>2. QED
        BY <1>1, <3>1, <4>1
    <3>2. CASE x \notin Paying
      <4>1. (s \cup {x}) \cap Paying = s \cap Paying
        BY <3>2
      <4>2. QED
        BY <2>0, <3>2, <4>1
    <3>3. QED
      BY <3>1, <3>2
  <2>2. /\ more <= Estimate[x] /\ 0 <= Estimate[x]
        /\ hold[x] = "reconciled" => more <= PriceList[x]
        /\ hold[x] \notin {"reserved", "reconciled"} => more = 0
    BY <1>0, ChargeIsBacked DEF Paying
  <2> HIDE DEF more, T
  <2>3. CASE hold[x] = "reserved"
    <3>1. /\ (s \cup {x}) \cap Reserved = (s \cap Reserved) \cup {x}
          /\ (s \cup {x}) \cap Reconciled = s \cap Reconciled
          /\ s \cap Reserved \in SUBSET Jobs /\ x \in Jobs \ (s \cap Reserved)
      BY <2>3 DEF Reserved, Reconciled
    <3>2. Total(Estimate, (s \cap Reserved) \cup {x}) = Estimate[x] + Total(Estimate, s \cap Reserved)
      BY <1>1, <3>1
    <3>3. /\ Total(Estimate, (s \cup {x}) \cap Reserved) = Estimate[x] + Total(Estimate, s \cap Reserved)
          /\ Total(PriceList, (s \cup {x}) \cap Reconciled) = Total(PriceList, s \cap Reconciled)
      BY <3>1, <3>2, Zenon
    <3>4. QED
      BY ONLY <2>0, <2>1, <2>2, <3>3
  <2>4. CASE hold[x] = "reconciled"
    <3>1. /\ (s \cup {x}) \cap Reserved = s \cap Reserved
          /\ (s \cup {x}) \cap Reconciled = (s \cap Reconciled) \cup {x}
          /\ s \cap Reconciled \in SUBSET Jobs /\ x \in Jobs \ (s \cap Reconciled)
      BY <2>4 DEF Reserved, Reconciled
    <3>2. Total(PriceList, (s \cap Reconciled) \cup {x}) = PriceList[x] + Total(PriceList, s \cap Reconciled)
      BY <1>1, <3>1
    <3>3. /\ Total(Estimate, (s \cup {x}) \cap Reserved) = Total(Estimate, s \cap Reserved)
          /\ Total(PriceList, (s \cup {x}) \cap Reconciled) = PriceList[x] + Total(PriceList, s \cap Reconciled)
      BY <3>1, <3>2, Zenon
    <3>4. more <= PriceList[x]
      BY <2>2, <2>4
    <3>5. QED
      BY ONLY <2>0, <2>1, <3>3, <3>4
  <2>5. CASE hold[x] \notin {"reserved", "reconciled"}
    <3>1. (s \cup {x}) \cap Reserved = s \cap Reserved /\ (s \cup {x}) \cap Reconciled = s \cap Reconciled
      BY <2>5 DEF Reserved, Reconciled
    <3>2. /\ Total(Estimate, (s \cup {x}) \cap Reserved) = Total(Estimate, s \cap Reserved)
          /\ Total(PriceList, (s \cup {x}) \cap Reconciled) = Total(PriceList, s \cap Reconciled)
          /\ more = 0
      BY <2>2, <2>5, <3>1, Zenon
    <3>3. QED
      BY ONLY <2>0, <2>1, <3>2
  <2>6. QED
    BY <2>3, <2>4, <2>5
<1>4. SUBSET Jobs \subseteq T
  <2> HIDE DEF T
  <2>1. QED
    BY <1>0, <1>2, <1>3, SubsetInduction
<1>5. Total(charged, Jobs \cap Paying) <= bound(Jobs)
  BY <1>4
<1>6. Jobs \cap Reserved = Reserved /\ Jobs \cap Reconciled = Reconciled /\ Jobs \cap Paying = Paying
  BY DEF Reserved, Reconciled, Paying
<1>7. Reserved \in SUBSET Jobs /\ Reconciled \in SUBSET Jobs /\ Paying \in SUBSET Jobs
  BY DEF Reserved, Reconciled, Paying
<1>8. QED
  BY <1>1, <1>5, <1>6, <1>7 DEF Paid, ReservedExact, Reserved

\* For every creative run: neither cap is overshot by what the provider charges for what
\* the code does not take for free, whether the provider says what it charged or not,
\* whatever the text half has spent, however the tasks are killed, resumed and checked
\* again, while no image has been POSTed a second time (Law 43, _RESERVE).
THEOREM CapsHold == Spec => []BilledWithinCaps
<1>1. Init => Covered
  <2> SUFFICES ASSUME Init PROVE Covered
    OBVIOUS
  <2>1. Reconciled = {} /\ reserved = 0 /\ spent = 0
    BY DEF Init, BudgetInit, Reconciled
  <2>2. \A j \in Jobs : PriceList[j] \in Int
    BY InitHolds, PricesAreNat
  <2>3. Paid = 0
    BY <2>1, <2>2, BudgetAssumption, TotalLaws DEF Paid
  <2>4. QED
    BY <2>1, <2>3, BudgetAssumption DEF Covered
<1>2. IInv /\ IInv' /\ Money /\ Covered /\ [Next]_vars => Covered'
  BY CoveredKept
<1>3. IInv /\ Money /\ ReservedExact /\ Covered => BilledWithinCaps
  <2> DEFINE billed == Total(charged, Paying)
  <2> SUFFICES ASSUME IInv, Money, ReservedExact, Covered, OncePosted
               PROVE  WithinCaps(billed)
    BY DEF BilledWithinCaps, OncePosted, Paying
  <2>1. \A j \in Jobs : posts[j] < 2 /\ Purse(j)
    <3>1. TAKE j \in Jobs
    <3>2. posts[j] < 2
      BY DEF OncePosted, Images, IInv, VideoRow
    <3>3. QED
      BY <3>2 DEF Money
  <2>2. /\ billed \in Int /\ Paid \in Int /\ reserved \in Int
        /\ billed <= reserved + Paid
    BY <2>1, BilledIsCovered DEF Money
  <2>3. /\ reserved + Paid <= MediaCap
        /\ reserved + Paid > 0 => TextSpent + reserved + Paid <= CreativeCap
    BY DEF Covered
  <2>4. MediaCap \in Nat /\ CreativeCap \in Nat /\ TextSpent \in Nat
    BY BudgetAssumption
  <2> HIDE DEF billed
  <2>5. QED
    BY <2>2, <2>3, <2>4 DEF WithinCaps
<1>4. QED
  BY MoneyInvariance, ReservationsAddUp, <1>1, <1>2, <1>3, PTL DEF Spec

-----------------------------------------------------------------------------
(* What the budget refused                                                  *)

\* The jobs a task submits: a node's own, and the images it checks again.
Submitted(t) == Submits[t] \cup (Checks[t] \cap Images)

\* Each job is submitted by one task at a time.
OneSubmitter == \A t, u \in Tasks : t # u => Submitted(t) \cap Submitted(u) = {}

\* Where a task is on its way to the POST of a job it submits.
Submitting == {"requeue", "inputs", "reserve", "refused", "slot", "claim", "post"}

\* A refused job holds no money, a job that is about to be POSTed is not blocked, and
\* what was POSTed and is blocked is taken to have cost nothing.
Owned == \A t \in Tasks : task[t].pc \in Submitting => Job(t) \in Submitted(t)

Unbacked == \A t \in Tasks : At(t, "refused") /\ posts[Job(t)] < 2 => ~AlreadyBacked(Job(t))

Unblocked == \A t \in Tasks : At(t, "post") => row[Job(t)].status # "blocked"

Unspent ==
    \A j \in Jobs : row[j].status = "blocked" /\ posts[j] < 2 =>
        posts[j] = 0 \/ (Known(j) /\ Price(j) = 0)

Refusals == Owned /\ Unbacked /\ Unblocked /\ Unspent

\* How a task comes to be on its way to a POST.
LEMMA Submissions ==
    ASSUME IInv, [Next]_vars, NEW u \in Tasks, task'[u].pc \in Submitting
    PROVE  \/ task'[u] = task[u]
           \/ task'[u].pc \in {"requeue", "inputs"} /\ Job(u)' \in Submitted(u)
           \/ /\ task[u].pc \in Submitting /\ Job(u)' = Job(u)
              /\ task'[u].pc = "refused" => ReserveEstimate(u)
              /\ task'[u].pc = "post" => Claim(u)
<1>0. task \in TaskType
  BY DEF IInv, Types
<1> DEFINE Good == \/ task'[u] = task[u]
                   \/ task'[u].pc \in {"requeue", "inputs"} /\ Job(u)' \in Submitted(u)
                   \/ /\ task[u].pc \in Submitting /\ Job(u)' = Job(u)
                      /\ task'[u].pc = "refused" => ReserveEstimate(u)
                      /\ task'[u].pc = "post" => Claim(u)
\* Only its own step moves a task.
<1>1. ASSUME NEW t \in Tasks, t # u, NEW pc, NEW j, NEW b, Turned(t, pc, j, b) PROVE Good
  BY <1>1 DEF Turned
<1>2. ASSUME NEW pc \in Steps, Go(u, pc), pc \notin Submitting PROVE Good
  BY <1>0, <1>2, Turns DEF Turned
<1>3. ASSUME Return(u) \/ Wait(u) PROVE Good
  BY <1>0, <1>3, Turns DEF Turned, Submitting
<1>4. ASSUME NEW pc \in Submitting, Go(u, pc), task[u].pc \in Submitting,
             pc = "refused" => ReserveEstimate(u), pc = "post" => Claim(u)
      PROVE  Good
  <2>1. task'[u].pc = pc /\ Job(u)' = Job(u)
    BY <1>0, <1>4, Turns DEF Turned, Job, Submitting, Steps
  <2>2. QED
    BY <1>4, <2>1
<1>5. ASSUME NEW t \in Tasks, t # u, Step(t) PROVE task'[u] = task[u]
  BY <1>0, <1>5 DEF Step, Go, Return, Wait, TaskType,
         BudgetInputs, ReserveEstimate, Refuse, TakeSlot, Claim, Post, PostFails,
         PostUnanswered, VideoTaken, ImageMade, SaveId, RecordUnknown, Complete,
         DropReservation, Fail, Settle, BeginWait, Deadline, Poll, NoteProgress, Conclude,
         Reopen, Requeue
<1>6. ASSUME Step(u) PROVE Good
  <2>1. CASE BudgetInputs(u) \/ TakeSlot(u) \/ Requeue(u)
    <3>1. task[u].pc \in Submitting
      BY <2>1 DEF BudgetInputs, TakeSlot, Requeue, At, Submitting
    <3>2. Return(u) \/ \E pc \in Submitting \ {"refused", "post"} : Go(u, pc)
      BY <2>1 DEF BudgetInputs, TakeSlot, Requeue, Submitting
    <3>3. QED
      BY <1>3, <1>4, <3>1, <3>2
  <2>2. CASE ReserveEstimate(u) \/ Claim(u)
    <3>1. task[u].pc \in Submitting
      BY <2>2 DEF ReserveEstimate, Claim, At, Submitting
    <3>2. CASE Claim(u)
      BY <1>3, <1>4, <3>1, <3>2 DEF Claim, Submitting
    <3>3. CASE ReserveEstimate(u)
      <4>1. \E pc \in {"slot", "refused"} : Go(u, pc)
        BY <3>3 DEF ReserveEstimate
      <4>2. QED
        BY <1>4, <3>1, <3>3, <4>1 DEF Submitting
    <3>4. QED
      BY <2>2, <3>2, <3>3
  <2>3. CASE Refuse(u) \/ SaveId(u) \/ RecordUnknown(u) \/ Fail(u) \/ Settle(u) \/ Deadline(u)
    BY <1>3, <2>3 DEF Refuse, SaveId, RecordUnknown, Fail, Settle, Deadline
  <2>4. CASE Post(u) \/ PostFails(u) \/ PostUnanswered(u) \/ VideoTaken(u) \/ Complete(u) \/ DropReservation(u)
             \/ BeginWait(u) \/ NoteProgress(u) \/ Reopen(u)
    BY <1>2, <1>3, <2>4 DEF Post, PostFails, PostUnanswered, VideoTaken, Complete, DropReservation,
           BeginWait, NoteProgress, Reopen, Steps, Submitting
  <2>5. CASE Poll(u)
    <3>1. \E pc \in {"note", "drop", "heard"} : Go(u, pc)
      BY <2>5 DEF Poll
    <3>2. QED
      BY <1>2, <3>1 DEF Steps, Submitting
  <2>6. CASE ImageMade(u) \/ Conclude(u)
    BY <1>0, <2>6 DEF ImageMade, Conclude, TaskType, Submitting
  <2>7. QED
    BY <1>6, <2>1, <2>2, <2>3, <2>4, <2>5, <2>6 DEF Step
<1>7. ASSUME NEW t \in Tasks, NEW j \in Jobs, SubmitOrResume(t, j) \/ Check(t, j) PROVE Good
  <2>1. CASE t # u
    BY <1>0, <1>7, <2>1 DEF SubmitOrResume, Check, Begin, TaskType
  <2>2. CASE t = u /\ SubmitOrResume(u, j)
    <3>1. CASE Begin(u, j, "inputs", "node")
      <4>1. task'[u].pc = "inputs" /\ Job(u)' = j
        BY <1>0, <3>1, Turns DEF Turned, Job, Steps
      <4>2. j \in Submits[u]
        BY <2>2 DEF SubmitOrResume
      <4>3. QED
        BY <4>1, <4>2 DEF Submitted
    <3>2. CASE Begin(u, j, "await", "node")
      BY <1>0, <3>2, Turns DEF Turned, Submitting, Steps
    <3>3. CASE task' = [task EXCEPT ![u] = [Idle EXCEPT !.pc = "resettle", !.job = j, !.bill = row[j].cost]]
      BY <1>0, <3>3 DEF Idle, TaskType, Submitting
    <3>4. CASE UNCHANGED task
      BY <3>4
    <3>5. QED
      BY <2>2, <3>1, <3>2, <3>3, <3>4 DEF SubmitOrResume
  <2>3. CASE t = u /\ Check(u, j)
    <3>1. ASSUME NEW pc \in Steps, Begin(u, j, pc, "check")
          PROVE  task'[u].pc = pc /\ Job(u)' = j
      BY <1>0, <3>1, Turns DEF Turned, Job
    <3>2. Modality[j] = "image" => j \in Images
      BY DEF Images, Videos
    <3>3. j \in Checks[u]
      BY <2>3 DEF Check
    <3>4. QED
      BY <2>3, <3>1, <3>2, <3>3 DEF Check, Steps, Submitting, Submitted
  <2>4. QED
    BY <1>7, <2>1, <2>2, <2>3
<1>8. ASSUME NEW t \in Tasks, Stop(t) PROVE Good
  BY <1>0, <1>3, <1>8 DEF Stop, Return, TaskType
<1>9. CASE UNCHANGED task
  BY <1>9
<1>10. QED
  BY <1>5, <1>6, <1>7, <1>8, <1>9 DEF Next, Ask, Accept, ProviderEnds, vars

\* Only a refusal blocks a row.
LEMMA Blockings ==
    ASSUME IInv, [Next]_vars, NEW j \in Jobs, row'[j].status = "blocked", row[j].status # "blocked"
    PROVE  \E t \in Tasks : Refuse(t) /\ Job(t) = j
<1>0. row \in RowType /\ task \in TaskType
  BY DEF IInv, Types
<1>1. ASSUME NEW t \in Tasks, Step(t) PROVE Refuse(t) /\ Job(t) = j
  BY <1>0, <1>1 DEF Step, RowType, SetStatus, Finish,
         BudgetInputs, ReserveEstimate, Refuse, TakeSlot, Claim, Post, PostFails,
         PostUnanswered, VideoTaken, ImageMade, SaveId, RecordUnknown, Complete,
         DropReservation, Fail, Settle, BeginWait, Deadline, Poll, NoteProgress, Conclude,
         Reopen, Requeue, rest
<1>2. ASSUME NEW t \in Tasks, NEW k \in Jobs, SubmitOrResume(t, k) PROVE FALSE
  BY <1>0, <1>2 DEF SubmitOrResume, SetStatus, RowType
<1>3. QED
  BY <1>1, <1>2 DEF Next, Check, Stop, Ask, Accept, ProviderEnds, vars

\* A job POSTed at most once is backed by a reservation only, never by a late bill.
LEMMA Backings ==
    ASSUME IInv, Money, [Next]_vars, NEW j \in Jobs, posts[j] < 2, AlreadyBacked(j)', ~AlreadyBacked(j)
    PROVE  \E t \in Tasks : At(t, "reserve") /\ Job(t) = j
<1>1. ~UNCHANGED budget
  BY DEF budget, AlreadyBacked
<1>2. PICK t \in Tasks, k \in Jobs :
          /\ Starts(t, k)
          /\ UNCHANGED <<charged, quoted, remote, posts>>
          /\ \/ At(t, "reserve") /\ Reserve(k, floor[t])
             \/ At(t, "drop") /\ Release(k)
             \/ /\ At(t, "settle") \/ At(t, "resettle")
                /\ IF task[t].bill > 0 THEN Reconcile(k, task[t].bill) ELSE Release(k)
  BY <1>1, BudgetMoves, Zenon
<1>3. k = j /\ Job(t) = k /\ hold \in [Jobs -> {"none", "reserved", "reconciled", "released"}]
  <2>1. Job(t) = k /\ hold \in [Jobs -> {"none", "reserved", "reconciled", "released"}]
    BY <1>2 DEF Starts
  <2>2. hold'[j] # hold[j]
    BY DEF AlreadyBacked
  <2>3. k = j
    BY <1>2, <2>1, <2>2 DEF Reserve, Release, Reconcile, budget
  <2>4. QED
    BY <2>1, <2>3
<1>4. ~Release(j)
  BY <1>3 DEF Release, AlreadyBacked, budget
<1>5. CASE /\ At(t, "settle") \/ At(t, "resettle")
           /\ task[t].bill > 0 /\ Reconcile(j, task[t].bill)
  <2>1. task[t].bill = Price(j) /\ (Price(j) > 0 => AlreadyBacked(j))
    BY <1>2, <1>3, <1>5 DEF Starts, Payer, Purse, At
  <2>2. QED
    BY <1>5, <2>1
<1>6. QED
  BY <1>2, <1>3, <1>4, <1>5

\* Every step keeps a refused job without a hold, when one task submits it.
LEMMA RefusalsKept ==
    ASSUME OneSubmitter, IInv, Money, Refusals, [Next]_vars
    PROVE  Refusals'
<1>0. task \in TaskType /\ \A j \in Jobs : posts[j] \in Nat /\ posts'[j] \in Nat /\ posts[j] <= posts'[j]
  BY PostsGrow DEF IInv, Types
<1>p. \A t \in Tasks : task[t].pc \in Submitting => Job(t) \in Jobs
  BY DEF IInv, Types, Job, Submitting
<1>1. Owned'
  <2>1. SUFFICES ASSUME NEW t \in Tasks, task'[t].pc \in Submitting PROVE Job(t)' \in Submitted(t)
    BY DEF Owned, Submitted, Images, Videos
  <2>2. task'[t] = task[t] => Job(t)' = Job(t)
    BY DEF Job
  <2>3. QED
    BY <2>1, <2>2, Submissions DEF Refusals, Owned
\* Two tasks on their way to a POST of one job are the same.
<1>2. ASSUME NEW t \in Tasks, NEW u \in Tasks, task[t].pc \in Submitting, task[u].pc \in Submitting,
             Job(t) = Job(u)
      PROVE  t = u
  BY <1>2 DEF OneSubmitter, Refusals, Owned
<1>3. Unbacked'
  <2>1. SUFFICES ASSUME NEW t \in Tasks, task'[t].pc = "refused", posts'[Job(t)'] < 2, AlreadyBacked(Job(t))'
                 PROVE  FALSE
    BY DEF Unbacked, At
  <2>2. CASE task'[t] = task[t]
    <3>1. Job(t)' = Job(t) /\ Job(t) \in Jobs /\ At(t, "refused")
      BY <1>p, <2>1, <2>2 DEF Job, At, Submitting
    <3>2. posts[Job(t)] < 2 /\ ~AlreadyBacked(Job(t)) /\ AlreadyBacked(Job(t))'
      BY <1>0, <2>1, <3>1 DEF Refusals, Unbacked
    <3> DEFINE j == Job(t)
    <3>3. hold'[j] \in {"reserved", "reconciled"}
      BY <2>1, <3>1 DEF AlreadyBacked
    <3>4. \E u \in Tasks : At(u, "reserve") /\ Job(u) = j
      BY <3>1, <3>2, <3>3, Backings DEF AlreadyBacked
    <3>5. QED
      BY <1>2, <3>1, <3>4 DEF At, Submitting
  <2>3. CASE ReserveEstimate(t) /\ Job(t)' = Job(t)
    <3>1. task'[t].pc = IF AlreadyBacked(Job(t)) \/ Fits(Job(t), floor[t]) THEN "slot" ELSE "refused"
      BY <1>0, <2>3 DEF ReserveEstimate, Go, TaskType
    <3>2. hold' = hold
      BY <2>1, <2>3, <3>1 DEF ReserveEstimate, Reserve
    <3>3. QED
      BY <2>1, <2>3, <3>1, <3>2 DEF AlreadyBacked
  <2>4. QED
    BY <2>1, <2>2, <2>3, Submissions DEF Submitting
<1>4. Unblocked'
  <2>1. SUFFICES ASSUME NEW t \in Tasks, task'[t].pc = "post", row'[Job(t)'].status = "blocked"
                 PROVE  FALSE
    BY DEF Unblocked, At
  <2>2. CASE task'[t] = task[t]
    <3>1. Job(t)' = Job(t) /\ Job(t) \in Jobs /\ At(t, "post") /\ row[Job(t)].status # "blocked"
      BY <1>p, <2>1, <2>2 DEF Job, At, Submitting, Refusals, Unblocked
    <3>2. \E u \in Tasks : Refuse(u) /\ Job(u) = Job(t)
      BY <2>1, <3>1, Blockings
    <3>3. QED
      BY <1>2, <3>1, <3>2 DEF Refuse, At, Submitting
  <2>3. CASE Claim(t) /\ Job(t)' = Job(t) /\ task[t].pc \in Submitting
    <3>1. row[Job(t)].status = "queued"
      BY <1>0, <2>1, <2>3 DEF Claim, TaskType, Wait, Return, Idle
    <3>2. row'[Job(t)].status = "submitting"
      BY <1>p, <2>3, <3>1 DEF Claim, SetStatus, IInv, Types, RowType
    <3>3. QED
      BY <2>1, <2>3, <3>2
  <2>4. QED
    BY <2>1, <2>2, <2>3, Submissions DEF Submitting
<1>5. Unspent'
  <2>1. SUFFICES ASSUME NEW j \in Jobs, row'[j].status = "blocked", posts'[j] < 2
                 PROVE  posts'[j] = 0 \/ (Known(j)' /\ Price(j)' = 0)
    BY DEF Unspent
  <2>2. posts[j] < 2 /\ Purse(j) /\ (Known(j) => Known(j)' /\ Price(j)' = Price(j))
    BY <2>1, PricesStay
  <2>3. CASE row[j].status # "blocked"
    <3>1. PICK t \in Tasks : Refuse(t) /\ Job(t) = j
      BY <2>1, <2>3, Blockings
    <3>2. ~AlreadyBacked(j) /\ UNCHANGED <<posts, remote, quoted>>
      BY <2>2, <3>1 DEF Refuse, Refusals, Unbacked, rest
    <3>3. Price(j) \in Nat
      BY PricesAreNat
    <3>4. Price(j) = 0 /\ (posts[j] = 1 => Known(j))
      BY <2>2, <3>2, <3>3 DEF Purse, AlreadyBacked
    <3>5. posts[j] = 0 \/ posts[j] = 1
      BY <1>0, <2>2
    <3>6. QED
      BY <2>2, <3>2, <3>4, <3>5
  <2>4. CASE row[j].status = "blocked"
    <3>1. posts'[j] = posts[j]
      BY <2>4, PostsGrow DEF Post, Refusals, Unblocked
    <3>2. posts[j] = 0 \/ (Known(j) /\ Price(j) = 0)
      BY <2>2, <2>4 DEF Refusals, Unspent
    <3>3. QED
      BY <2>2, <3>1, <3>2
  <2>5. QED
    BY <2>3, <2>4
<1>6. QED
  BY <1>1, <1>3, <1>4, <1>5 DEF Refusals

\* For every creative run in which one task at a time submits a job: what the budget
\* refused has cost nothing, unless it was POSTed a second time or is of what the code
\* takes for free (_submit).
THEOREM BlockedJobsAreUnspent == OneSubmitter => (Spec => []BlockedIsUnspent)
<1> SUFFICES ASSUME OneSubmitter PROVE Spec => []BlockedIsUnspent
  OBVIOUS
<1>1. Init => Refusals
  <2> SUFFICES ASSUME Init PROVE Refusals
    OBVIOUS
  <2>1. \A t \in Tasks : task[t].pc = "idle"
    BY DEF Init, Idle
  <2>2. \A j \in Jobs : row[j].status = "absent"
    BY DEF Init
  <2>3. QED
    BY <2>1, <2>2 DEF Refusals, Owned, Unbacked, Unblocked, Unspent, At, Submitting
<1>2. IInv /\ Money /\ Refusals /\ [Next]_vars => Refusals'
  BY RefusalsKept
<1>3. IInv /\ Money /\ Refusals => BlockedIsUnspent
  <2> SUFFICES ASSUME IInv, Money, Refusals, NEW j \in Jobs,
                      row[j].status = "blocked", posts[j] < 2, ~TakenForFree(j)
               PROVE  charged[j] = 0
    BY DEF BlockedIsUnspent
  <2>1. posts[j] = 0 \/ (Known(j) /\ Price(j) = 0)
    BY DEF Refusals, Unspent
  <2>2. Purse(j) /\ Estimate[j] \in Nat /\ Estimate[j] > 0 /\ quoted[j] \in Nat
    BY BudgetAssumption DEF Money, IInv, Types
  <2>3. QED
    BY <2>1, <2>2 DEF Purse, Known, Price, CostOf, TakenForFree
<1>4. QED
  BY MoneyInvariance, <1>1, <1>2, <1>3, PTL DEF Spec

=============================================================================
