----------------------------- MODULE MediaBudget -----------------------------
(***************************************************************************)
(* The reservations of one creative run (media/budget.py): three Lua scripts *)
(* over a hash of the run and one of each job. Amounts are whole units of    *)
(* money; the text half of the creative cap is fixed in an instance.         *)
(***************************************************************************)
EXTENDS Integers, FiniteSetsExt

CONSTANTS Jobs, Estimate, MediaCap, CreativeCap, TextSpent

ASSUME BudgetAssumption ==
    /\ IsFiniteSet(Jobs)
    /\ Estimate \in [Jobs -> Nat \ {0}]
    /\ MediaCap \in Nat /\ CreativeCap \in Nat /\ TextSpent \in Nat

VARIABLES hold,      \* the state of each job's hash
          spent,     \* the run's hash
          reserved

budget == <<hold, spent, reserved>>

BudgetTypeOK ==
    /\ hold \in [Jobs -> {"none", "reserved", "reconciled", "released"}]
    /\ spent \in Nat
    /\ reserved \in Int

BudgetInit ==
    /\ hold = [j \in Jobs |-> "none"]
    /\ spent = 0
    /\ reserved = 0

\* The sum of the amounts of a set of jobs.
Total(amount, S) == MapThenSumSet(LAMBDA j : amount[j], S)

\* Mutant: a job that was submitted before reserves again.
AlreadyBackedIfSpent(j) == hold[j] = "reconciled"

\* A job is reserved for once, however often it is submitted.
AlreadyBacked(j) == hold[j] \in {"reserved", "reconciled"}

\* The committed spend is a floor, for a Redis that lost its state.
Counted(floor) == IF floor > spent THEN floor ELSE spent

\* Mutant: what other jobs hold is not counted.
FitsAlone(j, floor) ==
    LET total == Counted(floor) + Estimate[j]
    IN  total <= MediaCap /\ TextSpent + total <= CreativeCap

Fits(j, floor) ==
    LET total == Counted(floor) + reserved + Estimate[j]
    IN  total <= MediaCap /\ TextSpent + total <= CreativeCap

\* _RESERVE; the floor is written even when the reservation is refused.
Reserve(j, floor) ==
    IF AlreadyBacked(j) THEN UNCHANGED budget
    ELSE /\ spent' = Counted(floor)
         /\ IF Fits(j, floor)
            THEN /\ hold' = [hold EXCEPT ![j] = "reserved"]
                 /\ reserved' = reserved + Estimate[j]
            ELSE UNCHANGED <<hold, reserved>>

\* Mutant: the difference to the estimate is taken from the spend.
ReconcileDifference(j, cost) ==
    IF hold[j] \in {"none", "reconciled"} THEN UNCHANGED budget
    ELSE /\ hold' = [hold EXCEPT ![j] = "reconciled"]
         /\ reserved' = IF hold[j] = "reserved" THEN reserved - Estimate[j] ELSE reserved
         /\ spent' = spent + cost - Estimate[j]

\* _RECONCILE
Reconcile(j, cost) ==
    IF hold[j] \in {"none", "reconciled"} THEN UNCHANGED budget
    ELSE /\ hold' = [hold EXCEPT ![j] = "reconciled"]
         /\ reserved' = IF hold[j] = "reserved" THEN reserved - Estimate[j] ELSE reserved
         /\ spent' = spent + cost

\* Mutant: the job's own hash is not marked.
ReleaseUnmarked(j) ==
    IF hold[j] # "reserved" THEN UNCHANGED budget
    ELSE reserved' = reserved - Estimate[j] /\ UNCHANGED <<hold, spent>>

\* _RELEASE
Release(j) ==
    IF hold[j] # "reserved" THEN UNCHANGED budget
    ELSE /\ hold' = [hold EXCEPT ![j] = "released"]
         /\ reserved' = reserved - Estimate[j]
         /\ UNCHANGED spent

=============================================================================
