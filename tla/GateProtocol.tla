----------------------------- MODULE GateProtocol -----------------------------
(***************************************************************************)
(* What a gate promises, whoever runs it: a question has one answer, only a *)
(* person's yes lets the gate's node count as done, and a yes is for good.  *)
(* A question closed unanswered, or answered no, may be asked again.        *)
(***************************************************************************)
CONSTANTS
    Runs,       \* the runs
    Gates,      \* the gate nodes of the pipeline
    Optional    \* gates that may find they have nothing to ask

VARIABLES
    question,   \* the newest question of each run and gate
    done        \* the gate's node counts as done

vars == <<question, done>>

Init ==
    /\ question = [r \in Runs |-> [g \in Gates |-> "none"]]
    /\ done = [r \in Runs |-> [g \in Gates |-> FALSE]]

Ask(r, g) ==
    /\ question[r][g] \in {"none", "rejected", "expired"}
    /\ ~done[r][g]
    /\ question' = [question EXCEPT ![r][g] = "pending"]
    /\ UNCHANGED done

Answer(r, g, verdict) ==
    /\ question[r][g] = "pending"
    /\ question' = [question EXCEPT ![r][g] = verdict]
    /\ done' = [done EXCEPT ![r][g] = (verdict = "approved")]

\* The run ended: its open questions are closed together.
Close(r) ==
    /\ question' = [question EXCEPT ![r] =
                      [g \in Gates |-> IF @[g] = "pending" THEN "expired" ELSE @[g]]]
    /\ UNCHANGED done

PassUnasked(r, g) ==
    /\ g \in Optional
    /\ question[r][g] # "pending"
    /\ done' = [done EXCEPT ![r][g] = TRUE]
    /\ UNCHANGED question

Next ==
    \E r \in Runs :
        \/ Close(r)
        \/ \E g \in Gates :
              \/ Ask(r, g)
              \/ PassUnasked(r, g)
              \/ \E verdict \in {"approved", "rejected"} : Answer(r, g, verdict)

Spec == Init /\ [][Next]_vars

=============================================================================
