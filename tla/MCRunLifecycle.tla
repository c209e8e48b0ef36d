---------------------------- MODULE MCRunLifecycle ----------------------------
(* The pipelines of the instances. Names of nodes: a, b, c do work, g and h   *)
(* are gates, t is the clearance H3, u an attestation (H1 or H2).              *)
EXTENDS RunLifecycle, TLC

\* A gate and what it holds back.
Gated == [g |-> {}, c |-> {"g"}]

\* Two gates side by side, work behind one of them.
TwoGates == [g |-> {}, h |-> {}, c |-> {"g"}]

\* A gate alone.
OneGate == [g |-> {}]

\* Two nodes of plain work in a row.
Chain == [a |-> {}, b |-> {"a"}]

\* Two gates, a clearance and an attestation behind them, and what these hold back.
Staffed == [g |-> {}, h |-> {}, t |-> {"g"}, u |-> {"h"}, c |-> {"t", "u"}]

KindOf(n) ==
    CASE n \in {"g", "h"} -> "gate"
      [] n = "t" -> "clear"
      [] n = "u" -> "attest"
      [] OTHER -> "work"

GatedKind == [n \in DOMAIN Gated |-> KindOf(n)]
TwoGatesKind == [n \in DOMAIN TwoGates |-> KindOf(n)]
OneGateKind == [n \in DOMAIN OneGate |-> KindOf(n)]
ChainKind == [n \in DOMAIN Chain |-> KindOf(n)]
StaffedKind == [n \in DOMAIN Staffed |-> KindOf(n)]

\* Handlers and job slots are interchangeable, and no property names one.
Interchangeable == Permutations(Handlers) \cup Permutations(Workers)

=============================================================================
