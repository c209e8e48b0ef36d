-------------------------------- MODULE Dag --------------------------------
(***************************************************************************)
(* The dependency graph of one pipeline (orchestrator/dag.py), as operators *)
(* on a function deps that gives every node the set of nodes it depends on. *)
(* The worklist loops of the source are in DagLoops, which checks that they *)
(* compute what is defined here.                                            *)
(***************************************************************************)
EXTENDS Naturals, FiniteSets

\* Nodes that name n directly.
Dependents(deps, n) == {m \in DOMAIN deps : n \in deps[m]}

\* S holds every node that depends on one of its members.
ClosedDown(deps, S) == \A m \in S : Dependents(deps, m) \subseteq S

\* S holds every dependency of its members.
ClosedUp(deps, S) == \A m \in S : deps[m] \subseteq S

\* Everything downstream of n: the least set holding n's dependents and theirs.
Descendants(deps, n) ==
    {m \in DOMAIN deps :
        \A S \in SUBSET DOMAIN deps :
            Dependents(deps, n) \subseteq S /\ ClosedDown(deps, S) => m \in S}

\* W widened to everything it depends on: the least such set holding W.
Closure(deps, W) ==
    {m \in DOMAIN deps :
        \A S \in SUBSET DOMAIN deps :
            W \subseteq S /\ ClosedUp(deps, S) => m \in S}

\* No set of nodes in which everyone waits for another one of the set.
Acyclic(deps) ==
    \A S \in SUBSET DOMAIN deps :
        S # {} => \E n \in S : deps[n] \cap S = {}

\* The nodes that are left once the first k topological layers are taken.
Unlayered(deps) ==
    LET left[k \in Nat] ==
          IF k = 0 THEN DOMAIN deps
          ELSE {n \in left[k - 1] : deps[n] \cap left[k - 1] # {}}
    IN  left

\* The k-th wave, from 1: what is ready once the waves before it are done.
Wave(deps, k) == Unlayered(deps)[k - 1] \ Unlayered(deps)[k]

=============================================================================
