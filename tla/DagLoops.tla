------------------------------- MODULE DagLoops -------------------------------
(***************************************************************************)
(* The loops of orchestrator/dag.py: a Dag is built and validated, then     *)
(* asked one question.  Each iteration of a while loop is one step.  The    *)
(* lists popped from the end in the source are sets here: any order.        *)
(***************************************************************************)
EXTENDS Dag, Sequences

CONSTANT Ids        \* node ids that a registry may declare

VARIABLES
    deps,       \* _deps: what each node depends on
    pc,         \* the loop that is running
    asked,      \* the node_ids argument of the call
    frontier,   \* nodes still to be expanded
    found,      \* seen in descendants, wanted in closure
    remaining,  \* nodes not layered yet, with the dependencies they wait for
    ordered     \* the layers so far

vars == <<deps, pc, asked, frontier, found, remaining, ordered>>

\* No registry gets past _validate with a dependency on itself.
Declared == {d \in [Ids -> SUBSET Ids] : \A n \in Ids : n \notin d[n]}

Init ==
    /\ deps \in Declared
    /\ pc = "validate"
    /\ asked = {} /\ frontier = {} /\ found = {} /\ ordered = <<>>
    /\ remaining = deps

Ready == {n \in DOMAIN remaining : remaining[n] = {}}

\* del remaining[node] for the ready ones, difference_update for the others.
Without(S) == [n \in DOMAIN remaining \ S |-> remaining[n] \ S]

\* Mutants: what is left over is accepted, or waited for.
ValidateLeftover ==
    /\ pc = "validate"
    /\ IF Ready = {} THEN pc' = "valid" /\ UNCHANGED remaining
       ELSE remaining' = Without(Ready) /\ UNCHANGED pc
    /\ UNCHANGED <<deps, asked, frontier, found, ordered>>

ValidateForever ==
    /\ pc = "validate"
    /\ IF DOMAIN remaining = {} THEN pc' = "valid" /\ UNCHANGED remaining
       ELSE remaining' = Without(Ready) /\ UNCHANGED pc
    /\ UNCHANGED <<deps, asked, frontier, found, ordered>>

\* _assert_acyclic: whatever is left when nothing is ready is the cycle.
Validate ==
    /\ pc = "validate"
    /\ IF DOMAIN remaining = {} THEN pc' = "valid" /\ UNCHANGED remaining
       ELSE IF Ready = {} THEN pc' = "rejected" /\ UNCHANGED remaining
       ELSE remaining' = Without(Ready) /\ UNCHANGED pc
    /\ UNCHANGED <<deps, asked, frontier, found, ordered>>

CallDescendants(n) ==
    /\ pc = "valid"
    /\ pc' = "descendants"
    /\ asked' = {n} /\ frontier' = {n} /\ found' = {}
    /\ UNCHANGED <<deps, remaining, ordered>>

\* Mutant: the nodes asked for are not part of the answer.
CallClosureWithout(W) ==
    /\ pc = "valid"
    /\ pc' = "closure"
    /\ asked' = W /\ frontier' = W /\ found' = {}
    /\ UNCHANGED <<deps, remaining, ordered>>

CallClosure(W) ==
    /\ pc = "valid"
    /\ pc' = "closure"
    /\ asked' = W /\ frontier' = W /\ found' = W
    /\ UNCHANGED <<deps, remaining, ordered>>

\* Mutant: the neighbours are found and not followed.
ExpandOnce(n, neighbours) ==
    /\ n \in frontier
    /\ found' = found \cup neighbours
    /\ frontier' = frontier \ {n}
    /\ UNCHANGED <<deps, pc, asked, remaining, ordered>>

\* frontier.pop(), and what is new among its neighbours joins both sets.
Expand(n, neighbours) ==
    /\ n \in frontier
    /\ found' = found \cup neighbours
    /\ frontier' = (frontier \ {n}) \cup (neighbours \ found)
    /\ UNCHANGED <<deps, pc, asked, remaining, ordered>>

Descend(n) == pc = "descendants" /\ Expand(n, Dependents(deps, n))

Widen(n) == pc = "closure" /\ Expand(n, deps[n])

\* descendants returns; closure returns, to its caller or to waves.
Return ==
    /\ frontier = {}
    /\ \/ pc = "descendants" /\ pc' = "returned descendants" /\ UNCHANGED remaining
       \/ pc = "closure" /\ pc' = "returned closure" /\ UNCHANGED remaining
       \/ /\ pc = "closure"
          /\ pc' = "waves"
          /\ remaining' = [n \in found |-> deps[n] \cap found]
    /\ UNCHANGED <<deps, asked, frontier, found, ordered>>

\* Mutant: one finished dependency releases a node.
LayerAfterAny ==
    /\ pc = "waves"
    /\ IF DOMAIN remaining = {}
       THEN pc' = "returned waves" /\ UNCHANGED <<remaining, ordered>>
       ELSE /\ ordered' = Append(ordered, Ready)
            /\ remaining' = [n \in DOMAIN remaining \ Ready |->
                               IF remaining[n] \cap Ready = {} THEN remaining[n] ELSE {}]
            /\ UNCHANGED pc
    /\ UNCHANGED <<deps, asked, frontier, found>>

\* waves: the next layer is everything that waits for nothing. With nothing ready
\* it raises: no test gets there.
Layer ==
    /\ pc = "waves"
    /\ IF DOMAIN remaining = {}
       THEN pc' = "returned waves" /\ UNCHANGED <<remaining, ordered>>
       ELSE IF Ready = {} THEN pc' = "raised" /\ UNCHANGED <<remaining, ordered>>
       ELSE /\ ordered' = Append(ordered, Ready)
            /\ remaining' = Without(Ready)
            /\ UNCHANGED pc
    /\ UNCHANGED <<deps, asked, frontier, found>>

Busy == {"validate", "descendants", "closure", "waves"}

Step ==
    \/ Validate \/ Return \/ Layer
    \/ \E n \in Ids : Descend(n) \/ Widen(n)

Next ==
    \/ Step
    \/ \E n \in Ids : CallDescendants(n)
    \/ \E W \in SUBSET Ids : CallClosure(W)

Spec == Init /\ [][Next]_vars /\ WF_vars(Step)

-----------------------------------------------------------------------------

\* The constructor raises DagError for the graphs with a cycle and for no other.
ValidationExact ==
    /\ pc = "rejected" => ~Acyclic(deps)
    /\ pc \notin {"validate", "rejected"} => Acyclic(deps)

\* descendants(n) is everything downstream of n and nothing else: what the
\* executor records as skipped when n fails, and holds back while n waits.
DescendantsExact ==
    pc = "returned descendants" => \A n \in asked : found = Descendants(deps, n)

\* closure(W) is the least selection that can be executed.
ClosureExact ==
    pc \in {"returned closure", "waves", "returned waves"} => found = Closure(deps, asked)

\* waves() puts every selected node in one layer, the layers are those the
\* executor model computes, and it never raises for a graph that was accepted.
LayersExact ==
    LET selected == [n \in found |-> deps[n] \cap found]
    IN  /\ pc # "raised"
        /\ pc \in {"waves", "returned waves"} =>
            /\ \A k \in 1..Len(ordered) : ordered[k] = Wave(selected, k)
            /\ pc = "returned waves" =>
                  UNION {ordered[k] : k \in 1..Len(ordered)} = found

\* Every loop ends, also on a graph with a cycle.
LoopsEnd == pc \in Busy ~> pc \notin Busy

=============================================================================
