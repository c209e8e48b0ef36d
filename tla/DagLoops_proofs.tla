--------------------------- MODULE DagLoops_proofs ---------------------------
(***************************************************************************)
(* The loops of dag.py compute what Dag defines, for every set of node ids   *)
(* and every graph over it.                                                  *)
(***************************************************************************)
EXTENDS DagLoops, Lemmas_proofs

\* What the loops leave alone.
Shape ==
    /\ deps \in [Ids -> SUBSET Ids]
    /\ asked \subseteq Ids /\ frontier \subseteq Ids /\ found \subseteq Ids
    /\ pc \in Busy \cup {"valid", "rejected", "raised", "returned descendants",
                         "returned closure", "returned waves"}

\* The nodes left wait for one another as deps says, and a set in which everyone
\* waits for someone is among them.
Validating ==
    /\ pc = "validate" =>
          /\ DOMAIN remaining \subseteq Ids
          /\ remaining = [n \in DOMAIN remaining |-> deps[n] \cap DOMAIN remaining]
          /\ \A S \in SUBSET Ids :
                (\A n \in S : deps[n] \cap S # {}) => S \subseteq DOMAIN remaining
    /\ ValidationExact

\* What is found is downstream, and what is downstream of it is found or will be.
Descending ==
    pc \in {"descendants", "returned descendants"} =>
        /\ frontier \subseteq found \cup asked
        /\ \E n \in Ids : asked = {n}
        /\ \A n \in found \cup asked : n \in frontier \/ Dependents(deps, n) \subseteq found
        /\ \A S \in SUBSET Ids :
              (\A n \in asked : Dependents(deps, n) \subseteq S) /\ ClosedDown(deps, S) => found \subseteq S
        /\ pc = "returned descendants" => frontier = {}

\* What is found is needed, and what it needs is found or will be.
Widening ==
    pc \in {"closure", "returned closure", "waves", "returned waves"} =>
        /\ frontier \subseteq found
        /\ asked \subseteq found
        /\ \A n \in found : n \in frontier \/ deps[n] \subseteq found
        /\ \A S \in SUBSET Ids : asked \subseteq S /\ ClosedUp(deps, S) => found \subseteq S
        /\ pc # "closure" => frontier = {}

Selected == [n \in found |-> deps[n] \cap found]

\* What is left after the layers so far is what Dag leaves.
Layering ==
    /\ pc # "raised"
    /\ pc \in {"validate", "valid", "closure"} => ordered = <<>>
    /\ pc \in {"waves", "returned waves"} =>
        /\ ordered \in Seq(SUBSET Ids)
        /\ DOMAIN remaining = Unlayered(Selected)[Len(ordered)]
        /\ remaining = [n \in DOMAIN remaining |-> Selected[n] \cap DOMAIN remaining]
        /\ \A k \in 1 .. Len(ordered) : ordered[k] = Wave(Selected, k)
        /\ UNION {ordered[k] : k \in 1 .. Len(ordered)} = found \ DOMAIN remaining
        /\ pc = "returned waves" => DOMAIN remaining = {}

IInv == Shape /\ Validating /\ Descending /\ Widening /\ Layering

-----------------------------------------------------------------------------
(* The steps                                                                *)

\* What the caller of the loops, and the loops themselves, leave alone.
LEMMA ShapeKept == IInv /\ [Next]_vars => Shape'
<1> SUFFICES ASSUME IInv, [Next]_vars PROVE Shape'
  OBVIOUS
<1> USE DEF IInv, Shape, Busy
<1>1. CASE Validate
  BY <1>1 DEF Validate
<1>2. CASE Return
  BY <1>2 DEF Return
<1>3. CASE Layer
  BY <1>3 DEF Layer
<1>4. ASSUME NEW n \in Ids, Descend(n) PROVE Shape'
  BY <1>4 DEF Descend, Expand, Dependents
<1>5. ASSUME NEW n \in Ids, Widen(n) PROVE Shape'
  BY <1>5 DEF Widen, Expand
<1>6. ASSUME NEW n \in Ids, CallDescendants(n) PROVE Shape'
  BY <1>6 DEF CallDescendants
<1>7. ASSUME NEW W \in SUBSET Ids, CallClosure(W) PROVE Shape'
  BY <1>7 DEF CallClosure
<1>8. CASE UNCHANGED vars
  BY <1>8 DEF vars
<1>9. QED
  BY <1>1, <1>2, <1>3, <1>4, <1>5, <1>6, <1>7, <1>8 DEF Next, Step

\* Taking away what is ready leaves every cycle.
LEMMA ValidatingKept == IInv /\ [Next]_vars => Validating'
<1> SUFFICES ASSUME IInv, [Next]_vars PROVE Validating'
  OBVIOUS
<1> USE DEF IInv, Shape
<1>1. CASE Validate
  <2> DEFINE R == DOMAIN remaining
  <2>1. /\ pc = "validate"
        /\ deps' = deps
        /\ R \subseteq Ids
        /\ \A n \in R : remaining[n] = deps[n] \cap R
        /\ \A S \in SUBSET Ids : (\A n \in S : deps[n] \cap S # {}) => S \subseteq R
    BY <1>1 DEF Validate, Validating
  <2>2. DOMAIN deps = Ids
    OBVIOUS
  <2>3. CASE R = {}
    <3>1. pc' = "valid"
      BY <1>1, <2>3 DEF Validate
    <3>2. Acyclic(deps)
      BY <2>1, <2>2, <2>3 DEF Acyclic
    <3>3. QED
      BY <2>1, <3>1, <3>2 DEF Validating, ValidationExact
  <2>4. CASE R # {} /\ Ready = {}
    <3>1. pc' = "rejected"
      BY <1>1, <2>4 DEF Validate
    <3>2. \A n \in R : deps[n] \cap R # {}
      BY <2>1, <2>4 DEF Ready
    <3>3. ~Acyclic(deps)
      BY <2>1, <2>2, <2>4, <3>2 DEF Acyclic
    <3>4. QED
      BY <2>1, <3>1, <3>3 DEF Validating, ValidationExact
  <2>5. CASE R # {} /\ Ready # {}
    <3>1. pc' = "validate" /\ remaining' = [n \in R \ Ready |-> remaining[n] \ Ready]
      BY <1>1, <2>1, <2>5 DEF Validate, Without
    <3>2. DOMAIN remaining' = R \ Ready
      BY <3>1
    <3>3. \A n \in R \ Ready : remaining[n] \ Ready = deps[n] \cap (R \ Ready)
      BY <2>1
    <3>4. remaining' = [n \in R \ Ready |-> deps[n] \cap (R \ Ready)]
      BY <3>1, <3>3
    <3>5. ASSUME NEW S \in SUBSET Ids, \A n \in S : deps[n] \cap S # {}
          PROVE  S \subseteq R \ Ready
      <4>1. S \subseteq R
        BY <2>1, <3>5
      <4>2. \A n \in S : n \notin Ready
        BY <2>1, <3>5, <4>1 DEF Ready
      <4>3. QED
        BY <4>1, <4>2
    <3>6. R \ Ready \subseteq Ids
      BY <2>1
    <3> HIDE DEF R
    <3>7. QED
      BY <2>1, <3>1, <3>2, <3>4, <3>5, <3>6 DEF Validating, ValidationExact
  <2>6. QED
    BY <2>3, <2>4, <2>5
<1>2. CASE Return
  BY <1>2 DEF Return, Validating, ValidationExact
<1>3. CASE Layer
  BY <1>3 DEF Layer, Validating, ValidationExact
<1>4. ASSUME NEW n \in Ids, Descend(n) PROVE Validating'
  BY <1>4 DEF Descend, Expand, Validating, ValidationExact
<1>5. ASSUME NEW n \in Ids, Widen(n) PROVE Validating'
  BY <1>5 DEF Widen, Expand, Validating, ValidationExact
<1>6. ASSUME NEW n \in Ids, CallDescendants(n) PROVE Validating'
  BY <1>6 DEF CallDescendants, Validating, ValidationExact
<1>7. ASSUME NEW W \in SUBSET Ids, CallClosure(W) PROVE Validating'
  BY <1>7 DEF CallClosure, Validating, ValidationExact
<1>8. CASE UNCHANGED vars
  BY <1>8 DEF vars, Validating, ValidationExact, Acyclic
<1>9. QED
  BY <1>1, <1>2, <1>3, <1>4, <1>5, <1>6, <1>7, <1>8 DEF Next, Step

\* A node that is expanded leaves the frontier with its dependents found.
LEMMA DescendingKept == IInv /\ [Next]_vars => Descending'
<1> SUFFICES ASSUME IInv, [Next]_vars PROVE Descending'
  OBVIOUS
<1> USE DEF IInv, Shape
<1>1. CASE Validate
  BY <1>1 DEF Validate, Descending
<1>2. CASE Return
  BY <1>2 DEF Return, Descending
<1>3. CASE Layer
  BY <1>3 DEF Layer, Descending
<1>4. ASSUME NEW n \in Ids, Descend(n) PROVE Descending'
  <2> DEFINE children == Dependents(deps, n)
  <2>1. /\ pc = "descendants" /\ pc' = pc /\ deps' = deps /\ asked' = asked
        /\ n \in frontier
        /\ found' = found \cup children
        /\ frontier' = (frontier \ {n}) \cup (children \ found)
    BY <1>4 DEF Descend, Expand
  <2>2. /\ frontier \subseteq found \cup asked
        /\ \E a \in Ids : asked = {a}
        /\ \A m \in found \cup asked : m \in frontier \/ Dependents(deps, m) \subseteq found
        /\ \A S \in SUBSET Ids :
              (\A a \in asked : Dependents(deps, a) \subseteq S) /\ ClosedDown(deps, S) => found \subseteq S
    BY <2>1 DEF Descending
  <2>3. frontier' \subseteq found' \cup asked'
    BY <2>1, <2>2
  <2>4. \A m \in found' \cup asked' : m \in frontier' \/ Dependents(deps, m) \subseteq found'
    <3>1. TAKE m \in found' \cup asked'
    <3>2. CASE m = n
      BY <2>1, <3>2
    <3>3. CASE m # n /\ m \in found \cup asked
      <4> HIDE DEF children
      <4>1. QED
        BY <2>1, <2>2, <3>3
    <3>4. CASE m # n /\ m \in children \ found
      BY <2>1, <3>4
    <3>5. QED
      BY <2>1, <3>2, <3>3, <3>4
  <2>5. ASSUME NEW S \in SUBSET Ids, \A a \in asked : Dependents(deps, a) \subseteq S,
               ClosedDown(deps, S)
        PROVE  found' \subseteq S
    <3>1. found \subseteq S
      BY <2>2, <2>5
    <3>2. n \in found \/ n \in asked
      BY <2>1, <2>2
    <3>3. children \subseteq S
      BY <2>5, <3>1, <3>2 DEF ClosedDown
    <3>4. QED
      BY <2>1, <3>1, <3>3
  <2> HIDE DEF children
  <2>6. QED
    BY <2>1, <2>2, <2>3, <2>4, <2>5 DEF Descending
<1>5. ASSUME NEW n \in Ids, Widen(n) PROVE Descending'
  BY <1>5 DEF Widen, Expand, Descending
<1>6. ASSUME NEW n \in Ids, CallDescendants(n) PROVE Descending'
  BY <1>6 DEF CallDescendants, Descending
<1>7. ASSUME NEW W \in SUBSET Ids, CallClosure(W) PROVE Descending'
  BY <1>7 DEF CallClosure, Descending
<1>8. CASE UNCHANGED vars
  BY <1>8 DEF vars, Descending
<1>9. QED
  BY <1>1, <1>2, <1>3, <1>4, <1>5, <1>6, <1>7, <1>8 DEF Next, Step

\* A node that is expanded leaves the frontier with its dependencies found.
LEMMA WideningKept == IInv /\ [Next]_vars => Widening'
<1> SUFFICES ASSUME IInv, [Next]_vars PROVE Widening'
  OBVIOUS
<1> USE DEF IInv, Shape
<1>1. CASE Validate
  BY <1>1 DEF Validate, Widening
<1>2. CASE Return
  BY <1>2 DEF Return, Widening
<1>3. CASE Layer
  BY <1>3 DEF Layer, Widening
<1>4. ASSUME NEW n \in Ids, Descend(n) PROVE Widening'
  BY <1>4 DEF Descend, Expand, Widening
<1>5. ASSUME NEW n \in Ids, Widen(n) PROVE Widening'
  <2>1. /\ pc = "closure" /\ pc' = pc /\ deps' = deps /\ asked' = asked
        /\ n \in frontier
        /\ found' = found \cup deps[n]
        /\ frontier' = (frontier \ {n}) \cup (deps[n] \ found)
    BY <1>5 DEF Widen, Expand
  <2>2. /\ frontier \subseteq found
        /\ asked \subseteq found
        /\ \A m \in found : m \in frontier \/ deps[m] \subseteq found
        /\ \A S \in SUBSET Ids : asked \subseteq S /\ ClosedUp(deps, S) => found \subseteq S
    BY <2>1 DEF Widening
  <2>3. frontier' \subseteq found' /\ asked' \subseteq found'
    BY <2>1, <2>2
  <2>4. \A m \in found' : m \in frontier' \/ deps[m] \subseteq found'
    BY <2>1, <2>2
  <2>5. ASSUME NEW S \in SUBSET Ids, asked \subseteq S, ClosedUp(deps, S) PROVE found' \subseteq S
    BY <2>1, <2>2, <2>5 DEF ClosedUp
  <2>6. QED
    BY <2>1, <2>3, <2>4, <2>5 DEF Widening
<1>6. ASSUME NEW n \in Ids, CallDescendants(n) PROVE Widening'
  BY <1>6 DEF CallDescendants, Widening
<1>7. ASSUME NEW W \in SUBSET Ids, CallClosure(W) PROVE Widening'
  BY <1>7 DEF CallClosure, Widening
<1>8. CASE UNCHANGED vars
  BY <1>8 DEF vars, Widening
<1>9. QED
  BY <1>1, <1>2, <1>3, <1>4, <1>5, <1>6, <1>7, <1>8 DEF Next, Step

\* Of an accepted graph something is ready as long as something is left, and it is
\* the next layer of Dag.
LEMMA ReadyIsNextWave ==
    ASSUME IInv, pc = "waves"
    PROVE  LET k == Len(ordered)
           IN  /\ k \in Nat
               /\ Ready \subseteq DOMAIN remaining
               /\ DOMAIN remaining # {} => Ready # {}
               /\ DOMAIN remaining \ Ready = Unlayered(Selected)[k + 1]
               /\ Ready = Wave(Selected, k + 1)
<1> DEFINE k == Len(ordered)
           R == DOMAIN remaining
           u == Unlayered(Selected)
<1>1. /\ ordered \in Seq(SUBSET Ids)
      /\ R = u[k]
      /\ remaining = [n \in R |-> Selected[n] \cap R]
  BY DEF IInv, Layering
<1>2. k \in Nat
  BY <1>1
<1>3. R \subseteq found /\ u[k + 1] = {n \in R : Selected[n] \cap R # {}}
  <2>1. DOMAIN Selected = found
    BY DEF Selected
  <2>2. u[k] \subseteq DOMAIN Selected /\ u[k + 1] = {n \in u[k] : Selected[n] \cap u[k] # {}}
    BY <1>2, UnlayeredUnfolds
  <2>3. QED
    BY <1>1, <2>1, <2>2
<1>4. \A n \in R : remaining[n] = Selected[n] \cap R
  BY <1>1
<1>5. Ready = {n \in R : Selected[n] \cap R = {}}
  BY <1>4 DEF Ready
<1>6. R \ Ready = u[k + 1]
  BY <1>3, <1>5
<1>7. R # {} => Ready # {}
  <2>1. Acyclic(deps) /\ found \subseteq Ids /\ DOMAIN deps = Ids
    BY DEF IInv, Validating, ValidationExact, Shape
  <2>2. R # {} => \E n \in R : deps[n] \cap R = {}
    BY <1>3, <2>1 DEF Acyclic
  <2>3. \A n \in R : Selected[n] \cap R \subseteq deps[n] \cap R
    BY <1>3 DEF Selected
  <2>4. QED
    BY <1>5, <2>2, <2>3
<1>8. (k + 1) - 1 = k
  BY <1>2
<1>9. Ready = u[(k + 1) - 1] \ u[k + 1]
  BY <1>1, <1>6, <1>8, <1>5
<1>10. QED
  BY <1>2, <1>5, <1>6, <1>7, <1>9 DEF Wave

\* Each iteration of waves() appends the next layer and leaves the rest.
LEMMA LayeringKept == IInv /\ [Next]_vars => Layering'
<1> SUFFICES ASSUME IInv, [Next]_vars PROVE Layering'
  OBVIOUS
<1>1. CASE Validate
  BY <1>1 DEF IInv, Validate, Layering
<1>2. CASE Return
  <2>1. CASE pc' # "waves"
    BY <1>2, <2>1 DEF IInv, Return, Layering
  <2>2. CASE pc' = "waves"
    <3>1. /\ pc = "closure"
          /\ remaining' = [n \in found |-> deps[n] \cap found]
          /\ UNCHANGED <<deps, asked, frontier, found, ordered>>
      BY <1>2, <2>2 DEF IInv, Layering, Return
    <3>2. ordered = <<>>
      BY <3>1 DEF IInv, Layering
    <3>3. Selected' = Selected /\ remaining' = Selected /\ DOMAIN Selected = found
      BY <3>1 DEF Selected
    <3>4. DOMAIN remaining' = found /\ Len(ordered') = 0
      BY <3>1, <3>2, <3>3
    <3>5. DOMAIN remaining' = Unlayered(Selected')[Len(ordered')]
      BY <3>3, <3>4, UnlayeredUnfolds
    <3>6. remaining' = [n \in DOMAIN remaining' |-> Selected'[n] \cap DOMAIN remaining']
      BY <3>3, <3>4 DEF Selected
    <3>7. /\ ordered' \in Seq(SUBSET Ids)
          /\ \A k \in 1 .. Len(ordered') : ordered'[k] = Wave(Selected', k)
      BY <3>1, <3>2, <3>4
    <3>8. UNION {ordered'[k] : k \in 1 .. Len(ordered')} = {}
      BY <3>4
    <3>9. QED
      BY <2>2, <3>4, <3>5, <3>6, <3>7, <3>8, <3>1 DEF Layering
  <2>3. QED
    BY <2>1, <2>2
<1>3. CASE Layer
  <2> DEFINE R == DOMAIN remaining
             k == Len(ordered)
  <2>1. pc = "waves" /\ UNCHANGED <<deps, asked, frontier, found>>
    BY <1>3 DEF Layer
  <2>2. Selected' = Selected
    BY <2>1 DEF Selected
  <2>3. /\ ordered \in Seq(SUBSET Ids)
        /\ R = Unlayered(Selected)[k]
        /\ remaining = [n \in R |-> Selected[n] \cap R]
        /\ \A i \in 1 .. k : ordered[i] = Wave(Selected, i)
        /\ UNION {ordered[i] : i \in 1 .. k} = found \ R
    BY <2>1 DEF IInv, Layering
  <2>4. /\ k \in Nat
        /\ Ready \subseteq R
        /\ R # {} => Ready # {}
        /\ R \ Ready = Unlayered(Selected)[k + 1]
        /\ Ready = Wave(Selected, k + 1)
    BY <2>1, ReadyIsNextWave
  <2>5. CASE R = {}
    <3>1. pc' = "returned waves" /\ remaining' = remaining /\ ordered' = ordered
      BY <1>3, <2>5 DEF Layer
    <3>2. QED
      BY <2>1, <2>2, <2>3, <2>5, <3>1 DEF Layering
  <2>6. CASE R # {}
    <3>1. /\ pc' = "waves"
          /\ ordered' = Append(ordered, Ready)
          /\ remaining' = [n \in R \ Ready |-> remaining[n] \ Ready]
      BY <1>3, <2>1, <2>4, <2>6 DEF Layer, Without
    <3>2. R \subseteq found /\ found \subseteq Ids
      BY <2>3, <2>4, UnlayeredUnfolds DEF Selected, IInv, Shape
    <3>3. /\ ordered' \in Seq(SUBSET Ids)
          /\ Len(ordered') = k + 1
          /\ \A i \in 1 .. k : ordered'[i] = ordered[i]
          /\ ordered'[k + 1] = Ready
      BY <2>3, <2>4, <3>1, <3>2
    <3>4. DOMAIN remaining' = R \ Ready
      BY <3>1
    <3>5. DOMAIN remaining' = Unlayered(Selected')[Len(ordered')]
      BY <2>2, <2>4, <3>3, <3>4
    <3>6. remaining' = [n \in DOMAIN remaining' |-> Selected'[n] \cap DOMAIN remaining']
      <4>1. \A n \in R \ Ready : remaining[n] \ Ready = Selected[n] \cap (R \ Ready)
        BY <2>3
      <4>2. remaining' = [n \in R \ Ready |-> Selected[n] \cap (R \ Ready)]
        BY <3>1, <4>1
      <4>3. QED
        BY <2>2, <3>4, <4>2
    <3>7. \A i \in 1 .. Len(ordered') : ordered'[i] = Wave(Selected', i)
      <4>1. ASSUME NEW i \in 1 .. k + 1 PROVE ordered'[i] = Wave(Selected, i)
        <5>1. CASE i = k + 1
          BY <2>4, <3>3, <5>1
        <5>2. CASE i \in 1 .. k
          BY <2>3, <3>3, <5>2
        <5>3. QED
          BY <2>4, <5>1, <5>2
      <4>2. QED
        BY <2>2, <3>3, <4>1
    <3>8. UNION {ordered'[i] : i \in 1 .. Len(ordered')} = found' \ DOMAIN remaining'
      <4>1. UNION {ordered'[i] : i \in 1 .. k + 1} = (UNION {ordered[i] : i \in 1 .. k}) \cup Ready
        <5>1. 1 .. k + 1 = (1 .. k) \cup {k + 1}
          BY <2>4
        <5>2. {ordered'[i] : i \in 1 .. k + 1} = {ordered'[i] : i \in 1 .. k} \cup {ordered'[k + 1]}
          BY <5>1
        <5>3. {ordered'[i] : i \in 1 .. k} = {ordered[i] : i \in 1 .. k}
          BY <3>3
        <5>4. QED
          BY <3>3, <5>2, <5>3
      <4>2. (found \ R) \cup Ready = found \ (R \ Ready)
        BY <2>4, <3>2
      <4>3. QED
        BY <2>1, <2>3, <3>3, <3>4, <4>1, <4>2
    <3>9. QED
      BY <3>1, <3>3, <3>5, <3>6, <3>7, <3>8 DEF Layering
  <2>7. QED
    BY <2>5, <2>6
<1>4. ASSUME NEW n \in Ids, Descend(n) PROVE Layering'
  BY <1>4 DEF IInv, Descend, Expand, Layering
<1>5. ASSUME NEW n \in Ids, Widen(n) PROVE Layering'
  BY <1>5 DEF IInv, Widen, Expand, Layering
<1>6. ASSUME NEW n \in Ids, CallDescendants(n) PROVE Layering'
  BY <1>6 DEF IInv, CallDescendants, Layering
<1>7. ASSUME NEW W \in SUBSET Ids, CallClosure(W) PROVE Layering'
  BY <1>7 DEF IInv, CallClosure, Layering
<1>8. CASE UNCHANGED vars
  <2>1. UNCHANGED <<pc, remaining, ordered, found>> /\ Selected' = Selected
    BY <1>8 DEF vars, Selected
  <2>2. DOMAIN remaining' = DOMAIN remaining /\ Len(ordered') = Len(ordered)
    BY <2>1
  <2>3. {ordered'[k] : k \in 1 .. Len(ordered')} = {ordered[k] : k \in 1 .. Len(ordered)}
    BY <2>1, <2>2
  <2>4. QED
    BY <2>1, <2>2, <2>3 DEF IInv, Layering
<1>9. QED
  BY <1>1, <1>2, <1>3, <1>4, <1>5, <1>6, <1>7, <1>8 DEF Next, Step

-----------------------------------------------------------------------------
(* The theorems                                                             *)

\* A declared graph that is not validated yet.
LEMMA InitOk == Init => IInv
<1> SUFFICES ASSUME Init PROVE IInv
  OBVIOUS
<1> USE DEF Init, Declared
<1>1. Shape
  BY DEF Shape, Busy
<1>2. Validating
  <2>1. pc = "validate" /\ remaining = deps /\ deps \in [Ids -> SUBSET Ids]
    OBVIOUS
  <2>2. \A n \in Ids : deps[n] = deps[n] \cap Ids
    BY <2>1
  <2>3. remaining = [n \in Ids |-> deps[n] \cap Ids] /\ DOMAIN remaining = Ids
    BY <2>1, <2>2
  <2>4. QED
    BY <2>1, <2>3 DEF Validating, ValidationExact
<1>3. Descending /\ Widening /\ Layering
  BY DEF Descending, Widening, Layering
<1>4. QED
  BY <1>1, <1>2, <1>3 DEF IInv

\* What each loop has computed when it returns is what Dag defines.
LEMMA ExactWhenReturned ==
    IInv => ValidationExact /\ DescendantsExact /\ ClosureExact /\ LayersExact
<1> SUFFICES ASSUME IInv PROVE ValidationExact /\ DescendantsExact /\ ClosureExact /\ LayersExact
  OBVIOUS
<1> USE DEF IInv, Shape
<1>1. ValidationExact
  BY DEF Validating
<1>2. DescendantsExact
  <2>1. SUFFICES ASSUME pc = "returned descendants", NEW n \in asked
                 PROVE  found = Descendants(deps, n)
    BY DEF DescendantsExact
  <2>2. asked = {n} /\ frontier = {} /\ DOMAIN deps = Ids
    BY <2>1 DEF Descending
  <2>3. \A m \in found \cup asked : Dependents(deps, m) \subseteq found
    BY <2>1, <2>2 DEF Descending
  <2>4. \A S \in SUBSET Ids :
           (\A m \in asked : Dependents(deps, m) \subseteq S) /\ ClosedDown(deps, S) => found \subseteq S
    BY <2>1 DEF Descending
  <2>5. Dependents(deps, n) \subseteq found /\ ClosedDown(deps, found)
    BY <2>1, <2>3 DEF ClosedDown
  <2>6. QED
    BY <2>2, <2>4, <2>5 DEF Descendants
<1>3. ClosureExact
  <2>1. SUFFICES ASSUME pc \in {"returned closure", "waves", "returned waves"}
                 PROVE  found = Closure(deps, asked)
    BY DEF ClosureExact
  <2>2. /\ asked \subseteq found /\ DOMAIN deps = Ids
        /\ \A m \in found : deps[m] \subseteq found
        /\ \A S \in SUBSET Ids : asked \subseteq S /\ ClosedUp(deps, S) => found \subseteq S
    BY <2>1 DEF Widening
  <2>3. QED
    BY <2>2 DEF Closure, ClosedUp
<1>4. LayersExact
  BY DEF LayersExact, Layering, Selected
<1>5. QED
  BY <1>1, <1>2, <1>3, <1>4

\* The inductive invariant of the loops of dag.py holds throughout.
THEOREM LoopInvariant == Spec => []IInv
<1>1. IInv /\ [Next]_vars => IInv'
  BY ShapeKept, ValidatingKept, DescendingKept, WideningKept, LayeringKept DEF IInv
<1>2. QED
  BY InitOk, <1>1, PTL DEF Spec

\* For every set of node ids and every graph over it: the constructor rejects the
\* graphs with a cycle and no other, descendants and closure return the least
\* closed sets, and waves layers every selected node where Dag puts it and never
\* raises (Dag._assert_acyclic, descendants, closure, waves).
THEOREM LoopsExact ==
    Spec => [](ValidationExact /\ DescendantsExact /\ ClosureExact /\ LayersExact)
  BY LoopInvariant, ExactWhenReturned, PTL

\* The constructor rejects the graphs with a cycle and no other.
THEOREM ValidationIsExact == Spec => []ValidationExact
  BY LoopInvariant, ExactWhenReturned, PTL

\* What descendants(n) returns is the least set with the dependents of n that has
\* the dependents of its own.
THEOREM DescendantsAreExact == Spec => []DescendantsExact
  BY LoopInvariant, ExactWhenReturned, PTL

\* What closure(wanted) returns is the least set with wanted that has the
\* dependencies of its own.
THEOREM ClosureIsExact == Spec => []ClosureExact
  BY LoopInvariant, ExactWhenReturned, PTL

=============================================================================
