---------------------------- MODULE Lemmas_proofs ----------------------------
(***************************************************************************)
(* Facts about numbers and about functions defined by recursion that the     *)
(* proofs of the components share.  The induction theorems of the library    *)
(* take an operator; here its place is taken by a set and its least member.  *)
(***************************************************************************)
EXTENDS Dag, Integers, FiniteSetTheorems, WellFoundedInduction, TLAPS

\* A set of natural numbers that has a member has a least one.
LEMMA LeastNumber ==
    ASSUME NEW T, T \subseteq Nat, T # {}
    PROVE  \E x \in T : \A y \in T : x <= y
<1>1. PICK x \in T : \A y \in T : ~(<<y, x>> \in OpToRel(<, Nat))
  BY WFMin, NatLessThanWellFounded, Zenon
<1>2. OpToRel(<, Nat) = {p \in Nat \X Nat : p[1] < p[2]}
  BY Zenon DEF OpToRel
<1>3. \A y \in T : y < x => <<y, x>> \in {p \in Nat \X Nat : p[1] < p[2]}
  OBVIOUS
<1>4. \A y \in T : ~(y < x)
  BY <1>1, <1>2, <1>3, Zenon
<1>5. QED
  BY <1>4

\* Induction over the natural numbers for a set of them.
LEMMA SetInduction ==
    ASSUME NEW T, 0 \in T, \A n \in Nat : n \in T => n + 1 \in T
    PROVE  Nat \subseteq T
<1> DEFINE U == Nat \ T
<1>1. SUFFICES ASSUME U # {} PROVE FALSE
  OBVIOUS
<1>2. PICK m \in U : \A y \in U : m <= y
  <2> HIDE DEF U
  <2>1. U \subseteq Nat
    BY DEF U
  <2>2. QED
    BY <1>1, <2>1, LeastNumber
<1>3. m \in Nat /\ m # 0 /\ m - 1 \in Nat
  OBVIOUS
<1>4. m - 1 \in T
  BY <1>2, <1>3
<1>5. (m - 1) + 1 = m
  BY <1>3
<1>6. m \in T
  BY <1>3, <1>4, <1>5
<1>7. QED
  BY <1>6

\* Induction over the subsets of a finite set for a set of them.
LEMMA SubsetInduction ==
    ASSUME NEW S, IsFiniteSet(S), NEW T, {} \in T,
           \A s \in SUBSET S : \A x \in S \ s : s \in T => s \cup {x} \in T
    PROVE  SUBSET S \subseteq T
<1> DEFINE U == {n \in Nat : \A s \in SUBSET S : Cardinality(s) = n => s \in T}
<1>1. \A s \in SUBSET S : IsFiniteSet(s) /\ Cardinality(s) \in Nat
  BY FS_Subset, FS_CardinalityType
<1>2. 0 \in U
  BY <1>1, FS_EmptySet
<1>3. ASSUME NEW n \in Nat, n \in U PROVE n + 1 \in U
  <2>1. SUFFICES ASSUME NEW s \in SUBSET S, Cardinality(s) = n + 1 PROVE s \in T
    OBVIOUS
  <2>2. s # {}
    <3>1. Cardinality({}) = 0
      BY FS_EmptySet
    <3>2. QED
      BY <2>1, <3>1
  <2>3. PICK x \in s : TRUE
    BY <2>2
  <2>4. Cardinality(s \ {x}) = Cardinality(s) - 1
    BY <1>1, FS_RemoveElement
  <2>5. s \ {x} \in T
    BY <1>3, <2>1, <2>4
  <2>6. s = (s \ {x}) \cup {x} /\ x \in S \ (s \ {x})
    BY <2>3
  <2>7. QED
    BY <2>5, <2>6
<1>4. Nat \subseteq U
  <2> HIDE DEF U
  <2>1. QED
    BY <1>2, <1>3, SetInduction
<1>5. QED
  BY <1>1, <1>4

\* Of finitely many numbers, and zero, one is the greatest.
LEMMA GreatestValue ==
    ASSUME NEW S, IsFiniteSet(S), NEW f \in [S -> Nat]
    PROVE  \E m \in {0} \cup {f[x] : x \in S} : \A x \in S : f[x] <= m
<1> DEFINE Bounded(s) == \E m \in {0} \cup {f[x] : x \in s} : \A x \in s : f[x] <= m
           T == {s \in SUBSET S : Bounded(s)}
<1>1. {} \in T
  OBVIOUS
<1>2. ASSUME NEW s \in SUBSET S, NEW x \in S \ s, s \in T PROVE s \cup {x} \in T
  <2>1. PICK m \in {0} \cup {f[y] : y \in s} : \A y \in s : f[y] <= m
    BY <1>2
  <2>2. m \in Nat /\ f[x] \in Nat /\ \A y \in s : f[y] \in Nat
    BY <2>1
  <2>3. CASE m <= f[x]
    <3>1. \A y \in s \cup {x} : f[y] <= f[x]
      BY <2>1, <2>2, <2>3
    <3>2. QED
      BY <3>1
  <2>4. CASE ~(m <= f[x])
    <3>1. \A y \in s \cup {x} : f[y] <= m
      BY <2>1, <2>2, <2>4
    <3>2. QED
      BY <2>1, <3>1
  <2>5. QED
    BY <2>3, <2>4
<1>3. SUBSET S \subseteq T
  <2> HIDE DEF T
  <2>1. QED
    BY <1>1, <1>2, SubsetInduction
<1>4. QED
  BY <1>3

-----------------------------------------------------------------------------

\* The first n + 1 values of what starts at v0 and goes on by step.
Approximations(V, v0, step, n) ==
    {g \in [0 .. n -> V] : /\ g[0] = v0
                           /\ \A k \in 0 .. n - 1 : g[k + 1] = step[g[k]]}

\* For every bound there is a function that obeys the recursion up to it.
LEMMA ApproximationExists ==
    ASSUME NEW V, NEW v0 \in V, NEW step \in [V -> V]
    PROVE  \A n \in Nat : Approximations(V, v0, step, n) # {}
<1> DEFINE T == {n \in Nat : Approximations(V, v0, step, n) # {}}
<1>1. 0 \in T
  <2>1. [k \in 0 .. 0 |-> v0] \in Approximations(V, v0, step, 0)
    BY DEF Approximations
  <2>2. QED
    BY <2>1
<1>2. ASSUME NEW n \in Nat, n \in T PROVE n + 1 \in T
  <2>1. PICK g \in Approximations(V, v0, step, n) : TRUE
    BY <1>2
  <2>2. /\ g \in [0 .. n -> V]
        /\ g[0] = v0
        /\ \A k \in 0 .. n - 1 : g[k + 1] = step[g[k]]
    BY <2>1 DEF Approximations
  <2> DEFINE h == [k \in 0 .. (n + 1) |-> IF k = n + 1 THEN step[g[n]] ELSE g[k]]
  <2>3. h \in [0 .. (n + 1) -> V]
    BY <2>2
  <2>4. h[0] = v0
    BY <2>2
  <2>5. \A k \in 0 .. (n + 1) - 1 : h[k + 1] = step[h[k]]
    BY <2>2
  <2>6. h \in Approximations(V, v0, step, n + 1)
    <3> HIDE DEF h
    <3>1. QED
      BY <2>3, <2>4, <2>5 DEF Approximations
  <2>7. QED
    BY <2>6
<1>3. Nat \subseteq T
  <2> HIDE DEF T
  <2>1. QED
    BY <1>1, <1>2, SetInduction
<1>4. QED
  BY <1>3

\* Two such functions agree wherever both are bound.
LEMMA ApproximationsAgree ==
    ASSUME NEW V, NEW v0 \in V, NEW step \in [V -> V],
           NEW n \in Nat, NEW g \in Approximations(V, v0, step, n),
           NEW m \in Nat, NEW h \in Approximations(V, v0, step, m)
    PROVE  \A k \in Nat : k <= n /\ k <= m => g[k] = h[k]
<1> DEFINE T == {k \in Nat : k <= n /\ k <= m => g[k] = h[k]}
<1>1. 0 \in T
  BY DEF Approximations
<1>2. ASSUME NEW k \in Nat, k \in T PROVE k + 1 \in T
  <2>1. SUFFICES ASSUME k + 1 <= n, k + 1 <= m PROVE g[k + 1] = h[k + 1]
    OBVIOUS
  <2>2. k \in 0 .. n - 1 /\ k \in 0 .. m - 1
    BY <2>1
  <2>3. g[k + 1] = step[g[k]] /\ h[k + 1] = step[h[k]]
    BY <2>2 DEF Approximations
  <2>4. g[k] = h[k]
    BY <1>2, <2>2
  <2>5. QED
    BY <2>3, <2>4
<1>3. Nat \subseteq T
  <2> HIDE DEF T
  <2>1. QED
    BY <1>1, <1>2, SetInduction
<1>4. QED
  BY <1>3

\* What starts at v0 and goes on by step is a function on the natural numbers.
LEMMA Recursion ==
    ASSUME NEW V, NEW v0 \in V, NEW step \in [V -> V]
    PROVE  \E f \in [Nat -> V] : f[0] = v0 /\ \A k \in Nat : f[k + 1] = step[f[k]]
<1> DEFINE pick(n) == CHOOSE g : g \in Approximations(V, v0, step, n)
           f == [n \in Nat |-> pick(n)[n]]
<1>1. \A n \in Nat : pick(n) \in Approximations(V, v0, step, n)
  BY ApproximationExists
<1> HIDE DEF pick
<1>2. \A n \in Nat : /\ pick(n) \in [0 .. n -> V]
                     /\ pick(n)[0] = v0
                     /\ \A k \in 0 .. n - 1 : pick(n)[k + 1] = step[pick(n)[k]]
  BY <1>1 DEF Approximations
<1>3. f \in [Nat -> V]
  BY <1>2
<1>4. f[0] = v0
  BY <1>2
<1>5. ASSUME NEW k \in Nat PROVE f[k + 1] = step[f[k]]
  <2>1. pick(k + 1)[k + 1] = step[pick(k + 1)[k]]
    BY <1>2
  <2>2. pick(k + 1) \in Approximations(V, v0, step, k + 1) /\ pick(k) \in Approximations(V, v0, step, k)
    BY <1>1
  <2>3. pick(k + 1)[k] = pick(k)[k]
    BY <2>2, ApproximationsAgree, k + 1 \in Nat, k <= k + 1, k <= k
  <2>4. QED
    BY <2>1, <2>3
<1>6. QED
  BY <1>3, <1>4, <1>5

-----------------------------------------------------------------------------
(* The layers, which Dag defines by recursion                               *)

\* The nodes of the last lot that still wait for one of that lot.
Left(d) == [X \in SUBSET DOMAIN d |-> {n \in X : d[n] \cap X # {}}]

\* Unlayered is what its recursive definition says.
LEMMA UnlayeredUnfolds ==
    ASSUME NEW d
    PROVE  /\ Unlayered(d)[0] = DOMAIN d
           /\ \A k \in Nat : Unlayered(d)[k + 1] =
                 {n \in Unlayered(d)[k] : d[n] \cap Unlayered(d)[k] # {}}
           /\ \A k \in Nat : Unlayered(d)[k] \subseteq DOMAIN d
<1> DEFINE V == SUBSET DOMAIN d
           Solves(f) == f = [k \in Nat |-> IF k = 0 THEN DOMAIN d
                                           ELSE {n \in f[k - 1] : d[n] \cap f[k - 1] # {}}]
<1>1. Unlayered(d) = CHOOSE f : Solves(f)
  BY DEF Unlayered
<1>2. PICK g \in [Nat -> V] : g[0] = DOMAIN d /\ \A k \in Nat : g[k + 1] = Left(d)[g[k]]
  <2>1. DOMAIN d \in V
    OBVIOUS
  <2>2. Left(d) \in [V -> V]
    BY DEF Left
  <2> HIDE DEF V
  <2>3. QED
    BY <2>1, <2>2, Recursion, SMTT(30)
<1>3. \A k \in Nat : g[k + 1] = {n \in g[k] : d[n] \cap g[k] # {}}
  BY <1>2 DEF Left
<1>4. \A k \in Nat : g[k] = IF k = 0 THEN DOMAIN d ELSE {n \in g[k - 1] : d[n] \cap g[k - 1] # {}}
  <2>1. TAKE k \in Nat
  <2>2. CASE k = 0
    BY <1>2, <2>2
  <2>3. CASE k # 0
    <3>1. k - 1 \in Nat /\ (k - 1) + 1 = k
      BY <2>3
    <3>2. QED
      BY <1>3, <2>3, <3>1
  <2>4. QED
    BY <2>2, <2>3
<1>5. g = [k \in Nat |-> g[k]]
  BY <1>2
<1>6. Solves(g)
  BY <1>4, <1>5
<1>7. Solves(Unlayered(d))
  <2> HIDE DEF Solves
  <2>1. QED
    BY <1>1, <1>6
<1> DEFINE u == Unlayered(d)
<1>8. u = [k \in Nat |-> IF k = 0 THEN DOMAIN d ELSE {n \in u[k - 1] : d[n] \cap u[k - 1] # {}}]
  BY <1>7
<1> HIDE DEF u, Solves, V
<1>9. \A k \in Nat : u[k] = IF k = 0 THEN DOMAIN d ELSE {n \in u[k - 1] : d[n] \cap u[k - 1] # {}}
  BY <1>8
<1>10. u[0] = DOMAIN d
  BY <1>9
<1>11. \A k \in Nat : u[k + 1] = {n \in u[k] : d[n] \cap u[k] # {}}
  <2>1. TAKE k \in Nat
  <2>2. k + 1 \in Nat /\ k + 1 # 0 /\ (k + 1) - 1 = k
    OBVIOUS
  <2>3. u[k + 1] = IF k + 1 = 0 THEN DOMAIN d
                   ELSE {n \in u[(k + 1) - 1] : d[n] \cap u[(k + 1) - 1] # {}}
    BY <1>9, <2>2, Zenon
  <2>4. QED
    BY <2>2, <2>3, Zenon
<1>12. \A k \in Nat : u[k] \subseteq DOMAIN d
  <2> DEFINE T == {k \in Nat : u[k] \subseteq DOMAIN d}
  <2>1. 0 \in T
    BY <1>10
  <2>2. \A k \in Nat : k \in T => k + 1 \in T
    BY <1>11
  <2>3. Nat \subseteq T
    <3> HIDE DEF T
    <3>1. QED
      BY <2>1, <2>2, SetInduction
  <2>4. QED
    BY <2>3
<1>13. QED
  BY <1>10, <1>11, <1>12 DEF u

\* What a node depends on lies in an earlier layer.
LEMMA DependenciesBefore ==
    ASSUME NEW d, NEW k \in Nat \ {0}, NEW n \in Wave(d, k), NEW m \in d[n], m \in DOMAIN d
    PROVE  \E j \in 1 .. k - 1 : m \in Wave(d, j)
<1> DEFINE u == Unlayered(d)
           T == {i \in Nat : m \notin u[i]}
<1>1. k - 1 \in Nat /\ (k - 1) + 1 = k
  OBVIOUS
<1>2. n \in u[k - 1] /\ n \notin u[k]
  BY DEF Wave
<1>3. u[k] = {x \in u[k - 1] : d[x] \cap u[k - 1] # {}}
  BY <1>1, UnlayeredUnfolds
<1>4. k - 1 \in T
  BY <1>1, <1>2, <1>3
<1>5. PICK i \in T : \A x \in T : i <= x
  <2> HIDE DEF T
  <2>1. T \subseteq Nat
    BY DEF T
  <2>2. QED
    BY <1>4, <2>1, LeastNumber
<1>6. i \in Nat /\ i # 0 /\ i <= k - 1 /\ m \notin u[i]
  BY <1>4, <1>5, UnlayeredUnfolds
<1>7. i - 1 \in Nat /\ i - 1 \notin T
  BY <1>5, <1>6
<1>8. m \in u[i - 1]
  BY <1>7
<1>9. m \in Wave(d, i) /\ i \in 1 .. k - 1
  BY <1>1, <1>6, <1>8 DEF Wave
<1>10. QED
  BY <1>9

\* In a finite graph without a cycle every node lies in one of as many layers as
\* there are nodes.
LEMMA EveryNodeLayered ==
    ASSUME NEW d, IsFiniteSet(DOMAIN d), Acyclic(d), NEW n \in DOMAIN d
    PROVE  \E k \in 1 .. Cardinality(DOMAIN d) : n \in Wave(d, k)
<1> DEFINE u == Unlayered(d)
           c == Cardinality(DOMAIN d)
           T == {i \in Nat : u[i] = {} \/ Cardinality(u[i]) + i <= c}
           U == {i \in Nat : n \notin u[i]}
<1>0. c \in Nat
  BY FS_CardinalityType
<1>1. \A i \in Nat : u[i] \subseteq DOMAIN d /\ IsFiniteSet(u[i]) /\ Cardinality(u[i]) \in Nat
  <2>1. TAKE i \in Nat
  <2>2. u[i] \subseteq DOMAIN d
    BY UnlayeredUnfolds
  <2> HIDE DEF u
  <2>3. QED
    BY <2>2, FS_Subset, FS_CardinalityType
<1>2. 0 \in T
  BY <1>0, UnlayeredUnfolds
<1>3. ASSUME NEW i \in Nat, i \in T PROVE i + 1 \in T
  <2>1. u[i + 1] = {x \in u[i] : d[x] \cap u[i] # {}}
    BY UnlayeredUnfolds
  <2>2. CASE u[i] = {}
    BY <2>1, <2>2
  <2>3. CASE u[i] # {}
    <3>1. PICK x \in u[i] : d[x] \cap u[i] = {}
      BY <1>1, <2>3 DEF Acyclic
    <3>2. u[i + 1] \subseteq u[i] /\ u[i + 1] # u[i]
      BY <2>1, <3>1
    <3>3. Cardinality(u[i + 1]) < Cardinality(u[i])
      <4> HIDE DEF u
      <4>1. Cardinality(u[i + 1]) <= Cardinality(u[i]) /\ Cardinality(u[i + 1]) # Cardinality(u[i])
        BY <1>1, <3>2, FS_Subset, Zenon
      <4>2. QED
        BY <1>1, <4>1
    <3> HIDE DEF u, c
    <3>4. QED
      BY <1>0, <1>1, <1>3, <2>3, <3>3
  <2>4. QED
    BY <2>2, <2>3
<1>4. c \in T
  <2> HIDE DEF T
  <2>1. QED
    BY <1>0, <1>2, <1>3, SetInduction
<1>5. u[c] = {}
  <2>1. u[c] = {} \/ Cardinality(u[c]) = 0
    <3> HIDE DEF u, c
    <3>1. QED
      BY <1>0, <1>1, <1>4
  <2> HIDE DEF u, c
  <2>2. QED
    BY <1>0, <1>1, <2>1, FS_EmptySet
<1>6. c \in U
  BY <1>0, <1>5
<1>7. PICK i \in U : \A x \in U : i <= x
  <2> HIDE DEF U
  <2>1. U \subseteq Nat
    BY DEF U
  <2>2. QED
    BY <1>6, <2>1, LeastNumber
<1>8. i \in Nat /\ i # 0 /\ i <= c /\ n \notin u[i]
  BY <1>6, <1>7, UnlayeredUnfolds
<1>9. i - 1 \in Nat /\ i - 1 \notin U
  BY <1>7, <1>8
<1>10. n \in Wave(d, i) /\ i \in 1 .. c
  BY <1>0, <1>8, <1>9 DEF Wave
<1>11. QED
  BY <1>10

\* What depends on something downstream of a node is downstream of it.
LEMMA DownstreamCloses ==
    ASSUME NEW d, NEW n
    PROVE  /\ Dependents(d, n) \subseteq Descendants(d, n)
           /\ \A m \in Descendants(d, n) : Dependents(d, m) \subseteq Descendants(d, n)
<1>1. Dependents(d, n) \subseteq Descendants(d, n)
  BY DEF Descendants, Dependents
<1>2. ASSUME NEW m \in Descendants(d, n), NEW x \in Dependents(d, m) PROVE x \in Descendants(d, n)
  <2>1. x \in DOMAIN d
    BY <1>2 DEF Dependents
  <2>2. ASSUME NEW S \in SUBSET DOMAIN d, Dependents(d, n) \subseteq S, ClosedDown(d, S)
        PROVE  x \in S
    BY <1>2, <2>2 DEF Descendants, ClosedDown
  <2>3. QED
    BY <2>1, <2>2 DEF Descendants
<1>3. QED
  BY <1>1, <1>2

=============================================================================
