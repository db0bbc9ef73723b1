--------------------------- MODULE NumberInduction ---------------------------
(***************************************************************************)
(* Induction on numbers, and the functions that are defined by it, for the *)
(* proofs about the models' loops: the scan for a buffer (WaylandSurface), *)
(* the list of queries and the range of their counter (GpuQueries).        *)
(***************************************************************************)
EXTENDS Integers, WellFoundedInduction, TLAPS

\* A set of numbers has a least element.
LEMMA LeastElement ==
    ASSUME NEW T, T \subseteq Nat, T # {}
    PROVE  \E m \in T : \A k \in T : m <= k
<1> DEFINE R == OpToRel(<, Nat)
<1>1. IsWellFoundedOn(R, Nat)
  BY NatLessThanWellFounded
<1>2. PICK m \in T : \A k \in T : ~(<<k, m>> \in R)
  <2> HIDE DEF R
  <2> QED
    BY <1>1, WFMin
<1>3. \A k \in T : <<k, m>> \in R <=> k < m
  BY DEF OpToRel
<1> HIDE DEF R
<1>4. ASSUME NEW k \in T PROVE m <= k
  <2>1. ~(k < m)
    BY <1>2, <1>3
  <2>2. k \in Nat /\ m \in Nat
    OBVIOUS
  <2> QED
    BY <2>1, <2>2
<1> QED
  BY <1>4

\* A set that has 0, and with a number the next one, has every number up to n.
LEMMA UpTo ==
    ASSUME NEW n \in Nat, NEW T, 0 \in T,
           \A k \in 1 .. n : k - 1 \in T => k \in T
    PROVE  0 .. n \subseteq T
<1> DEFINE E == (0 .. n) \ T
<1> SUFFICES ASSUME E # {} PROVE FALSE
  OBVIOUS
<1>1. PICK m \in E : \A k \in E : m <= k
  <2>1. E \subseteq Nat
    OBVIOUS
  <2> QED
    BY <2>1, LeastElement
<1>2. m \in 1 .. n /\ m \notin T
  OBVIOUS
<1>3. m - 1 \in 0 .. n /\ ~(m <= m - 1)
  BY <1>2
<1>4. m - 1 \in T
  BY <1>1, <1>3
<1> QED
  BY <1>2, <1>4

(***************************************************************************)
(* A function on 0 .. n with values in V, whose value at 0 is a, and at    *)
(* any other number what G makes of that number and of the value before.   *)
(***************************************************************************)
StepsBy(f, n, a, G) == f[0] = a /\ \A k \in 1 .. n : f[k] = G[<<f[k - 1], k>>]

\* There is such a function.
LEMMA RecursionExists ==
    ASSUME NEW N \in Nat, NEW V, NEW a \in V, NEW G \in [V \X (1 .. N) -> V]
    PROVE  \E f \in [0 .. N -> V] : StepsBy(f, N, a, G)
<1> DEFINE T == {n \in 0 .. N : \E f \in [0 .. n -> V] : StepsBy(f, n, a, G)}
<1>1. 0 \in T
  <2> DEFINE g == [k \in 0 .. 0 |-> a]
  <2>1. g \in [0 .. 0 -> V] /\ g[0] = a /\ 1 .. 0 = {}
    OBVIOUS
  <2>2. StepsBy(g, 0, a, G)
    BY <2>1 DEF StepsBy
  <2> QED
    BY <2>1, <2>2
<1>2. ASSUME NEW n \in 1 .. N, n - 1 \in T PROVE n \in T
  <2>0. n \in 0 .. N /\ n # 0 /\ n - 1 \in Nat
    OBVIOUS
  <2>1. PICK g \in [0 .. n - 1 -> V] : StepsBy(g, n - 1, a, G)
    BY <1>2
  <2> DEFINE h == [k \in 0 .. n |-> IF k = n THEN G[<<g[n - 1], n>>] ELSE g[k]]
  <2>2. G[<<g[n - 1], n>>] \in V
    <3>1. g[n - 1] \in V
      BY <2>0
    <3> QED
      BY <3>1
  <2>3. ASSUME NEW k \in 0 .. n, k # n PROVE k \in 0 .. n - 1
    BY <2>0, <2>3
  <2>4. h \in [0 .. n -> V]
    BY <2>2, <2>3
  <2>5. h[0] = a
    BY <2>0, <2>1 DEF StepsBy
  <2>6. ASSUME NEW k \in 1 .. n PROVE h[k] = G[<<h[k - 1], k>>]
    <3>1. k - 1 \in 0 .. n /\ k - 1 # n /\ k \in 0 .. n
      BY <2>0
    <3>2. h[k - 1] = g[k - 1]
      BY <3>1
    <3>3. CASE k = n
      BY <3>1, <3>2, <3>3
    <3>4. CASE k # n
      <4>1. k \in 1 .. n - 1
        BY <2>0, <3>4
      <4>2. g[k] = G[<<g[k - 1], k>>]
        BY <2>1, <4>1 DEF StepsBy
      <4> QED
        BY <3>1, <3>2, <3>4, <4>2
    <3> QED
      BY <3>3, <3>4
  <2>7. StepsBy(h, n, a, G)
    <3> HIDE DEF h
    <3> QED
      BY <2>5, <2>6 DEF StepsBy
  <2> QED
    BY <2>0, <2>4, <2>7
<1>3. 0 .. N \subseteq T
  <2> HIDE DEF T
  <2> QED
    BY <1>1, <1>2, UpTo
<1> QED
  BY <1>3
=============================================================================
