-------------------------- MODULE GpuQueriesProofs --------------------------
(***************************************************************************)
(* For a counter of any width: pairs of queries come back, every frame is  *)
(* reported once, and where the counter wraps checkQuery says the right    *)
(* thing of a frame.                                                       *)
(***************************************************************************)
EXTENDS GpuQueries, NumberInduction, SequenceTheorems

(***************************************************************************)
(* The range of the counter.                                               *)
(***************************************************************************)
LEMMA PowerDoubles ==
    /\ Power[0] = 1
    /\ \A n \in 0 .. Bits : Power[n] \in Nat \ {0}
    /\ \A n \in 1 .. Bits : Power[n] = 2 * Power[n - 1]
<1> DEFINE V == Nat \ {0}
           G == [p \in V \X (1 .. Bits) |-> 2 * p[1]]
           Is(f) == f = [n \in 0 .. Bits |-> IF n = 0 THEN 1 ELSE 2 * f[n - 1]]
<1>0. Bits \in Nat
  BY BitsAssumption
<1>1. G \in [V \X (1 .. Bits) -> V]
  OBVIOUS
<1>2. PICK f \in [0 .. Bits -> V] : StepsBy(f, Bits, 1, G)
  <2>1. 1 \in V
    OBVIOUS
  <2> HIDE DEF V, G
  <2> QED
    BY <1>0, <1>1, <2>1, RecursionExists
<1>3. ASSUME NEW n \in 1 .. Bits PROVE f[n] = 2 * f[n - 1]
  <2>1. n - 1 \in 0 .. Bits /\ n - 1 \in Nat
    BY <1>0
  <2>2. f[n - 1] \in V
    BY <2>1
  <2>3. G[<<f[n - 1], n>>] = 2 * f[n - 1]
    BY <2>2
  <2> QED
    BY <1>2, <2>3 DEF StepsBy
<1>4. Is(f)
  <2>1. f[0] = 1
    BY <1>2 DEF StepsBy
  <2>2. \A n \in 0 .. Bits : f[n] = IF n = 0 THEN 1 ELSE 2 * f[n - 1]
    BY <1>0, <1>3, <2>1
  <2> QED
    BY <2>2
<1>5. Power = CHOOSE g : Is(g)
  BY DEF Power
<1>6. Is(Power)
  <2> HIDE DEF Is
  <2> QED
    BY <1>4, <1>5
<1>7. Power[0] = 1 /\ \A n \in 1 .. Bits : Power[n] = 2 * Power[n - 1]
  BY <1>0, <1>6
<1>8. ASSUME NEW n \in 0 .. Bits PROVE Power[n] \in V
  <2> DEFINE T == {k \in 0 .. Bits : Power[k] \in V}
  <2>1. 0 \in T
    BY <1>0, <1>7
  <2>2. ASSUME NEW k \in 1 .. Bits, k - 1 \in T PROVE k \in T
    BY <1>0, <1>7, <2>2
  <2>3. 0 .. Bits \subseteq T
    <3> HIDE DEF T
    <3> QED
      BY <1>0, <2>1, <2>2, UpTo
  <2> QED
    BY <2>3
<1> QED
  BY <1>7, <1>8

\* The counter has four quarters, and the window of times in use is within one.
LEMMA CounterRange ==
    /\ Quarter \in Nat \ {0} /\ hiMask = 2 * Quarter /\ wrapAdd = 4 * Quarter
    /\ Window \in Nat /\ Window <= Quarter
<1>1. Bits \in Nat /\ Bits - 1 \in 1 .. Bits /\ Bits - 2 \in 0 .. Bits /\ Bits \in 1 .. Bits
  BY BitsAssumption
<1>2. hiMask = 2 * Power[Bits - 2] /\ Power[Bits - 2] \in Nat \ {0}
  <2>1. Power[Bits - 1] = 2 * Power[(Bits - 1) - 1]
    BY <1>1, PowerDoubles
  <2>2. (Bits - 1) - 1 = Bits - 2
    BY <1>1
  <2> QED
    BY <1>1, <2>1, <2>2, PowerDoubles DEF hiMask
<1>3. wrapAdd = 2 * hiMask
  BY <1>1, PowerDoubles DEF wrapAdd, hiMask
<1>4. Quarter = Power[Bits - 2]
  BY <1>2 DEF Quarter
<1> QED
  BY <1>2, <1>3, <1>4, BoundsAssumption, WindowAssumption
-----------------------------------------------------------------------------
(***************************************************************************)
(* The three timestamps of checkQuery.  Each is what the counter shows and *)
(* the wraps before; of times so close together some may have one wrap     *)
(* more than the others.                                                   *)
(***************************************************************************)
Wraps(t) == t \div wrapAdd

\* A true time is what the counter shows and its wraps.
LEMMA CounterShows ==
    ASSUME NEW t \in Nat
    PROVE  /\ Wraps(t) \in Nat /\ Counter(t) \in 0 .. wrapAdd - 1
           /\ t = wrapAdd * Wraps(t) + Counter(t)
<1>1. wrapAdd \in Nat /\ wrapAdd > 0
  BY CounterRange
<1> QED
  BY <1>1 DEF Wraps, Counter

\* Between two times within the window of each other the counter wraps at most once.
LEMMA WrapsOnce ==
    ASSUME NEW s \in Nat, NEW t \in Nat, s <= t, t - s <= Window
    PROVE  Wraps(t) \in {Wraps(s), Wraps(s) + 1}
<1>1. wrapAdd \in Nat /\ Window < wrapAdd /\ Window \in Nat /\ wrapAdd > 0
  BY CounterRange
<1>2. /\ Wraps(t) \in Nat /\ Counter(t) \in 0 .. wrapAdd - 1 /\ t = wrapAdd * Wraps(t) + Counter(t)
      /\ Wraps(s) \in Nat /\ Counter(s) \in 0 .. wrapAdd - 1 /\ s = wrapAdd * Wraps(s) + Counter(s)
  BY CounterShows
<1> DEFINE w == wrapAdd
           k == Wraps(s)
           l == Wraps(t)
<1> HIDE DEF w, k, l
<1>3. /\ w \in Nat /\ k \in Nat /\ l \in Nat
      /\ w * l < w * k + 2 * w /\ w * k < w * l + w
  BY <1>1, <1>2 DEF w, k, l
<1>4. ~(l < k)
  <2> SUFFICES ASSUME l < k PROVE FALSE
    OBVIOUS
  <2>1. w * l + w <= w * k
    BY <1>3
  <2> QED
    BY <1>3, <2>1
<1>5. ~(k + 2 <= l)
  <2> SUFFICES ASSUME k + 2 <= l PROVE FALSE
    OBVIOUS
  <2>1. w * k + 2 * w <= w * l
    BY <1>3
  <2>2. w * l \in Nat /\ w * k \in Nat
    BY <1>3
  <2> QED
    BY <1>3, <2>1, <2>2
<1>6. l = k \/ l = k + 1
  BY <1>3, <1>4, <1>5
<1> QED
  BY <1>6 DEF k, l

\* The chain of cases on counters b, e, g of times that have x, y, z more than the
\* counters show: at most one wrap, and not all of them.
ChainRight(b, e, g, x, y, z) ==
    ( /\ b \in 0 .. wrapAdd - 1 /\ e \in 0 .. wrapAdd - 1 /\ g \in 0 .. wrapAdd - 1
      /\ x \in {0, wrapAdd} /\ y \in {0, wrapAdd} /\ z \in {0, wrapAdd}
      /\ x + b <= y + e
      /\ (y + e) - (x + b) <= Window
      /\ (y + e) - (z + g) <= Window
      /\ (z + g) - (x + b) <= Window
      /\ x = 0 \/ z = 0 )
    => LET u == Unwrapped(b, e, g)
       IN  /\ u[2] - u[1] = (y + e) - (x + b)
           /\ ~(x < y /\ x < z) =>
                 u[1] - u[3] = (x + b) - (z + g) /\ u[2] - u[3] = (y + e) - (z + g)

\* checkQuery's chain finds the frame's duration, and its place when it is not straddled.
LEMMA ChainIsRight == \A b, e, g, x, y, z : ChainRight(b, e, g, x, y, z)
<1> SUFFICES ASSUME NEW b, NEW e, NEW g, NEW x, NEW y, NEW z
             PROVE  ChainRight(b, e, g, x, y, z)
  OBVIOUS
<1> SUFFICES ASSUME b \in 0 .. wrapAdd - 1, e \in 0 .. wrapAdd - 1, g \in 0 .. wrapAdd - 1,
                    x \in {0, wrapAdd}, y \in {0, wrapAdd}, z \in {0, wrapAdd},
                    x + b <= y + e,
                    (y + e) - (x + b) <= Window,
                    (y + e) - (z + g) <= Window,
                    (z + g) - (x + b) <= Window,
                    x = 0 \/ z = 0
             PROVE  LET u == Unwrapped(b, e, g)
                    IN  /\ u[2] - u[1] = (y + e) - (x + b)
                        /\ ~(x < y /\ x < z) =>
                              /\ u[1] - u[3] = (x + b) - (z + g)
                              /\ u[2] - u[3] = (y + e) - (z + g)
  <2> DEFINE U == Unwrapped(b, e, g)
  <2> HIDE DEF U
  <2> QED
    BY DEF ChainRight, U
<1> DEFINE Q == Quarter
<1>1. Q \in Nat \ {0} /\ hiMask = 2 * Q /\ wrapAdd = 4 * Q /\ Window \in Nat /\ Window <= Q
  BY CounterRange
<1>2. ASSUME NEW c \in 0 .. wrapAdd - 1 PROVE HighBit(c) = IF c < 2 * Q THEN 0 ELSE 1
  BY <1>1 DEF HighBit
<1>3. MayHaveWrapped(b, e, g) <=>
         /\ \/ b >= 2 * Q \/ e >= 2 * Q \/ g >= 2 * Q
         /\ \/ b < 2 * Q \/ e < 2 * Q \/ g < 2 * Q
  BY <1>1, <1>2 DEF MayHaveWrapped
<1> QED
  BY <1>1, <1>3 DEF Unwrapped, EndWrapped, GpuWrapped, BothWrapped

\* A query with its two times, as it waits in the list.
Query == [frame : Nat, query : Nat, begin : Nat, end : Nat]

Placed(r) ==
    /\ r.taken = r.query.end - r.query.begin
    /\ ~Straddles(r) => r.begin = r.query.begin - r.gpu /\ r.end = r.query.end - r.gpu

\* What checkQuery reports of a query that was not picked up too late.
LEMMA ResultIsPlaced ==
    ASSUME NEW q \in Query, time \in Nat, gpuTime \in 0 .. time,
           q.begin <= q.end, q.end <= time,
           time - q.begin <= Window, time - gpuTime <= Window
    PROVE  /\ Result(q).query = q
           /\ Placed(Result(q))
<1> DEFINE B == q.begin
           E == q.end
           G == gpuTime
           b == Counter(B)
           e == Counter(E)
           g == Counter(G)
           m == IF Wraps(B) <= Wraps(G) THEN Wraps(B) ELSE Wraps(G)
           w == wrapAdd
           x == IF Wraps(B) = m THEN 0 ELSE w
           y == IF Wraps(E) = m THEN 0 ELSE w
           z == IF Wraps(G) = m THEN 0 ELSE w
           u == Unwrapped(b, e, g)
<1>0. /\ B \in Nat /\ E \in Nat /\ G \in Nat /\ B <= E
      /\ E - B <= Window /\ E - G <= Window /\ G - B <= Window /\ B - G <= Window
      /\ w \in Nat /\ w > 0 /\ Window \in Nat
  BY CounterRange DEF Query
<1>1. /\ Wraps(B) \in Nat /\ b \in 0 .. w - 1 /\ B = w * Wraps(B) + b
      /\ Wraps(E) \in Nat /\ e \in 0 .. w - 1 /\ E = w * Wraps(E) + e
      /\ Wraps(G) \in Nat /\ g \in 0 .. w - 1 /\ G = w * Wraps(G) + g
  BY <1>0, CounterShows
<1>2. Wraps(E) \in {Wraps(B), Wraps(B) + 1}
  BY <1>0, WrapsOnce
<1>3. B <= G => Wraps(G) \in {Wraps(B), Wraps(B) + 1}
  BY <1>0, WrapsOnce
<1>4. G <= B => Wraps(B) \in {Wraps(G), Wraps(G) + 1}
  BY <1>0, WrapsOnce
<1>5. G <= E => Wraps(E) \in {Wraps(G), Wraps(G) + 1}
  BY <1>0, WrapsOnce
<1>6. Result(q) = [query |-> q, gpu |-> G, taken |-> u[2] - u[1], begin |-> u[1] - u[3],
                   end |-> u[2] - u[3]]
  BY DEF Result
<1>7. Straddles(Result(q)) <=> Wraps(B) < Wraps(E) /\ Wraps(B) < Wraps(G)
  BY <1>6 DEF Straddles, Wraps
<1> HIDE DEF B, E, G, b, e, g, w, u
<1>8. /\ m \in Nat
      /\ Wraps(B) \in {m, m + 1} /\ Wraps(E) \in {m, m + 1} /\ Wraps(G) \in {m, m + 1}
      /\ Wraps(B) = m \/ Wraps(G) = m
  BY <1>0, <1>1, <1>2, <1>3, <1>4, <1>5
<1> HIDE DEF m
<1>9. /\ B = w * m + x + b /\ E = w * m + y + e /\ G = w * m + z + g
      /\ x \in {0, w} /\ y \in {0, w} /\ z \in {0, w} /\ (x = 0 \/ z = 0)
      /\ (Wraps(B) < Wraps(E) /\ Wraps(B) < Wraps(G) <=> x < y /\ x < z)
  BY <1>0, <1>1, <1>8
<1> HIDE DEF x, y, z
<1>a. w * m \in Nat
  BY <1>0, <1>8
<1>10. /\ (y + e) - (x + b) = E - B /\ (x + b) - (z + g) = B - G /\ (y + e) - (z + g) = E - G
       /\ (z + g) - (x + b) = G - B /\ x + b <= y + e
  BY <1>0, <1>1, <1>9, <1>a
<1>11. /\ u[2] - u[1] = E - B
       /\ ~(x < y /\ x < z) => u[1] - u[3] = B - G /\ u[2] - u[3] = E - G
  <2>1. /\ u[2] - u[1] = (y + e) - (x + b)
        /\ ~(x < y /\ x < z) =>
              u[1] - u[3] = (x + b) - (z + g) /\ u[2] - u[3] = (y + e) - (z + g)
    <3>1. /\ b \in 0 .. wrapAdd - 1 /\ e \in 0 .. wrapAdd - 1 /\ g \in 0 .. wrapAdd - 1
          /\ x \in {0, wrapAdd} /\ y \in {0, wrapAdd} /\ z \in {0, wrapAdd}
      BY <1>1, <1>9 DEF w
    <3>2. /\ x + b <= y + e /\ (y + e) - (x + b) <= Window /\ (y + e) - (z + g) <= Window
          /\ (z + g) - (x + b) <= Window
      BY <1>0, <1>10
    <3>3. ChainRight(b, e, g, x, y, z)
      BY ChainIsRight
    <3> QED
      BY <1>9, <3>1, <3>2, <3>3 DEF ChainRight, u
  <2> QED
    BY <1>10, <2>1
<1> QED
  BY <1>6, <1>7, <1>9, <1>11 DEF Placed, B, E, G
-----------------------------------------------------------------------------
(***************************************************************************)
(* The loop over the list.                                                 *)
(***************************************************************************)
\* p is the list of what was found up to each place.
Scans(p, s, F) ==
    /\ Picked(s, F) = p[Len(s)]
    /\ p[0] = << >>
    /\ \A n \in 1 .. Len(s) :
          p[n] = IF s[n].frame \in F THEN Append(p[n - 1], s[n]) ELSE p[n - 1]

\* The loop runs: there is such a function of places.
LEMMA PickedScans ==
    ASSUME NEW V, NEW s \in Seq(V), NEW F
    PROVE  \E p \in [0 .. Len(s) -> Seq(V)] : Scans(p, s, F)
<1> DEFINE N == Len(s)
           G == [a \in Seq(V) \X (1 .. N) |->
                    IF s[a[2]].frame \in F THEN Append(a[1], s[a[2]]) ELSE a[1]]
           Is(p) == p = [n \in 0 .. N |->
                            IF n = 0 THEN << >>
                            ELSE IF s[n].frame \in F THEN Append(p[n - 1], s[n]) ELSE p[n - 1]]
<1>0. N \in Nat /\ \A n \in 1 .. N : s[n] \in V
  OBVIOUS
<1>1. G \in [Seq(V) \X (1 .. N) -> Seq(V)]
  OBVIOUS
<1>2. PICK f \in [0 .. N -> Seq(V)] : StepsBy(f, N, << >>, G)
  <2>1. << >> \in Seq(V)
    OBVIOUS
  <2> HIDE DEF N, G
  <2> QED
    BY <1>0, <1>1, <2>1, RecursionExists
<1>3. ASSUME NEW n \in 1 .. N
      PROVE  f[n] = IF s[n].frame \in F THEN Append(f[n - 1], s[n]) ELSE f[n - 1]
  <2>1. n - 1 \in 0 .. N
    BY <1>0
  <2>2. f[n - 1] \in Seq(V)
    BY <2>1
  <2>3. G[<<f[n - 1], n>>] = IF s[n].frame \in F THEN Append(f[n - 1], s[n]) ELSE f[n - 1]
    BY <2>2
  <2>4. f[n] = G[<<f[n - 1], n>>]
    BY <1>2 DEF StepsBy
  <2> QED
    BY <2>3, <2>4
<1>4. Is(f)
  <2>1. f[0] = << >>
    BY <1>2 DEF StepsBy
  <2>2. ASSUME NEW n \in 0 .. N
        PROVE  f[n] = IF n = 0 THEN << >>
                      ELSE IF s[n].frame \in F THEN Append(f[n - 1], s[n]) ELSE f[n - 1]
    <3>1. n # 0 => n \in 1 .. N
      BY <1>0
    <3> HIDE DEF G, N
    <3> QED
      BY <1>3, <2>1, <3>1
  <2> HIDE DEF N
  <2> QED
    BY <2>2
<1> DEFINE p == CHOOSE q : Is(q)
<1>5. Picked(s, F) = p[N]
  BY DEF Picked
<1>6. Is(p)
  <2> HIDE DEF Is
  <2> QED
    BY <1>4
<1> HIDE DEF p, G
<1>7. p[0] = << >> /\ \A n \in 1 .. N :
         p[n] = IF s[n].frame \in F THEN Append(p[n - 1], s[n]) ELSE p[n - 1]
  <2> HIDE DEF N
  <2>1. 0 \in 0 .. N
    BY <1>0
  <2>2. \A n \in 1 .. N : n \in 0 .. N /\ n # 0
    BY <1>0
  <2>3. \A n \in 0 .. N :
           p[n] = IF n = 0 THEN << >>
                  ELSE IF s[n].frame \in F THEN Append(p[n - 1], s[n]) ELSE p[n - 1]
    BY <1>6
  <2> QED
    BY <2>1, <2>2, <2>3
<1>8. p \in [0 .. N -> Seq(V)]
  <2> DEFINE T == {k \in 0 .. N : p[k] \in Seq(V)}
  <2>1. 0 \in T
    <3>1. << >> \in Seq(V) /\ 0 \in 0 .. N
      BY <1>0
    <3> QED
      BY <1>7, <3>1
  <2>2. ASSUME NEW k \in 1 .. N, k - 1 \in T PROVE k \in T
    <3>1. s[k] \in V /\ k \in 0 .. N
      BY <1>0
    <3>2. p[k - 1] \in Seq(V)
      BY <2>2
    <3>3. Append(p[k - 1], s[k]) \in Seq(V)
      BY <3>1, <3>2, AppendProperties
    <3>4. p[k] = Append(p[k - 1], s[k]) \/ p[k] = p[k - 1]
      BY <1>7
    <3> HIDE DEF N
    <3> QED
      BY <3>1, <3>2, <3>3, <3>4
  <2>3. 0 .. N \subseteq T
    <3> HIDE DEF T, N
    <3> QED
      BY <1>0, <2>1, <2>2, UpTo
  <2>4. p = [n \in 0 .. N |-> p[n]]
    BY <1>6
  <2> QED
    BY <2>3, <2>4
<1> QED
  BY <1>5, <1>7, <1>8 DEF Scans

\* What is in list p: what list s has up to place n of the frames F, and no more.
Holds(p, s, n, F) ==
    /\ \A j \in 1 .. Len(p) : \E i \in 1 .. n : s[i].frame \in F /\ p[j] = s[i]
    /\ \A i \in 1 .. n : s[i].frame \in F => \E j \in 1 .. Len(p) : p[j] = s[i]

\* One more place of s.
LEMMA HoldsOn ==
    ASSUME NEW V, NEW s \in Seq(V), NEW F, NEW n \in 1 .. Len(s), NEW p \in Seq(V),
           Holds(p, s, n - 1, F)
    PROVE  Holds(IF s[n].frame \in F THEN Append(p, s[n]) ELSE p, s, n, F)
<1>0. /\ s[n] \in V /\ Len(p) \in Nat
      /\ \A i : i \in 1 .. n <=> i \in 1 .. n - 1 \/ i = n
  OBVIOUS
<1>1. CASE s[n].frame \notin F
  BY <1>0, <1>1 DEF Holds
<1>2. CASE s[n].frame \in F
  <2> DEFINE q == Append(p, s[n])
  <2>1. /\ Len(q) = Len(p) + 1 /\ q[Len(p) + 1] = s[n]
        /\ \A j \in 1 .. Len(p) : q[j] = p[j]
    BY <1>0, AppendProperties
  <2>2. \A j : j \in 1 .. Len(q) <=> j \in 1 .. Len(p) \/ j = Len(p) + 1
    BY <1>0, <2>1
  <2> HIDE DEF q
  <2>3. ASSUME NEW j \in 1 .. Len(q)
        PROVE  \E i \in 1 .. n : s[i].frame \in F /\ q[j] = s[i]
    <3>1. CASE j \in 1 .. Len(p)
      <4>1. PICK i \in 1 .. n - 1 : s[i].frame \in F /\ p[j] = s[i]
        BY <3>1 DEF Holds
      <4> QED
        BY <1>0, <2>1, <3>1, <4>1
    <3>2. CASE j = Len(p) + 1
      BY <1>0, <1>2, <2>1, <3>2
    <3> QED
      BY <2>2, <3>1, <3>2
  <2>4. ASSUME NEW i \in 1 .. n, s[i].frame \in F PROVE \E j \in 1 .. Len(q) : q[j] = s[i]
    <3>1. CASE i \in 1 .. n - 1
      <4>1. PICK j \in 1 .. Len(p) : p[j] = s[i]
        BY <2>4, <3>1 DEF Holds
      <4> QED
        BY <2>1, <2>2, <4>1
    <3>2. CASE i = n
      BY <2>1, <2>2, <3>2
    <3> QED
      BY <1>0, <3>1, <3>2
  <2>5. Holds(q, s, n, F)
    BY <2>3, <2>4 DEF Holds
  <2> QED
    BY <1>2, <2>5 DEF q
<1> QED
  BY <1>1, <1>2

\* The loop finds the entries of the frames F, all of them and nothing else.
LEMMA PickedIs ==
    ASSUME NEW V, NEW s \in Seq(V), NEW F
    PROVE  Picked(s, F) \in Seq(V) /\ Holds(Picked(s, F), s, Len(s), F)
<1> DEFINE N == Len(s)
<1>0. N \in Nat
  OBVIOUS
<1>1. PICK p \in [0 .. N -> Seq(V)] : Scans(p, s, F)
  BY PickedScans
<1>1a. /\ Picked(s, F) = p[N] /\ p[0] = << >>
       /\ \A n \in 1 .. N :
             p[n] = IF s[n].frame \in F THEN Append(p[n - 1], s[n]) ELSE p[n - 1]
  BY <1>1 DEF Scans
<1> DEFINE T == {n \in 0 .. N : Holds(p[n], s, n, F)}
<1>2. 0 \in T
  <2>1. Len(p[0]) = 0
    BY <1>1a
  <2>2. 1 .. 0 = {} /\ 0 \in 0 .. N
    BY <1>0
  <2>3. Holds(p[0], s, 0, F)
    BY <2>1, <2>2 DEF Holds
  <2> QED
    BY <2>2, <2>3
<1>3. ASSUME NEW n \in 1 .. N, n - 1 \in T PROVE n \in T
  <2>1. n - 1 \in 0 .. N /\ n \in 0 .. N
    BY <1>0
  <2>2. p[n - 1] \in Seq(V) /\ Holds(p[n - 1], s, n - 1, F)
    BY <1>3, <2>1
  <2>3. Holds(IF s[n].frame \in F THEN Append(p[n - 1], s[n]) ELSE p[n - 1], s, n, F)
    BY <2>2, HoldsOn
  <2> QED
    BY <1>1a, <2>1, <2>3
<1>4. 0 .. N \subseteq T
  <2> HIDE DEF N, T
  <2> QED
    BY <1>0, <1>2, <1>3, UpTo
<1> QED
  BY <1>0, <1>1a, <1>4

\* What is not of the frames F is of the frames G, and every entry goes to one of the two.
LEMMA PickedCounts ==
    ASSUME NEW V, NEW s \in Seq(V), NEW F, NEW G,
           \A i \in 1 .. Len(s) : s[i].frame \in F <=> s[i].frame \notin G
    PROVE  Len(Picked(s, F)) + Len(Picked(s, G)) = Len(s)
<1> DEFINE N == Len(s)
<1>0. N \in Nat /\ \A n \in 1 .. N : s[n] \in V
  OBVIOUS
<1>1. PICK p \in [0 .. N -> Seq(V)] : Scans(p, s, F)
  BY PickedScans
<1>2. PICK q \in [0 .. N -> Seq(V)] : Scans(q, s, G)
  BY PickedScans
<1>2a. /\ Picked(s, F) = p[N] /\ p[0] = << >> /\ Picked(s, G) = q[N] /\ q[0] = << >>
       /\ \A n \in 1 .. N :
             /\ p[n] = IF s[n].frame \in F THEN Append(p[n - 1], s[n]) ELSE p[n - 1]
             /\ q[n] = IF s[n].frame \in G THEN Append(q[n - 1], s[n]) ELSE q[n - 1]
  BY <1>1, <1>2 DEF Scans
<1> DEFINE T == {n \in 0 .. N : Len(p[n]) + Len(q[n]) = n}
<1>3. 0 \in T
  <2>1. Len(p[0]) = 0 /\ Len(q[0]) = 0
    BY <1>2a
  <2> QED
    BY <1>0, <2>1
<1>4. ASSUME NEW n \in 1 .. N, n - 1 \in T PROVE n \in T
  <2>1. n - 1 \in 0 .. N /\ n \in 0 .. N /\ s[n] \in V
    BY <1>0
  <2>2. p[n - 1] \in Seq(V) /\ q[n - 1] \in Seq(V)
    BY <2>1
  <2>3. /\ Len(p[n - 1]) \in Nat /\ Len(q[n - 1]) \in Nat
        /\ Len(Append(p[n - 1], s[n])) = Len(p[n - 1]) + 1
        /\ Len(Append(q[n - 1], s[n])) = Len(q[n - 1]) + 1
    BY <2>1, <2>2, AppendProperties, LenProperties
  <2>4. Len(p[n - 1]) + Len(q[n - 1]) = n - 1
    BY <1>4
  <2>5. CASE s[n].frame \in F
    <3>1. p[n] = Append(p[n - 1], s[n]) /\ q[n] = q[n - 1]
      BY <1>2a, <2>5
    <3>2. Len(p[n]) + Len(q[n]) = Len(p[n - 1]) + Len(q[n - 1]) + 1
      BY <2>3, <3>1
    <3> QED
      BY <2>1, <2>4, <3>2
  <2>6. CASE s[n].frame \notin F
    <3>1. q[n] = Append(q[n - 1], s[n]) /\ p[n] = p[n - 1]
      BY <1>2a, <2>6
    <3>2. Len(p[n]) + Len(q[n]) = Len(p[n - 1]) + Len(q[n - 1]) + 1
      BY <2>3, <3>1
    <3> QED
      BY <2>1, <2>4, <3>2
  <2> HIDE DEF T
  <2> QED
    BY <2>5, <2>6
<1>5. 0 .. N \subseteq T
  <2> HIDE DEF N, T
  <2> QED
    BY <1>0, <1>3, <1>4, UpTo
<1> QED
  BY <1>0, <1>2a, <1>5
-----------------------------------------------------------------------------
(***************************************************************************)
(* The invariant.                                                          *)
(***************************************************************************)
\* Every query in the list is of a frame drawn, with a pair generated, and its times
\* are in order.
Typed ==
    /\ time \in 0 .. MaxTime /\ gpuTime \in 0 .. time
    /\ phase \in {"check", "begin", "draw", "ended", "complete"}
    /\ frame \in 0 .. MaxFrame
    /\ active \in Seq(Query) /\ available \in Seq(Nat) /\ generated \in Nat
    /\ \A i \in 1 .. Len(active) :
          /\ active[i].frame \in 1 .. frame /\ active[i].query \in 1 .. generated
          /\ active[i].begin <= active[i].end /\ active[i].end <= time
    /\ \A i \in 1 .. Len(available) : available[i] \in 1 .. generated

\* Nothing in use is older than the window.
InTime ==
    /\ time - gpuTime <= Window
    /\ \A i \in 1 .. Len(active) : time - active[i].begin <= Window

\* While a frame is drawn its query is the last in the list, and the only one of its frame.
Drawing ==
    phase = "draw" =>
        /\ Len(active) # 0
        /\ \A i \in 1 .. Len(active) :
              active[i].frame = active[Len(active)].frame => i = Len(active)

OnePerFrame ==
    \A i, j \in 1 .. Len(active) : active[i].frame = active[j].frame => active[i] = active[j]

\* No pair is lost, and there are as many places as pairs.
Accounted ==
    /\ \A k \in 1 .. generated :
          \/ \E i \in 1 .. Len(active) : active[i].query = k
          \/ \E i \in 1 .. Len(available) : available[i] = k
    /\ Len(active) + Len(available) = generated

\* The same of the frames drawn, for each of which there is one result in the end.
Reported ==
    /\ \A f \in 1 .. frame :
          \/ \E i \in 1 .. Len(active) : active[i].frame = f
          \/ \E r \in results : r.query.frame = f
    /\ \A r \in results : r.query.frame \in 1 .. frame
    /\ \A r \in results, i \in 1 .. Len(active) : r.query.frame # active[i].frame
    /\ \A r, s \in results : r.query.frame = s.query.frame => r = s

AllPlaced == \A r \in results : Placed(r)

Right ==
    /\ Typed /\ InTime /\ Drawing /\ OnePerFrame /\ Accounted /\ Reported /\ AllPlaced

\* At the first frameCompleted nothing is in use.
LEMMA StartsRight == Init => Right
<1> SUFFICES ASSUME Init PROVE Right
  OBVIOUS
<1>1. wrapAdd \in Nat /\ wrapAdd <= MaxTime + 1 /\ MaxTime \in Nat /\ MaxFrame \in Nat /\ Window \in Nat
  BY CounterRange, TimeAssumption, BoundsAssumption
<1>2. active = << >> /\ available = << >> /\ Len(active) = 0 /\ Len(available) = 0 /\ 1 .. 0 = {}
  BY DEF Init
<1>3. active \in Seq(Query) /\ available \in Seq(Nat)
  BY <1>2
<1>4. Typed
  BY <1>1, <1>2, <1>3 DEF Init, Typed
<1>5. InTime
  BY <1>1, <1>2 DEF Init, InTime
<1> QED
  BY <1>2, <1>4, <1>5 DEF Init, Right, Drawing, OnePerFrame, Accounted, Reported, AllPlaced

(***************************************************************************)
(* Check: the list is split in two, and what goes is reported.             *)
(***************************************************************************)
\* Where the entries of the list are after Check, and what there is new.
Split(ready) ==
    /\ active' \in Seq(Query) /\ available' \in Seq(Nat)
    /\ Len(active') + Len(available') = Len(active) + Len(available)
    /\ \A j \in 1 .. Len(active') :
          \E i \in 1 .. Len(active) : active[i].frame \notin ready /\ active'[j] = active[i]
    /\ \A i \in 1 .. Len(active) : active[i].frame \notin ready =>
          \E j \in 1 .. Len(active') : active'[j] = active[i]
    /\ \A i \in 1 .. Len(active) : active[i].frame \in ready =>
          /\ Result(active[i]) \in results'
          /\ \E j \in 1 .. Len(available') : available'[j] = active[i].query
    /\ \A r \in results' :
          \/ r \in results
          \/ \E i \in 1 .. Len(active) : active[i].frame \in ready /\ r = Result(active[i])
    /\ results \subseteq results'
    /\ \A i \in 1 .. Len(available) :
          \E j \in 1 .. Len(available') : available'[j] = available[i]
    /\ \A j \in 1 .. Len(available') :
          \/ \E i \in 1 .. Len(available) : available'[j] = available[i]
          \/ \E i \in 1 .. Len(active) : available'[j] = active[i].query

\* The pairs of list p are put behind those of list a.
LEMMA PairsGoBack ==
    ASSUME NEW a \in Seq(Nat), NEW p \in Seq(Query)
    PROVE  LET b == a \o [i \in 1 .. Len(p) |-> p[i].query]
           IN  /\ b \in Seq(Nat) /\ Len(b) = Len(a) + Len(p)
               /\ \A i \in 1 .. Len(a) : \E j \in 1 .. Len(b) : b[j] = a[i]
               /\ \A i \in 1 .. Len(p) : \E j \in 1 .. Len(b) : b[j] = p[i].query
               /\ \A j \in 1 .. Len(b) : \/ \E i \in 1 .. Len(a) : b[j] = a[i]
                                         \/ \E i \in 1 .. Len(p) : b[j] = p[i].query
<1> DEFINE c == [i \in 1 .. Len(p) |-> p[i].query]
           b == a \o c
<1>1. Len(p) \in Nat /\ Len(a) \in Nat /\ \A i \in 1 .. Len(p) : p[i].query \in Nat
  <2>1. Len(p) \in Nat /\ Len(a) \in Nat
    BY LenProperties
  <2>2. \A q \in Query : q.query \in Nat
    BY DEF Query
  <2> QED
    BY <2>1, <2>2, ElementOfSeq
<1>2. c \in Seq(Nat) /\ Len(c) = Len(p) /\ \A i \in 1 .. Len(p) : c[i] = p[i].query
  BY <1>1
<1> HIDE DEF c
<1>3. /\ b \in Seq(Nat) /\ Len(b) = Len(a) + Len(p)
      /\ \A j \in 1 .. Len(a) + Len(c) : b[j] = IF j <= Len(a) THEN a[j] ELSE c[j - Len(a)]
  <2>1. c \in Seq(Nat)
    BY <1>2
  <2>2. /\ b \in Seq(Nat) /\ Len(b) = Len(a) + Len(c)
        /\ \A j \in 1 .. Len(a) + Len(c) : b[j] = IF j <= Len(a) THEN a[j] ELSE c[j - Len(a)]
    BY <2>1, ConcatProperties
  <2> HIDE DEF b
  <2> QED
    BY <1>2, <2>2
<1> HIDE DEF b
<1>4. ASSUME NEW i \in 1 .. Len(a) PROVE i \in 1 .. Len(b) /\ b[i] = a[i]
  BY <1>1, <1>2, <1>3
<1>5. ASSUME NEW i \in 1 .. Len(p)
      PROVE  Len(a) + i \in 1 .. Len(b) /\ b[Len(a) + i] = p[i].query
  <2>1. Len(a) + i \in 1 .. Len(a) + Len(c) /\ ~(Len(a) + i <= Len(a)) /\ (Len(a) + i) - Len(a) = i
    BY <1>1, <1>2
  <2> QED
    BY <1>2, <1>3, <2>1
<1>6. ASSUME NEW j \in 1 .. Len(b), j \notin 1 .. Len(a)
      PROVE  j - Len(a) \in 1 .. Len(p) /\ b[j] = p[j - Len(a)].query
  <2>1. j \in 1 .. Len(a) + Len(c) /\ ~(j <= Len(a)) /\ j - Len(a) \in 1 .. Len(p)
    BY <1>1, <1>2, <1>3, <1>6
  <2> QED
    BY <1>2, <1>3, <2>1
<1>7. /\ \A i \in 1 .. Len(a) : \E j \in 1 .. Len(b) : b[j] = a[i]
      /\ \A i \in 1 .. Len(p) : \E j \in 1 .. Len(b) : b[j] = p[i].query
      /\ \A j \in 1 .. Len(b) : \/ \E i \in 1 .. Len(a) : b[j] = a[i]
                                \/ \E i \in 1 .. Len(p) : b[j] = p[i].query
  BY <1>4, <1>5, <1>6
<1> QED
  BY <1>3, <1>7 DEF b, c

\* Check takes some frames' queries out of the list and reports them.
LEMMA CheckSplits ==
    ASSUME Typed, Check
    PROVE  \E ready \in SUBSET Frames(active) : Split(ready)
<1>1. PICK ready \in SUBSET Frames(active) :
         LET done == Picked(active, ready)
         IN  /\ active' = Picked(active, Frames(active) \ ready)
             /\ available' = available \o [i \in 1 .. Len(done) |-> done[i].query]
             /\ results' = results \union {Result(done[i]) : i \in 1 .. Len(done)}
  BY DEF Check
<1> DEFINE left == Frames(active) \ ready
           done == Picked(active, ready)
           kept == Picked(active, left)
<1>2. active \in Seq(Query) /\ available \in Seq(Nat) /\ Len(active) \in Nat /\ Len(available) \in Nat
  BY DEF Typed
<1>3. \A i \in 1 .. Len(active) : active[i].frame \in ready <=> active[i].frame \notin left
  BY DEF Frames
<1> HIDE DEF left
<1>4. done \in Seq(Query) /\ Holds(done, active, Len(active), ready)
  BY <1>2, PickedIs
<1>5. kept \in Seq(Query) /\ Holds(kept, active, Len(active), left)
  BY <1>2, PickedIs
<1>6. Len(done) + Len(kept) = Len(active)
  BY <1>2, <1>3, PickedCounts
<1>7. /\ active' = kept
      /\ available' = available \o [i \in 1 .. Len(done) |-> done[i].query]
      /\ results' = results \union {Result(done[i]) : i \in 1 .. Len(done)}
  BY <1>1 DEF left
<1> HIDE DEF done, kept
<1>8. /\ available' \in Seq(Nat) /\ Len(available') = Len(available) + Len(done)
      /\ \A i \in 1 .. Len(available) :
            \E j \in 1 .. Len(available') : available'[j] = available[i]
      /\ \A i \in 1 .. Len(done) : \E j \in 1 .. Len(available') : available'[j] = done[i].query
      /\ \A j \in 1 .. Len(available') :
            \/ \E i \in 1 .. Len(available) : available'[j] = available[i]
            \/ \E i \in 1 .. Len(done) : available'[j] = done[i].query
  <2> DEFINE b == available \o [i \in 1 .. Len(done) |-> done[i].query]
  <2>1. /\ b \in Seq(Nat) /\ Len(b) = Len(available) + Len(done)
        /\ \A i \in 1 .. Len(available) : \E j \in 1 .. Len(b) : b[j] = available[i]
        /\ \A i \in 1 .. Len(done) : \E j \in 1 .. Len(b) : b[j] = done[i].query
        /\ \A j \in 1 .. Len(b) : \/ \E i \in 1 .. Len(available) : b[j] = available[i]
                                  \/ \E i \in 1 .. Len(done) : b[j] = done[i].query
    BY <1>2, <1>4, PairsGoBack
  <2>2. available' = b
    BY <1>7
  <2> HIDE DEF b
  <2> QED
    BY <2>1, <2>2
<1>9. Len(active') + Len(available') = Len(active) + Len(available)
  <2>1. Len(done) \in Nat /\ Len(kept) \in Nat
    BY <1>4, <1>5, LenProperties
  <2>2. Len(active') = Len(kept) /\ Len(available') = Len(available) + Len(done)
    BY <1>7, <1>8
  <2>3. Len(active) \in Nat /\ Len(available) \in Nat
    BY <1>2
  <2> QED
    BY <1>6, <2>1, <2>2, <2>3
<1>10. ASSUME NEW i \in 1 .. Len(active), active[i].frame \in ready
       PROVE  /\ Result(active[i]) \in results'
              /\ \E j \in 1 .. Len(available') : available'[j] = active[i].query
  <2>1. PICK k \in 1 .. Len(done) : done[k] = active[i]
    BY <1>4, <1>10 DEF Holds
  <2>2. Result(done[k]) \in results'
    BY <1>7
  <2>3. Result(done[k]) = Result(active[i])
    BY <2>1
  <2>4. \E j \in 1 .. Len(available') : available'[j] = active[i].query
    <3>1. \E j \in 1 .. Len(available') : available'[j] = done[k].query
      BY <1>8
    <3> QED
      BY <2>1, <3>1
  <2> QED
    BY <2>2, <2>3, <2>4
<1>11. ASSUME NEW r \in results', r \notin results
       PROVE  \E i \in 1 .. Len(active) : active[i].frame \in ready /\ r = Result(active[i])
  <2>1. PICK k \in 1 .. Len(done) : r = Result(done[k])
    BY <1>7, <1>11
  <2> QED
    BY <1>4, <2>1 DEF Holds
<1>12. ASSUME NEW j \in 1 .. Len(available'),
              ~\E i \in 1 .. Len(available) : available'[j] = available[i]
       PROVE  \E i \in 1 .. Len(active) : available'[j] = active[i].query
  <2>1. PICK k \in 1 .. Len(done) : available'[j] = done[k].query
    BY <1>8, <1>12
  <2> QED
    BY <1>4, <2>1 DEF Holds
<1>13. /\ \A j \in 1 .. Len(active') :
             \E i \in 1 .. Len(active) : active[i].frame \notin ready /\ active'[j] = active[i]
       /\ \A i \in 1 .. Len(active) : active[i].frame \notin ready =>
             \E j \in 1 .. Len(active') : active'[j] = active[i]
  BY <1>3, <1>5, <1>7 DEF Holds
<1>14. Split(ready)
  BY <1>5, <1>7, <1>8, <1>9, <1>10, <1>11, <1>12, <1>13 DEF Split
<1> QED
  BY <1>14

\* Check (checkQuery): a reported query's pair goes back, and its frame is reported once.
LEMMA CheckKeeps ==
    ASSUME Right, Check
    PROVE  Right'
<1>1. Typed /\ InTime /\ OnePerFrame /\ Accounted /\ Reported /\ AllPlaced
  BY DEF Right
<1>2. PICK ready \in SUBSET Frames(active) : Split(ready)
  BY <1>1, CheckSplits
<1>3. /\ phase' \in {"begin", "complete"}
      /\ UNCHANGED <<time, frame, generated, gpuTime>>
  BY DEF Check
<1>4. ASSUME NEW i \in 1 .. Len(active)
      PROVE  /\ active[i] \in Query /\ active[i].frame \in 1 .. frame
             /\ active[i].query \in 1 .. generated
             /\ active[i].begin <= active[i].end /\ active[i].end <= time
             /\ time - active[i].begin <= Window
             /\ Result(active[i]).query = active[i] /\ Placed(Result(active[i]))
  <2>1. active[i] \in Query
    BY <1>1, ElementOfSeq DEF Typed
  <2>2. /\ active[i].frame \in 1 .. frame /\ active[i].query \in 1 .. generated
        /\ active[i].begin <= active[i].end /\ active[i].end <= time
        /\ time - active[i].begin <= Window /\ time - gpuTime <= Window
    BY <1>1 DEF Typed, InTime
  <2>3. time \in Nat /\ gpuTime \in 0 .. time
    <3>1. MaxTime \in Nat
      BY BoundsAssumption
    <3> QED
      BY <1>1, <3>1 DEF Typed
  <2> QED
    BY <2>1, <2>2, <2>3, ResultIsPlaced
\* What Split says, a part at a time.
<1>5. ASSUME NEW j \in 1 .. Len(active')
      PROVE  \E i \in 1 .. Len(active) : active[i].frame \notin ready /\ active'[j] = active[i]
  BY <1>2 DEF Split
<1>6. ASSUME NEW i \in 1 .. Len(active), active[i].frame \notin ready
      PROVE  \E j \in 1 .. Len(active') : active'[j] = active[i]
  BY <1>2, <1>6 DEF Split
<1>7. ASSUME NEW i \in 1 .. Len(active), active[i].frame \in ready
      PROVE  /\ Result(active[i]) \in results'
             /\ \E j \in 1 .. Len(available') : available'[j] = active[i].query
  BY <1>2, <1>7 DEF Split
<1>8. ASSUME NEW r \in results', r \notin results
      PROVE  \E i \in 1 .. Len(active) : active[i].frame \in ready /\ r = Result(active[i])
  BY <1>2, <1>8 DEF Split
<1>9. Typed'
  <2>1. ASSUME NEW j \in 1 .. Len(active')
        PROVE  /\ active'[j].frame \in 1 .. frame' /\ active'[j].query \in 1 .. generated'
               /\ active'[j].begin <= active'[j].end /\ active'[j].end <= time'
    <3>1. PICK i \in 1 .. Len(active) : active'[j] = active[i]
      BY <1>5
    <3> QED
      BY <1>3, <1>4, <3>1
  <2>2. ASSUME NEW j \in 1 .. Len(available') PROVE available'[j] \in 1 .. generated'
    <3>1. CASE \E i \in 1 .. Len(available) : available'[j] = available[i]
      BY <1>1, <1>3, <3>1 DEF Typed
    <3>2. CASE \E i \in 1 .. Len(active) : available'[j] = active[i].query
      BY <1>3, <1>4, <3>2
    <3> QED
      BY <1>2, <3>1, <3>2 DEF Split
  <2>3. active' \in Seq(Query) /\ available' \in Seq(Nat)
    BY <1>2 DEF Split
  <2>4. /\ time' \in 0 .. MaxTime /\ gpuTime' \in 0 .. time' /\ frame' \in 0 .. MaxFrame
        /\ generated' \in Nat
    BY <1>1, <1>3 DEF Typed
  <2> QED
    BY <1>3, <2>1, <2>2, <2>3, <2>4 DEF Typed
<1>10. InTime'
  <2>1. ASSUME NEW j \in 1 .. Len(active') PROVE time' - active'[j].begin <= Window
    <3>1. PICK i \in 1 .. Len(active) : active'[j] = active[i]
      BY <1>5
    <3> QED
      BY <1>3, <1>4, <3>1
  <2> QED
    BY <1>1, <1>3, <2>1 DEF InTime
<1>11. Drawing'
  BY <1>3 DEF Drawing
<1>12. OnePerFrame'
  <2>1. ASSUME NEW j \in 1 .. Len(active'), NEW k \in 1 .. Len(active'),
               active'[j].frame = active'[k].frame
        PROVE  active'[j] = active'[k]
    <3>1. PICK i \in 1 .. Len(active) : active'[j] = active[i]
      BY <1>5
    <3>2. PICK l \in 1 .. Len(active) : active'[k] = active[l]
      BY <1>5
    <3> QED
      BY <1>1, <2>1, <3>1, <3>2 DEF OnePerFrame
  <2> QED
    BY <2>1 DEF OnePerFrame
<1>13. Accounted'
  <2>1. ASSUME NEW k \in 1 .. generated'
        PROVE  \/ \E i \in 1 .. Len(active') : active'[i].query = k
               \/ \E i \in 1 .. Len(available') : available'[i] = k
    <3>1. CASE \E i \in 1 .. Len(active) : active[i].query = k
      <4>1. PICK i \in 1 .. Len(active) : active[i].query = k
        BY <3>1
      <4>2. CASE active[i].frame \in ready
        <5>1. PICK j \in 1 .. Len(available') : available'[j] = active[i].query
          BY <1>7, <4>2
        <5> QED
          BY <4>1, <5>1
      <4>3. CASE active[i].frame \notin ready
        <5>1. PICK j \in 1 .. Len(active') : active'[j] = active[i]
          BY <1>6, <4>3
        <5> QED
          BY <4>1, <5>1
      <4> QED
        BY <4>2, <4>3
    <3>2. CASE \E i \in 1 .. Len(available) : available[i] = k
      <4>1. PICK i \in 1 .. Len(available) : available[i] = k
        BY <3>2
      <4>2. \E j \in 1 .. Len(available') : available'[j] = available[i]
        BY <1>2 DEF Split
      <4> QED
        BY <4>1, <4>2
    <3> QED
      BY <1>1, <1>3, <3>1, <3>2 DEF Accounted
  <2>2. Len(active') + Len(available') = generated'
    BY <1>1, <1>2, <1>3 DEF Split, Accounted
  <2> QED
    BY <2>1, <2>2 DEF Accounted
<1>14. Reported'
  <2>1. ASSUME NEW f \in 1 .. frame'
        PROVE  \/ \E i \in 1 .. Len(active') : active'[i].frame = f
               \/ \E r \in results' : r.query.frame = f
    <3>1. CASE \E i \in 1 .. Len(active) : active[i].frame = f
      <4>1. PICK i \in 1 .. Len(active) : active[i].frame = f
        BY <3>1
      <4> QED
        BY <1>4, <1>6, <1>7, <4>1
    <3>2. CASE \E r \in results : r.query.frame = f
      BY <1>2, <3>2 DEF Split
    <3> QED
      BY <1>1, <1>3, <3>1, <3>2 DEF Reported
  <2>2. ASSUME NEW r \in results' PROVE r.query.frame \in 1 .. frame'
    <3>1. CASE r \in results
      BY <1>1, <1>3, <3>1 DEF Reported
    <3>2. CASE r \notin results
      BY <1>3, <1>4, <1>8, <3>2
    <3> QED
      BY <3>1, <3>2
  <2>3. ASSUME NEW r \in results', NEW j \in 1 .. Len(active')
        PROVE  r.query.frame # active'[j].frame
    <3>1. PICK i \in 1 .. Len(active) : active[i].frame \notin ready /\ active'[j] = active[i]
      BY <1>5
    <3>2. CASE r \in results
      BY <1>1, <3>1, <3>2 DEF Reported
    <3>3. CASE r \notin results
      <4>1. PICK k \in 1 .. Len(active) : active[k].frame \in ready /\ r = Result(active[k])
        BY <1>8, <3>3
      <4> QED
        BY <1>4, <3>1, <4>1
    <3> QED
      BY <3>2, <3>3
  <2>4. ASSUME NEW r \in results', NEW s \in results', r.query.frame = s.query.frame
        PROVE  r = s
    <3>1. CASE r \in results /\ s \in results
      BY <1>1, <2>4, <3>1 DEF Reported
    <3>2. CASE r \in results /\ s \notin results
      BY <1>1, <1>4, <1>8, <2>4, <3>2 DEF Reported
    <3>3. CASE r \notin results /\ s \in results
      BY <1>1, <1>4, <1>8, <2>4, <3>3 DEF Reported
    <3>4. CASE r \notin results /\ s \notin results
      <4>1. PICK i \in 1 .. Len(active) : r = Result(active[i])
        BY <1>8, <3>4
      <4>2. PICK k \in 1 .. Len(active) : s = Result(active[k])
        BY <1>8, <3>4
      <4>3. active[i].frame = active[k].frame
        BY <1>4, <2>4, <4>1, <4>2
      <4>4. active[i] = active[k]
        BY <1>1, <4>3 DEF OnePerFrame
      <4> QED
        BY <4>1, <4>2, <4>4
    <3> QED
      BY <3>1, <3>2, <3>3, <3>4
  <2> QED
    BY <2>1, <2>2, <2>3, <2>4 DEF Reported
<1>15. AllPlaced'
  <2>1. ASSUME NEW r \in results' PROVE Placed(r)
    BY <1>1, <1>4, <1>8 DEF AllPlaced
  <2>2. \A r : Placed(r)' <=> Placed(r)
    BY DEF Placed, Straddles
  <2> QED
    BY <2>1, <2>2 DEF AllPlaced
<1> QED
  BY <1>9, <1>10, <1>11, <1>12, <1>13, <1>14, <1>15 DEF Right

(***************************************************************************)
(* A frame begins.                                                         *)
(***************************************************************************)
\* Its query with pair p is put behind the others.
Begun(p) ==
    LET q == [frame |-> frame + 1, query |-> p, begin |-> time, end |-> time]
    IN  /\ q \in Query /\ active' = Append(active, q)
        /\ active' \in Seq(Query) /\ Len(active') = Len(active) + 1
        /\ active'[Len(active) + 1] = q
        /\ \A i \in 1 .. Len(active) : i \in 1 .. Len(active') /\ active'[i] = active[i]
        /\ \A i \in 1 .. Len(active') : i \in 1 .. Len(active) \/ i = Len(active) + 1

\* What BeginQuery appends is a query of the new frame, behind all others.
LEMMA BeginsWith ==
    ASSUME Typed, NEW p \in Nat,
           active' = Append(active, [frame |-> frame + 1, query |-> p,
                                     begin |-> time, end |-> time])
    PROVE  Begun(p)
<1> DEFINE q == [frame |-> frame + 1, query |-> p, begin |-> time, end |-> time]
<1>1. time \in Nat /\ frame \in Nat
  BY BoundsAssumption DEF Typed
<1>2. q \in Query
  BY <1>1 DEF Query
<1> HIDE DEF q
<1>3. active \in Seq(Query) /\ Len(active) \in Nat
  BY LenProperties DEF Typed
<1>4. active' = Append(active, q)
  BY DEF q
<1>5. /\ active' \in Seq(Query) /\ Len(active') = Len(active) + 1
      /\ active'[Len(active) + 1] = q
      /\ \A i \in 1 .. Len(active) : active'[i] = active[i]
  BY <1>2, <1>3, <1>4, AppendProperties
<1>6. /\ \A i \in 1 .. Len(active) : i \in 1 .. Len(active')
      /\ \A i \in 1 .. Len(active') : i \in 1 .. Len(active) \/ i = Len(active) + 1
  BY <1>3, <1>5
<1> QED
  BY <1>2, <1>4, <1>5, <1>6 DEF Begun, q

\* A pair is taken from the end of the pool.
LEMMA PoolGives ==
    ASSUME NEW a \in Seq(Nat), a # << >>
    PROVE  /\ Len(a) \in Nat \ {0} /\ Last(a) = a[Len(a)] /\ Front(a) \in Seq(Nat)
           /\ Len(Front(a)) = Len(a) - 1
           /\ \A i \in 1 .. Len(a) - 1 : i \in 1 .. Len(a) /\ Front(a)[i] = a[i]
<1>1. Len(a) \in Nat \ {0}
  BY EmptySeq
<1>2. Front(a) = SubSeq(a, 1, Len(a) - 1)
  BY DEF Front
<1>3. 1 \in 1 .. Len(a) + 1 /\ Len(a) - 1 \in 0 .. Len(a)
  BY <1>1
<1>4. /\ SubSeq(a, 1, Len(a) - 1) \in Seq(Nat)
      /\ Len(SubSeq(a, 1, Len(a) - 1)) = Len(a) - 1
      /\ \A i \in 1 .. Len(a) - 1 : SubSeq(a, 1, Len(a) - 1)[i] = a[i]
  <2> DEFINE m == Len(a) - 1
             b == SubSeq(a, 1, m)
  <2>1. m \in Int /\ 1 \in Int /\ m \in Nat /\ \A i \in 1 .. m : i \in 1 .. Len(a)
    BY <1>1
  <2> HIDE DEF m
  <2>1a. \A i \in 1 .. m : a[i] \in Nat
    BY <2>1, ElementOfSeq
  <2>2. /\ b \in Seq(Nat)
        /\ Len(b) = IF 1 <= m THEN m - 1 + 1 ELSE 0
        /\ \A i \in 1 .. m - 1 + 1 : b[i] = a[1 + i - 1]
    BY <2>1, <2>1a, SubSeqProperties
  <2> HIDE DEF b
  <2>3. m - 1 + 1 = m /\ Len(b) = m /\ \A i \in 1 .. m : 1 + i - 1 = i
    BY <2>1, <2>2
  <2>4. b \in Seq(Nat) /\ Len(b) = m /\ \A i \in 1 .. m : b[i] = a[i]
    BY <2>2, <2>3
  <2> QED
    BY <2>4 DEF b, m
<1> QED
  BY <1>1, <1>2, <1>4 DEF Last

\* BeginQuery: the frame gets a new pair or one of the pool, never one in use.
LEMMA BeginKeeps ==
    ASSUME Right, BeginQuery
    PROVE  Right'
<1>1. Typed /\ InTime /\ OnePerFrame /\ Accounted /\ Reported /\ AllPlaced
  BY DEF Right
<1>2. /\ frame < MaxFrame /\ frame' = frame + 1 /\ phase' = "draw"
      /\ UNCHANGED <<time, gpuTime, results>>
  BY DEF BeginQuery
<1>3. /\ time \in Nat /\ frame \in Nat /\ generated \in Nat /\ Len(active) \in Nat
      /\ Len(available) \in Nat /\ Window \in Nat /\ MaxFrame \in Nat
  BY <1>1, BoundsAssumption, LenProperties DEF Typed
\* The pair the frame gets: a new one, or the last of the pool.
<1> DEFINE Gets(p) ==
              /\ p \in 1 .. generated' /\ Begun(p)
              /\ generated \in 0 .. generated' /\ generated' \in Nat
              /\ available' \in Seq(Nat)
              /\ Len(active') + Len(available') = generated'
              /\ \A i \in 1 .. Len(available') : available'[i] \in 1 .. generated
              /\ \A k \in 1 .. generated' :
                    \/ \E i \in 1 .. Len(active) : active[i].query = k
                    \/ \E i \in 1 .. Len(available') : available'[i] = k
                    \/ k = p
<1>4. \E p \in Nat : Gets(p)
  <2>1. CASE available = << >>
    <3>1. /\ generated' = generated + 1 /\ available' = available
          /\ active' = Append(active, [frame |-> frame + 1, query |-> generated + 1,
                                       begin |-> time, end |-> time])
      BY <1>2, <2>1 DEF BeginQuery
    <3>2. Begun(generated + 1)
      BY <1>1, <1>3, <3>1, BeginsWith
    <3>3. Len(active') = Len(active) + 1
      BY <3>2 DEF Begun
    <3>4. Len(available) = 0 /\ 1 .. 0 = {}
      BY <2>1
    <3>5. Len(active') + Len(available') = generated'
      BY <1>1, <1>3, <3>1, <3>3, <3>4 DEF Accounted
    <3>6. ASSUME NEW k \in 1 .. generated'
          PROVE  (\E i \in 1 .. Len(active) : active[i].query = k) \/ k = generated + 1
      <4>1. k \in 1 .. generated \/ k = generated + 1
        BY <1>3, <3>1
      <4> QED
        BY <1>1, <3>4, <4>1 DEF Accounted
    <3>7. /\ generated + 1 \in 1 .. generated' /\ generated \in 0 .. generated'
          /\ generated' \in Nat /\ generated + 1 \in Nat
      BY <1>3, <3>1
    <3>8. available' \in Seq(Nat) /\ \A i \in 1 .. Len(available') : available'[i] \in 1 .. generated
      BY <1>1, <3>1 DEF Typed
    <3>9. Gets(generated + 1)
      BY <3>2, <3>5, <3>6, <3>7, <3>8
    <3> HIDE DEF Gets
    <3> QED
      BY <3>7, <3>9
  <2>2. CASE available # << >>
    <3> DEFINE p == Last(available)
    <3>1. /\ generated' = generated /\ available' = Front(available)
          /\ active' = Append(active, [frame |-> frame + 1, query |-> p,
                                       begin |-> time, end |-> time])
      BY <1>2, <2>2 DEF BeginQuery
    <3>2. /\ Len(available) \in Nat \ {0} /\ p = available[Len(available)]
          /\ available' \in Seq(Nat) /\ Len(available') = Len(available) - 1
          /\ \A i \in 1 .. Len(available) - 1 :
                i \in 1 .. Len(available) /\ available'[i] = available[i]
      BY <1>1, <2>2, <3>1, PoolGives DEF Typed
    <3> HIDE DEF p
    <3>3. p \in 1 .. generated /\ p \in Nat
      <4>1. Len(available) \in 1 .. Len(available)
        BY <3>2
      <4> QED
        BY <1>1, <1>3, <3>2, <4>1 DEF Typed
    <3>4. Begun(p)
      BY <1>1, <3>1, <3>3, BeginsWith
    <3>5. Len(active') = Len(active) + 1
      BY <3>4 DEF Begun
    <3>6. Len(active') + Len(available') = generated'
      <4>1. Len(active) + Len(available) = generated
        BY <1>1 DEF Accounted
      <4>2. Len(available') = Len(available) - 1 /\ generated' = generated
        BY <3>1, <3>2
      <4> QED
        BY <1>3, <3>5, <4>1, <4>2
    <3>7. \A i \in 1 .. Len(available') : available'[i] \in 1 .. generated
      BY <1>1, <3>2 DEF Typed
    <3>8. ASSUME NEW k \in 1 .. generated'
          PROVE  \/ \E i \in 1 .. Len(active) : active[i].query = k
                 \/ \E i \in 1 .. Len(available') : available'[i] = k
                 \/ k = p
      <4>1. CASE \E i \in 1 .. Len(available) : available[i] = k
        <5>1. PICK i \in 1 .. Len(available) : available[i] = k
          BY <4>1
        <5>2. CASE i = Len(available)
          BY <3>2, <5>1, <5>2
        <5>3. CASE i # Len(available)
          <6>1. i \in 1 .. Len(available) - 1
            BY <1>3, <5>3
          <6> QED
            BY <3>2, <5>1, <6>1
        <5> QED
          BY <5>2, <5>3
      <4> QED
        BY <1>1, <3>1, <4>1 DEF Accounted
    <3>9. generated \in 0 .. generated' /\ generated' \in Nat /\ p \in 1 .. generated'
      BY <1>3, <3>1, <3>3
    <3>10. Gets(p)
      BY <3>2, <3>4, <3>6, <3>7, <3>8, <3>9
    <3> HIDE DEF Gets
    <3> QED
      BY <3>3, <3>10
  <2> HIDE DEF Gets
  <2> QED
    BY <2>1, <2>2
<1>5. PICK p \in Nat : Gets(p)
  <2> HIDE DEF Gets
  <2> QED
    BY <1>4
<1> DEFINE n == Len(active) + 1
           q == [frame |-> frame + 1, query |-> p, begin |-> time, end |-> time]
<1>6. /\ active' \in Seq(Query) /\ Len(active') = n /\ active'[n] = q
      /\ \A i \in 1 .. Len(active) : i \in 1 .. Len(active') /\ active'[i] = active[i]
      /\ \A i \in 1 .. Len(active') : i \in 1 .. Len(active) \/ i = n
      /\ n \in 1 .. Len(active')
  BY <1>3, <1>5 DEF Begun
<1>7. q.frame = frame + 1 /\ q.query = p /\ q.begin = time /\ q.end = time
  OBVIOUS
<1> HIDE DEF q, n
<1>8. Typed'
  <2>1. ASSUME NEW i \in 1 .. Len(active')
        PROVE  /\ active'[i].frame \in 1 .. frame' /\ active'[i].query \in 1 .. generated'
               /\ active'[i].begin <= active'[i].end /\ active'[i].end <= time'
    <3>1. CASE i \in 1 .. Len(active)
      <4>1. /\ active[i].frame \in 1 .. frame /\ active[i].query \in 1 .. generated
            /\ active[i].begin <= active[i].end /\ active[i].end <= time
        BY <1>1, <3>1 DEF Typed
      <4>2. active'[i] = active[i]
        BY <1>6, <3>1
      <4>3. /\ \A f \in 1 .. frame : f \in 1 .. frame + 1
            /\ \A k \in 1 .. generated : k \in 1 .. generated'
        BY <1>3, <1>5
      <4> QED
        BY <1>2, <4>1, <4>2, <4>3
    <3>2. CASE i = n
      BY <1>2, <1>3, <1>5, <1>6, <1>7, <3>2
    <3> QED
      BY <1>6, <3>1, <3>2
  <2>2. \A i \in 1 .. Len(available') : available'[i] \in 1 .. generated'
    <3>1. \A k \in 1 .. generated : k \in 1 .. generated'
      BY <1>3, <1>5
    <3> QED
      BY <1>5, <3>1
  <2>3. /\ time' \in 0 .. MaxTime /\ gpuTime' \in 0 .. time' /\ frame' \in 0 .. MaxFrame
    BY <1>1, <1>2, <1>3 DEF Typed
  <2>4. available' \in Seq(Nat) /\ generated' \in Nat
    BY <1>5
  <2> QED
    BY <1>2, <1>6, <2>1, <2>2, <2>3, <2>4 DEF Typed
<1>9. InTime'
  <2>1. ASSUME NEW i \in 1 .. Len(active') PROVE time' - active'[i].begin <= Window
    <3>1. CASE i \in 1 .. Len(active)
      BY <1>1, <1>2, <1>6, <3>1 DEF InTime
    <3>2. CASE i = n
      BY <1>2, <1>3, <1>6, <1>7, <3>2
    <3> QED
      BY <1>6, <3>1, <3>2
  <2>2. time' - gpuTime' <= Window
    BY <1>1, <1>2 DEF InTime
  <2> QED
    BY <2>1, <2>2 DEF InTime
\* No earlier entry is of this frame.
<1>10. ASSUME NEW i \in 1 .. Len(active), NEW f \in 1 .. frame
       PROVE  active'[i].frame # frame + 1 /\ f # frame + 1 /\ active'[n].frame = frame + 1
  <2>1. active[i].frame \in 1 .. frame
    BY <1>1 DEF Typed
  <2>2. active'[i] = active[i] /\ active'[n] = q
    BY <1>6
  <2>3. \A k \in 1 .. frame : k # frame + 1
    BY <1>3
  <2> QED
    BY <1>7, <2>1, <2>2, <2>3
<1>11. \A i \in 1 .. Len(active) : active'[i].frame # frame + 1 /\ active'[i].frame # active'[n].frame
  <2>1. ASSUME NEW i \in 1 .. Len(active) PROVE active[i].frame \in 1 .. frame
    BY <1>1 DEF Typed
  <2> QED
    BY <1>10, <2>1
<1>12. Drawing'
  <2>1. Len(active') # 0
    BY <1>3, <1>6 DEF n
  <2> QED
    BY <1>6, <1>11, <2>1 DEF Drawing
<1>13. OnePerFrame'
  <2>1. ASSUME NEW i \in 1 .. Len(active'), NEW j \in 1 .. Len(active'),
               active'[i].frame = active'[j].frame
        PROVE  active'[i] = active'[j]
    <3>1. CASE i \in 1 .. Len(active) /\ j \in 1 .. Len(active)
      BY <1>1, <1>6, <2>1, <3>1 DEF OnePerFrame
    <3>2. CASE i = n /\ j = n
      BY <3>2
    <3> QED
      BY <1>6, <1>11, <2>1, <3>1, <3>2
  <2> QED
    BY <2>1 DEF OnePerFrame
<1>14. Accounted'
  <2>1. ASSUME NEW k \in 1 .. generated'
        PROVE  \/ \E i \in 1 .. Len(active') : active'[i].query = k
               \/ \E i \in 1 .. Len(available') : available'[i] = k
    <3>1. CASE \E i \in 1 .. Len(active) : active[i].query = k
      BY <1>6, <3>1
    <3>2. CASE k = p
      BY <1>6, <1>7, <3>2
    <3> QED
      BY <1>5, <3>1, <3>2
  <2> QED
    BY <1>5, <2>1 DEF Accounted
<1>15. Reported'
  <2>1. ASSUME NEW f \in 1 .. frame'
        PROVE  \/ \E i \in 1 .. Len(active') : active'[i].frame = f
               \/ \E r \in results' : r.query.frame = f
    <3>1. f \in 1 .. frame \/ f = frame + 1
      BY <1>2, <1>3
    <3>2. CASE f = frame + 1
      BY <1>6, <1>7, <3>2
    <3>3. CASE f \in 1 .. frame
      <4>1. CASE \E i \in 1 .. Len(active) : active[i].frame = f
        BY <1>6, <4>1
      <4> QED
        BY <1>1, <1>2, <3>3, <4>1 DEF Reported
    <3> QED
      BY <3>1, <3>2, <3>3
  <2>2. ASSUME NEW r \in results'
        PROVE  r.query.frame \in 1 .. frame' /\ r.query.frame # frame + 1
    <3>1. r.query.frame \in 1 .. frame
      BY <1>1, <1>2 DEF Reported
    <3> QED
      BY <1>2, <1>3, <3>1
  <2>3. ASSUME NEW r \in results', NEW i \in 1 .. Len(active')
        PROVE  r.query.frame # active'[i].frame
    <3>1. CASE i \in 1 .. Len(active)
      BY <1>1, <1>2, <1>6, <3>1 DEF Reported
    <3>2. CASE i = n
      BY <1>6, <1>7, <2>2, <3>2
    <3> QED
      BY <1>6, <3>1, <3>2
  <2>4. \A r, s \in results' : r.query.frame = s.query.frame => r = s
    BY <1>1, <1>2 DEF Reported
  <2> QED
    BY <2>1, <2>2, <2>3, <2>4 DEF Reported
<1>16. AllPlaced'
  BY <1>1, <1>2 DEF AllPlaced, Placed, Straddles
<1> QED
  BY <1>8, <1>9, <1>12, <1>13, <1>14, <1>15, <1>16 DEF Right

(***************************************************************************)
(* The other steps leave the list's frames and pairs alone.                *)
(***************************************************************************)
\* The list has the same frames and pairs, and the rest is as it was.
SameQueries ==
    /\ active' \in Seq(Query) /\ Len(active') = Len(active)
    /\ \A i \in 1 .. Len(active) :
          /\ active'[i].frame = active[i].frame /\ active'[i].query = active[i].query
          /\ active'[i].begin = active[i].begin
    /\ UNCHANGED <<frame, available, generated, results>>

\* A step that changes no frame and no pair keeps the accounts and the results.
LEMMA SameKeeps ==
    ASSUME Right, SameQueries
    PROVE  Accounted' /\ Reported' /\ AllPlaced'
<1>1. Accounted /\ Reported /\ AllPlaced
  BY DEF Right
<1>2. /\ Len(active') = Len(active)
      /\ \A i \in 1 .. Len(active) :
            active'[i].frame = active[i].frame /\ active'[i].query = active[i].query
      /\ frame' = frame /\ available' = available /\ generated' = generated /\ results' = results
  BY DEF SameQueries
<1>3. Accounted'
  <2>1. ASSUME NEW k \in 1 .. generated'
        PROVE  \/ \E i \in 1 .. Len(active') : active'[i].query = k
               \/ \E i \in 1 .. Len(available') : available'[i] = k
    <3>1. CASE \E i \in 1 .. Len(active) : active[i].query = k
      BY <1>2, <3>1
    <3> QED
      BY <1>1, <1>2, <3>1 DEF Accounted
  <2>2. Len(active') + Len(available') = generated'
    BY <1>1, <1>2 DEF Accounted
  <2> QED
    BY <2>1, <2>2 DEF Accounted
<1>4. Reported'
  <2>1. ASSUME NEW f \in 1 .. frame'
        PROVE  \/ \E i \in 1 .. Len(active') : active'[i].frame = f
               \/ \E r \in results' : r.query.frame = f
    BY <1>1, <1>2 DEF Reported
  <2>2. /\ \A r \in results' : r.query.frame \in 1 .. frame'
        /\ \A r \in results', i \in 1 .. Len(active') : r.query.frame # active'[i].frame
        /\ \A r, s \in results' : r.query.frame = s.query.frame => r = s
    BY <1>1, <1>2 DEF Reported
  <2> QED
    BY <2>1, <2>2 DEF Reported
<1>5. AllPlaced'
  BY <1>1, <1>2 DEF AllPlaced, Placed, Straddles
<1> QED
  BY <1>3, <1>4, <1>5

\* EndQuery: the second timestamp goes to the frame's own query, the last in the list.
LEMMA EndKeeps ==
    ASSUME Right, EndQuery
    PROVE  Right'
<1>1. Typed /\ InTime /\ Drawing /\ OnePerFrame
  BY DEF Right
<1>2. /\ phase = "draw" /\ phase' = "ended"
      /\ active' = [active EXCEPT ![Len(active)].end = time]
      /\ UNCHANGED <<time, frame, available, generated, gpuTime, results>>
  BY DEF EndQuery
<1> DEFINE n == Len(active)
           q == [active[n] EXCEPT !.end = time]
<1>3. /\ time \in Nat /\ active \in Seq(Query) /\ n \in 1 .. Len(active)
      /\ active[n] \in Query /\ active[n].begin <= time
  <2>1. n \in Nat /\ n # 0 /\ active \in Seq(Query) /\ time \in Nat
    BY <1>1, <1>2, BoundsAssumption, LenProperties DEF Typed, Drawing
  <2>2. n \in 1 .. Len(active)
    BY <2>1
  <2>3. active[n] \in Query
    BY <2>1, <2>2, ElementOfSeq
  <2>4. active[n].begin <= active[n].end /\ active[n].end <= time
    BY <1>1, <2>2 DEF Typed
  <2>5. active[n].begin \in Nat /\ active[n].end \in Nat
    BY <2>3 DEF Query
  <2> QED
    BY <2>1, <2>2, <2>3, <2>4, <2>5
<1>4. /\ q \in Query /\ q.end = time
      /\ q.frame = active[n].frame /\ q.query = active[n].query /\ q.begin = active[n].begin
  BY <1>3 DEF Query
<1>5. active' = [active EXCEPT ![n] = q]
  BY <1>2
<1> HIDE DEF n, q
<1>6. /\ active' \in Seq(Query) /\ Len(active') = Len(active)
      /\ \A i \in 1 .. Len(active) : active'[i] = IF i = n THEN q ELSE active[i]
  BY <1>3, <1>4, <1>5, ExceptSeq
<1>7. \A i \in 1 .. Len(active) :
         /\ active'[i].frame = active[i].frame /\ active'[i].query = active[i].query
         /\ active'[i].begin = active[i].begin
         /\ active'[i].end = IF i = n THEN time ELSE active[i].end
  BY <1>3, <1>4, <1>6
<1>8. Typed'
  <2>1. ASSUME NEW i \in 1 .. Len(active')
        PROVE  /\ active'[i].frame \in 1 .. frame' /\ active'[i].query \in 1 .. generated'
               /\ active'[i].begin <= active'[i].end /\ active'[i].end <= time'
    <3>1. /\ active[i].frame \in 1 .. frame /\ active[i].query \in 1 .. generated
          /\ active[i].begin <= active[i].end /\ active[i].end <= time
      BY <1>1, <1>6 DEF Typed
    <3>2. CASE i = n
      BY <1>2, <1>3, <1>6, <1>7, <3>1, <3>2
    <3>3. CASE i # n
      BY <1>2, <1>6, <1>7, <3>1, <3>3
    <3> QED
      BY <3>2, <3>3
  <2>2. /\ time' \in 0 .. MaxTime /\ gpuTime' \in 0 .. time' /\ frame' \in 0 .. MaxFrame
        /\ generated' \in Nat /\ available' \in Seq(Nat)
        /\ \A i \in 1 .. Len(available') : available'[i] \in 1 .. generated'
    BY <1>1, <1>2 DEF Typed
  <2> QED
    BY <1>2, <1>6, <2>1, <2>2 DEF Typed
<1>9. InTime'
  <2>1. ASSUME NEW i \in 1 .. Len(active') PROVE time' - active'[i].begin <= Window
    BY <1>1, <1>2, <1>6, <1>7 DEF InTime
  <2> QED
    BY <1>1, <1>2, <2>1 DEF InTime
<1>10. OnePerFrame'
  <2>1. ASSUME NEW i \in 1 .. Len(active'), NEW j \in 1 .. Len(active'),
               active'[i].frame = active'[j].frame
        PROVE  active'[i] = active'[j]
    <3>1. /\ i \in 1 .. Len(active) /\ j \in 1 .. Len(active)
          /\ active[i].frame = active[j].frame
      BY <1>6, <1>7, <2>1
    <3>2. i = n <=> j = n
      BY <1>1, <1>2, <3>1 DEF Drawing, n
    <3>3. active[i] = active[j]
      BY <1>1, <3>1 DEF OnePerFrame
    <3> QED
      BY <1>6, <3>1, <3>2, <3>3
  <2> QED
    BY <2>1 DEF OnePerFrame
<1>11. SameQueries
  BY <1>2, <1>6, <1>7 DEF SameQueries
<1> QED
  BY <1>2, <1>8, <1>9, <1>10, <1>11, SameKeeps DEF Right, Drawing

\* FrameCompleted: the system time is no older than before.
LEMMA CompletedKeeps ==
    ASSUME Right, FrameCompleted
    PROVE  Right'
<1>1. Typed /\ InTime /\ OnePerFrame
  BY DEF Right
<1>2. /\ phase' = "check" /\ gpuTime' = time
      /\ UNCHANGED <<time, frame, active, available, generated, results>>
  BY DEF FrameCompleted
<1>3. time \in Nat /\ Window \in Nat
  BY <1>1, BoundsAssumption DEF Typed
<1>4. SameQueries
  BY <1>1, <1>2 DEF SameQueries, Typed
<1>5. Typed'
  BY <1>1, <1>2, <1>3 DEF Typed
<1>6. InTime'
  BY <1>1, <1>2, <1>3 DEF InTime
<1> QED
  BY <1>1, <1>2, <1>4, <1>5, <1>6, SameKeeps DEF Right, Drawing, OnePerFrame

\* Tick: time goes on within the window.
LEMMA TickKeeps ==
    ASSUME Right, Tick
    PROVE  Right'
<1>1. Typed /\ InTime /\ Drawing /\ OnePerFrame
  BY DEF Right
<1>2. /\ time < MaxTime /\ time' = time + 1 /\ time + 1 - gpuTime <= Window
      /\ \A i \in 1 .. Len(active) : time + 1 - active[i].begin <= Window
      /\ UNCHANGED <<phase, frame, active, available, generated, gpuTime, results>>
  BY DEF Tick
<1>3. time \in Nat /\ MaxTime \in Nat /\ gpuTime \in 0 .. time
  BY <1>1, BoundsAssumption DEF Typed
<1>4. SameQueries
  BY <1>1, <1>2 DEF SameQueries, Typed
<1>5. Typed'
  <2>1. ASSUME NEW i \in 1 .. Len(active') PROVE active'[i].end <= time'
    <3>1. active[i] \in Query /\ active[i].end <= time
      BY <1>1, <1>2, ElementOfSeq DEF Typed
    <3>2. active[i].end \in Nat
      BY <3>1 DEF Query
    <3> QED
      BY <1>2, <1>3, <3>1, <3>2
  <2>2. time' \in 0 .. MaxTime /\ gpuTime' \in 0 .. time'
    BY <1>2, <1>3
  <2> QED
    BY <1>1, <1>2, <2>1, <2>2 DEF Typed
<1>6. InTime'
  <2>1. time' = time + 1 /\ gpuTime' = gpuTime /\ active' = active
    BY <1>2
  <2>2. time' - gpuTime' <= Window
    BY <1>2, <1>3, <2>1
  <2>3. ASSUME NEW i \in 1 .. Len(active') PROVE time' - active'[i].begin <= Window
    <3>1. i \in 1 .. Len(active) /\ active'[i] = active[i]
      BY <2>1
    <3>2. time + 1 - active[i].begin <= Window
      BY <1>2, <3>1
    <3>3. active[i] \in Query
      BY <1>1, <3>1, ElementOfSeq DEF Typed
    <3>4. active[i].begin \in Nat
      BY <3>3 DEF Query
    <3> QED
      BY <1>3, <2>1, <3>1, <3>2, <3>4
  <2> QED
    BY <2>2, <2>3 DEF InTime
<1> QED
  BY <1>1, <1>2, <1>4, <1>5, <1>6, SameKeeps DEF Right, Drawing, OnePerFrame

\* The invariant holds of every behaviour of draw, checkQuery and frameCompleted.
LEMMA AlwaysRight == Spec => []Right
<1>1. Init => Right
  BY StartsRight
<1>2. Right /\ [Next]_vars => Right'
  <2> SUFFICES ASSUME Right, [Next]_vars PROVE Right'
    OBVIOUS
  <2>1. CASE Check
    BY <2>1, CheckKeeps
  <2>2. CASE BeginQuery
    BY <2>2, BeginKeeps
  <2>3. CASE EndQuery
    BY <2>3, EndKeeps
  <2>4. CASE FrameCompleted
    BY <2>4, CompletedKeeps
  <2>5. CASE Tick
    BY <2>5, TickKeeps
  <2>6. CASE UNCHANGED vars
    BY <2>6 DEF vars, Right, Typed, InTime, Drawing, OnePerFrame, Accounted, Reported, AllPlaced,
                Placed, Straddles
  <2> QED
    BY <2>1, <2>2, <2>3, <2>4, <2>5, <2>6 DEF Next
<1> QED
  BY <1>1, <1>2, PTL DEF Spec
-----------------------------------------------------------------------------
\* The set of pairs in the pool, place by place.
LEMMA PoolInUse ==
    ASSUME Typed
    PROVE  \A k : k \in ToSet(available) <=> \E i \in 1 .. Len(available) : available[i] = k
<1>1. DOMAIN available = 1 .. Len(available)
  BY LenProperties DEF Typed
<1> QED
  BY <1>1 DEF ToSet

\* Frames, pairs and times of ARBQuerySupport's list are those there are.
THEOREM TypeCorrect == Spec => []TypeOK
<1>1. Right => TypeOK
  BY PoolInUse DEF Right, Typed, TypeOK
<1> QED
  BY <1>1, AlwaysRight, PTL

\* No pair of query objects is lost or given out twice: each is in _availableQueryObjects
\* or in _queryFrameList, and there are as many entries in the two as pairs.
THEOREM PairsComeBack == Spec => []PairsReused
<1>1. Right => PairsReused
  <2> SUFFICES ASSUME Right PROVE PairsReused
    OBVIOUS
  <2>1. Typed /\ Accounted
    BY DEF Right
  <2>2. ASSUME NEW k \in 1 .. generated PROVE k \in Pairs(active) \union ToSet(available)
    BY <2>1, PoolInUse DEF Accounted, Pairs
  <2>3. ASSUME NEW k \in Pairs(active) \union ToSet(available) PROVE k \in 1 .. generated
    BY <2>1, PoolInUse DEF Typed, Pairs
  <2> QED
    BY <2>1, <2>2, <2>3 DEF Accounted, PairsReused
<1> QED
  BY <1>1, AlwaysRight, PTL

\* checkQuery reports every frame once: a frame drawn waits in the list or has its one
\* entry in the statistics.
THEOREM FramesAreReported == Spec => []ReportedOnce
<1>1. Right => ReportedOnce
  <2> SUFFICES ASSUME Right PROVE ReportedOnce
    OBVIOUS
  <2> DEFINE waiting == Frames(active)
             reported == {r.query.frame : r \in results}
  <2>1. Typed /\ Reported
    BY DEF Right
  <2>2. waiting \intersect reported = {}
    BY <2>1 DEF Reported, Frames
  <2>3. ASSUME NEW f \in 1 .. frame PROVE f \in waiting \union reported
    BY <2>1 DEF Reported, Frames
  <2>4. ASSUME NEW f \in waiting \union reported PROVE f \in 1 .. frame
    BY <2>1 DEF Reported, Typed, Frames
  <2>5. \A r, s \in results : r.query.frame = s.query.frame => r = s
    BY <2>1 DEF Reported
  <2> HIDE DEF waiting, reported
  <2>6. waiting \union reported = 1 .. frame
    BY <2>3, <2>4
  <2> QED
    BY <2>2, <2>5, <2>6 DEF ReportedOnce, waiting, reported
<1> QED
  BY <1>1, AlwaysRight, PTL

\* The GPU time checkQuery reports of a frame is right wherever the counter wrapped, for
\* a counter of any width.
THEOREM TimesAreRight == Spec => []TakenRight
<1>1. Right => TakenRight
  BY DEF Right, AllPlaced, Placed, TakenRight
<1> QED
  BY <1>1, AlwaysRight, PTL

\* checkQuery places a frame right in system time, but for the one case that is left out.
THEOREM FramesArePlaced == Spec => []PlacedRight
<1>1. Right => PlacedRight
  BY DEF Right, AllPlaced, Placed, PlacedRight
<1> QED
  BY <1>1, AlwaysRight, PTL
=============================================================================
