-------------------------- MODULE OperatorsProofs --------------------------
(***************************************************************************)
(* What the Operators compute, as a part of MCWork, for every shape with   *)
(* dimensions above 0, every content and every GEMM size.  The loops come  *)
(* first, each as the value of a recursive function found by induction on  *)
(* the elements passed; then the addresses that strides give; then the     *)
(* invariant.                                                              *)
(***************************************************************************)
EXTENDS WorkProofs

-----------------------------------------------------------------------------
(* Loops                                                                   *)

\* A loop whose body keeps to U, and the states it goes through.
Closed(F, U, first, n) == \A k \in first .. (n - 1), u \in U : F[k][u] \in U

Passes(g, F, U, first, n, base) ==
    /\ g \in [first .. n -> U] /\ g[first] = base
    /\ \A k \in (first + 1) .. n : g[k] = F[k - 1][g[k - 1]]

\* A loop whose body keeps to U goes through a sequence of states.
LEMMA ForExists ==
    ASSUME NEW first \in Nat, NEW n \in Nat, first <= n, NEW U, NEW F, NEW base \in U,
           Closed(F, U, first, n)
    PROVE  \E g : Passes(g, F, U, first, n, base)
<1>0. \A k \in first .. (n - 1), u \in U : F[k][u] \in U
  BY DEF Closed
<1> DEFINE Runs(g, m) == /\ g \in [first .. m -> U] /\ g[first] = base
                         /\ \A k \in (first + 1) .. m : g[k] = F[k - 1][g[k - 1]]
           S == {d \in Nat : first + d <= n => \E g : Runs(g, first + d)}
<1>1. 0 \in S
  <2>1. Runs([k \in first .. first |-> base], first)
    OBVIOUS
  <2>2. first + 0 = first
    OBVIOUS
  <2> HIDE DEF Runs
  <2>3. QED
    BY <2>1, <2>2
<1>2. ASSUME NEW d \in Nat, d \in S PROVE d + 1 \in S
  <2>1. SUFFICES ASSUME first + (d + 1) <= n PROVE \E h : Runs(h, first + (d + 1))
    BY DEF S
  <2>2. PICK m : m = first + d
    OBVIOUS
  <2>3. m \in Nat /\ m + 1 = first + (d + 1) /\ m < n /\ first <= m /\ m \in first .. (n - 1)
    BY <2>1, <2>2
  <2>4. PICK g : Runs(g, m)
    <3> HIDE DEF Runs
    <3>1. QED
      BY <1>2, <2>2, <2>3
  <2> DEFINE h == [k \in first .. (m + 1) |-> IF k = m + 1 THEN F[m][g[m]] ELSE g[k]]
  <2>5. g[m] \in U /\ F[m][g[m]] \in U
    BY <1>0, <2>3, <2>4
  <2>6. h \in [first .. (m + 1) -> U]
    BY <2>3, <2>4, <2>5
  <2>7. h[first] = base
    BY <2>3, <2>4
  <2>8. ASSUME NEW k \in (first + 1) .. (m + 1) PROVE h[k] = F[k - 1][h[k - 1]]
    <3>1. CASE k = m + 1
      BY <2>3, <3>1
    <3>2. CASE k # m + 1
      BY <2>3, <2>4, <3>2
    <3>3. QED
      BY <3>1, <3>2
  <2>9. Runs(h, m + 1)
    BY <2>6, <2>7, <2>8
  <2> HIDE DEF Runs, h
  <2>10. QED
    BY <2>3, <2>9
<1> HIDE DEF Runs
<1>3. \A d \in Nat : d \in S
  <2> HIDE DEF S
  <2>1. QED
    BY <1>1, <1>2, NatInduct
<1>4. \E g : Runs(g, n)
  <2>1. n - first \in Nat /\ first + (n - first) = n
    OBVIOUS
  <2>2. n - first \in S
    BY <1>3, <2>1
  <2>3. QED
    BY <2>1, <2>2
<1>5. QED
  BY <1>4 DEF Runs, Passes

\* out[first + i] = v[i].
StoreRun(g, first, n, v, out) ==
    g = [k \in 0 .. n |-> IF k = 0 THEN out ELSE [g[k - 1] EXCEPT ![first + (k - 1)] = v[k - 1]]]

\* The loops one by one: the states each goes through.
LEMMA StoreRuns ==
    ASSUME NEW first \in Nat, NEW n \in Nat, NEW v, NEW D, NEW out, out = [i \in D |-> out[i]]
    PROVE  \E g : StoreRun(g, first, n, v, out) /\ Store(first, n, v, out) = g[n]
<1> DEFINE W == {out[i] : i \in D} \cup {v[i] : i \in 0 .. (n - 1)}
           U == [D -> W]
           F == [k \in 0 .. (n - 1) |-> [u \in U |-> [u EXCEPT ![first + k] = v[k]]]]
<1>1. out \in U
  OBVIOUS
<1>2. ASSUME NEW k \in 0 .. (n - 1), NEW u \in U PROVE F[k][u] = [u EXCEPT ![first + k] = v[k]] /\ F[k][u] \in U
  <2>1. F[k][u] = [u EXCEPT ![first + k] = v[k]]
    BY <1>2
  <2>2. v[k] \in W
    BY <1>2
  <2> HIDE DEF W, F
  <2>3. [u EXCEPT ![first + k] = v[k]] \in U
    BY <1>2, <2>2
  <2>4. QED
    BY <2>1, <2>3
<1> HIDE DEF U, F
<1>3. PICK g : Passes(g, F, U, 0, n, out)
  <2>1. Closed(F, U, 0, n)
    BY <1>2 DEF Closed
  <2>2. 0 \in Nat /\ n \in Nat /\ 0 <= n
    OBVIOUS
  <2>3. QED
    BY <1>1, <2>1, <2>2, ForExists, Zenon
<1>4. ASSUME NEW k \in 0 .. n PROVE g[k] = IF k = 0 THEN out ELSE [g[k - 1] EXCEPT ![first + (k - 1)] = v[k - 1]]
  <2>1. CASE k = 0
    BY <1>3, <2>1 DEF Passes
  <2>2. CASE k # 0
    <3>1. k \in (0 + 1) .. n /\ k - 1 \in 0 .. (n - 1) /\ k - 1 \in 0 .. n
      BY <2>2
    <3>2. g[k - 1] \in U
      BY <1>3, <3>1 DEF Passes
    <3>3. QED
      BY <1>2, <1>3, <2>2, <3>1, <3>2 DEF Passes
  <2>3. QED
    BY <2>1, <2>2
<1>5. StoreRun(g, first, n, v, out)
  <2>1. DOMAIN g = 0 .. n
    BY <1>3 DEF Passes
  <2>2. g = [k \in DOMAIN g |-> g[k]]
    BY <1>3 DEF Passes
  <2>3. QED
    BY <1>4, <2>1, <2>2 DEF StoreRun
<1>6. Store(first, n, v, out) = (CHOOSE h : StoreRun(h, first, n, v, out))[n]
  BY DEF Store, For, StoreRun
<1>7. QED
  BY <1>5, <1>6

\* sum_f32
SumRun(g, n, d) ==
    g = [k \in 0 .. n |-> IF k = 0 THEN 0 ELSE g[k - 1] + d[k - 1]]

LEMMA SumRuns ==
    ASSUME NEW n \in Nat, NEW d, \A i \in 0 .. (n - 1) : d[i] \in Int
    PROVE  \E g : SumRun(g, n, d) /\ SumF32(d, n) = g[n]
<1> DEFINE U == Int
           F == [k \in 0 .. (n - 1) |-> [u \in U |-> u + d[k]]]
<1>1. 0 \in U /\ 0 \in Nat /\ 0 <= n
  OBVIOUS
<1>2. ASSUME NEW k \in 0 .. (n - 1), NEW u \in U PROVE F[k][u] = u + d[k] /\ F[k][u] \in U
  BY <1>2
<1> HIDE DEF U, F
<1>3. PICK g : Passes(g, F, U, 0, n, 0)
  <2>1. Closed(F, U, 0, n)
    BY <1>2 DEF Closed
  <2>2. 0 \in Nat /\ n \in Nat /\ 0 <= n
    OBVIOUS
  <2>3. QED
    BY <1>1, <2>1, <2>2, ForExists, Zenon
<1>4. ASSUME NEW k \in 0 .. n PROVE g[k] = IF k = 0 THEN 0 ELSE g[k - 1] + d[k - 1]
  <2>1. CASE k = 0
    BY <1>3, <2>1 DEF Passes
  <2>2. CASE k # 0
    <3>1. k \in (0 + 1) .. n /\ k - 1 \in 0 .. (n - 1) /\ k - 1 \in 0 .. n
      BY <2>2
    <3>2. g[k - 1] \in U
      BY <1>3, <3>1 DEF Passes
    <3>3. QED
      BY <1>2, <1>3, <2>2, <3>1, <3>2 DEF Passes
  <2>3. QED
    BY <2>1, <2>2
<1>5. SumRun(g, n, d)
  <2>1. DOMAIN g = 0 .. n
    BY <1>3 DEF Passes
  <2>2. g = [k \in DOMAIN g |-> g[k]]
    BY <1>3 DEF Passes
  <2>3. QED
    BY <1>4, <2>1, <2>2 DEF SumRun
<1>6. SumF32(d, n) = (CHOOSE h : SumRun(h, n, d))[n]
  BY DEF SumF32, For, SumRun
<1>7. QED
  BY <1>5, <1>6

\* prod
ProdRun(g, n, d) ==
    g = [k \in 0 .. n |-> IF k = 0 THEN 1 ELSE g[k - 1] * d[k - 1]]

LEMMA ProdRuns ==
    ASSUME NEW n \in Nat, NEW d, \A i \in 0 .. (n - 1) : d[i] \in Int
    PROVE  \E g : ProdRun(g, n, d) /\ ProdF32(d, n) = g[n]
<1> DEFINE U == Int
           F == [k \in 0 .. (n - 1) |-> [u \in U |-> u * d[k]]]
<1>1. 1 \in U /\ 0 \in Nat /\ 0 <= n
  OBVIOUS
<1>2. ASSUME NEW k \in 0 .. (n - 1), NEW u \in U PROVE F[k][u] = u * d[k] /\ F[k][u] \in U
  BY <1>2
<1> HIDE DEF U, F
<1>3. PICK g : Passes(g, F, U, 0, n, 1)
  <2>1. Closed(F, U, 0, n)
    BY <1>2 DEF Closed
  <2>2. 0 \in Nat /\ n \in Nat /\ 0 <= n
    OBVIOUS
  <2>3. QED
    BY <1>1, <2>1, <2>2, ForExists, Zenon
<1>4. ASSUME NEW k \in 0 .. n PROVE g[k] = IF k = 0 THEN 1 ELSE g[k - 1] * d[k - 1]
  <2>1. CASE k = 0
    BY <1>3, <2>1 DEF Passes
  <2>2. CASE k # 0
    <3>1. k \in (0 + 1) .. n /\ k - 1 \in 0 .. (n - 1) /\ k - 1 \in 0 .. n
      BY <2>2
    <3>2. g[k - 1] \in U
      BY <1>3, <3>1 DEF Passes
    <3>3. QED
      BY <1>2, <1>3, <2>2, <3>1, <3>2 DEF Passes
  <2>3. QED
    BY <2>1, <2>2
<1>5. ProdRun(g, n, d)
  <2>1. DOMAIN g = 0 .. n
    BY <1>3 DEF Passes
  <2>2. g = [k \in DOMAIN g |-> g[k]]
    BY <1>3 DEF Passes
  <2>3. QED
    BY <1>4, <2>1, <2>2 DEF ProdRun
<1>6. ProdF32(d, n) = (CHOOSE h : ProdRun(h, n, d))[n]
  BY DEF ProdF32, For, ProdRun
<1>7. QED
  BY <1>5, <1>6

\* max_f32 and min_f32
MaxRun(g, n, d) ==
    g = [k \in 1 .. n |-> IF k = 1 THEN d[0] ELSE IF g[k - 1] < d[k - 1] THEN d[k - 1] ELSE g[k - 1]]

LEMMA MaxRuns ==
    ASSUME NEW n \in Nat \ {0}, NEW d, \A i \in 0 .. (n - 1) : d[i] \in Int
    PROVE  \E g : MaxRun(g, n, d) /\ MaxF32(d, n) = g[n]
<1> DEFINE U == Int
           F == [k \in 1 .. (n - 1) |-> [u \in U |-> IF u < d[k] THEN d[k] ELSE u]]
<1>1. d[0] \in U /\ 1 \in Nat /\ 1 <= n
  OBVIOUS
<1>2. ASSUME NEW k \in 1 .. (n - 1), NEW u \in U PROVE F[k][u] = (IF u < d[k] THEN d[k] ELSE u) /\ F[k][u] \in U
  BY <1>2
<1> HIDE DEF U, F
<1>3. PICK g : Passes(g, F, U, 1, n, d[0])
  <2>1. Closed(F, U, 1, n)
    BY <1>2 DEF Closed
  <2>2. 1 \in Nat /\ n \in Nat /\ 1 <= n
    OBVIOUS
  <2>3. QED
    BY <1>1, <2>1, <2>2, ForExists, Zenon
<1>4. ASSUME NEW k \in 1 .. n PROVE g[k] = IF k = 1 THEN d[0] ELSE IF g[k - 1] < d[k - 1] THEN d[k - 1] ELSE g[k - 1]
  <2>1. CASE k = 1
    BY <1>3, <2>1 DEF Passes
  <2>2. CASE k # 1
    <3>1. k \in (1 + 1) .. n /\ k - 1 \in 1 .. (n - 1) /\ k - 1 \in 1 .. n
      BY <2>2
    <3>2. g[k - 1] \in U
      BY <1>3, <3>1 DEF Passes
    <3>3. QED
      BY <1>2, <1>3, <2>2, <3>1, <3>2 DEF Passes
  <2>3. QED
    BY <2>1, <2>2
<1>5. MaxRun(g, n, d)
  <2>1. DOMAIN g = 1 .. n
    BY <1>3 DEF Passes
  <2>2. g = [k \in DOMAIN g |-> g[k]]
    BY <1>3 DEF Passes
  <2>3. QED
    BY <1>4, <2>1, <2>2 DEF MaxRun
<1>6. MaxF32(d, n) = (CHOOSE h : MaxRun(h, n, d))[n]
  BY DEF MaxF32, For, MaxRun
<1>7. QED
  BY <1>5, <1>6

\* min_f32
MinRun(g, n, d) ==
    g = [k \in 1 .. n |-> IF k = 1 THEN d[0] ELSE IF g[k - 1] > d[k - 1] THEN d[k - 1] ELSE g[k - 1]]

LEMMA MinRuns ==
    ASSUME NEW n \in Nat \ {0}, NEW d, \A i \in 0 .. (n - 1) : d[i] \in Int
    PROVE  \E g : MinRun(g, n, d) /\ MinF32(d, n) = g[n]
<1> DEFINE U == Int
           F == [k \in 1 .. (n - 1) |-> [u \in U |-> IF u > d[k] THEN d[k] ELSE u]]
<1>1. d[0] \in U /\ 1 \in Nat /\ 1 <= n
  OBVIOUS
<1>2. ASSUME NEW k \in 1 .. (n - 1), NEW u \in U PROVE F[k][u] = (IF u > d[k] THEN d[k] ELSE u) /\ F[k][u] \in U
  BY <1>2
<1> HIDE DEF U, F
<1>3. PICK g : Passes(g, F, U, 1, n, d[0])
  <2>1. Closed(F, U, 1, n)
    BY <1>2 DEF Closed
  <2>2. 1 \in Nat /\ n \in Nat /\ 1 <= n
    OBVIOUS
  <2>3. QED
    BY <1>1, <2>1, <2>2, ForExists, Zenon
<1>4. ASSUME NEW k \in 1 .. n PROVE g[k] = IF k = 1 THEN d[0] ELSE IF g[k - 1] > d[k - 1] THEN d[k - 1] ELSE g[k - 1]
  <2>1. CASE k = 1
    BY <1>3, <2>1 DEF Passes
  <2>2. CASE k # 1
    <3>1. k \in (1 + 1) .. n /\ k - 1 \in 1 .. (n - 1) /\ k - 1 \in 1 .. n
      BY <2>2
    <3>2. g[k - 1] \in U
      BY <1>3, <3>1 DEF Passes
    <3>3. QED
      BY <1>2, <1>3, <2>2, <3>1, <3>2 DEF Passes
  <2>3. QED
    BY <2>1, <2>2
<1>5. MinRun(g, n, d)
  <2>1. DOMAIN g = 1 .. n
    BY <1>3 DEF Passes
  <2>2. g = [k \in DOMAIN g |-> g[k]]
    BY <1>3 DEF Passes
  <2>3. QED
    BY <1>4, <2>1, <2>2 DEF MinRun
<1>6. MinF32(d, n) = (CHOOSE h : MinRun(h, n, d))[n]
  BY DEF MinF32, For, MinRun
<1>7. QED
  BY <1>5, <1>6

\* argmax
ArgRun(g, n, d) ==
    g = [k \in 1 .. n |-> IF k = 1 THEN 0 ELSE IF d[k - 1] > d[g[k - 1]] THEN k - 1 ELSE g[k - 1]]

LEMMA ArgRuns ==
    ASSUME NEW n \in Nat \ {0}, NEW d
    PROVE  \E g : ArgRun(g, n, d) /\ ArgMax(d, n) = g[n]
<1> DEFINE U == Nat
           F == [k \in 1 .. (n - 1) |-> [u \in U |-> IF d[k] > d[u] THEN k ELSE u]]
<1>1. 0 \in U /\ 1 \in Nat /\ 1 <= n
  OBVIOUS
<1>2. ASSUME NEW k \in 1 .. (n - 1), NEW u \in U PROVE F[k][u] = (IF d[k] > d[u] THEN k ELSE u) /\ F[k][u] \in U
  BY <1>2
<1> HIDE DEF U, F
<1>3. PICK g : Passes(g, F, U, 1, n, 0)
  <2>1. Closed(F, U, 1, n)
    BY <1>2 DEF Closed
  <2>2. 1 \in Nat /\ n \in Nat /\ 1 <= n
    OBVIOUS
  <2>3. QED
    BY <1>1, <2>1, <2>2, ForExists, Zenon
<1>4. ASSUME NEW k \in 1 .. n PROVE g[k] = IF k = 1 THEN 0 ELSE IF d[k - 1] > d[g[k - 1]] THEN k - 1 ELSE g[k - 1]
  <2>1. CASE k = 1
    BY <1>3, <2>1 DEF Passes
  <2>2. CASE k # 1
    <3>1. k \in (1 + 1) .. n /\ k - 1 \in 1 .. (n - 1) /\ k - 1 \in 1 .. n
      BY <2>2
    <3>2. g[k - 1] \in U
      BY <1>3, <3>1 DEF Passes
    <3>3. QED
      BY <1>2, <1>3, <2>2, <3>1, <3>2 DEF Passes
  <2>3. QED
    BY <2>1, <2>2
<1>5. ArgRun(g, n, d)
  <2>1. DOMAIN g = 1 .. n
    BY <1>3 DEF Passes
  <2>2. g = [k \in DOMAIN g |-> g[k]]
    BY <1>3 DEF Passes
  <2>3. QED
    BY <1>4, <2>1, <2>2 DEF ArgRun
<1>6. ArgMax(d, n) = (CHOOSE h : ArgRun(h, n, d))[n]
  BY DEF ArgMax, For, ArgRun
<1>7. QED
  BY <1>5, <1>6

\* A loop that joins one element after another is a fold.
LEMMA PrefixFold ==
    ASSUME NEW m \in Modes, NEW n \in Nat, NEW d, \A i \in 0 .. (n - 1) : d[i] \in Int,
           NEW g, g[0] = Unit(m), \A k \in 1 .. n : g[k] = Join(m, d[k - 1], g[k - 1])
    PROVE  g[n] = Fold(m, d, 0 .. (n - 1))
<1> DEFINE S == {k \in Nat : k <= n => g[k] = Fold(m, d, 0 .. (k - 1))}
<1>1. 0 \in S
  <2>1. 0 .. (0 - 1) = {}
    OBVIOUS
  <2>2. QED
    BY <2>1, FoldEmpty
<1>2. ASSUME NEW k \in Nat, k \in S PROVE k + 1 \in S
  <2>1. SUFFICES ASSUME k + 1 <= n PROVE g[k + 1] = Fold(m, d, 0 .. k)
    <3>1. (k + 1) - 1 = k
      OBVIOUS
    <3>2. QED
      BY <3>1
  <2>2. g[k] = Fold(m, d, 0 .. (k - 1))
    BY <1>2, <2>1
  <2>3. k + 1 \in 1 .. n /\ (k + 1) - 1 = k
    BY <2>1
  <2>4. g[k + 1] = Join(m, d[k], g[k])
    BY <2>3
  <2>5. PICK T : T = 0 .. (k - 1)
    OBVIOUS
  <2>6. 0 .. k = T \cup {k} /\ k \notin T /\ T \cup {k} \subseteq 0 .. (n - 1) /\ IsFiniteSet(T)
    BY <2>1, <2>5, FS_Interval
  <2>7. Fold(m, d, T \cup {k}) = Join(m, d[k], Fold(m, d, T))
    <3>1. \A y \in T \cup {k} : d[y] \in Int
      BY <2>6
    <3>2. k \notin T /\ IsFiniteSet(T)
      BY <2>6
    <3> HIDE DEF S
    <3>3. QED
      BY <3>1, <3>2, FoldMore, Zenon
  <2>8. QED
    BY <2>2, <2>4, <2>5, <2>6, <2>7
<1> HIDE DEF S
<1>3. n \in S
  BY <1>1, <1>2, NatInduct
<1>4. QED
  BY <1>3 DEF S

\* Sums and products are those of all elements.
LEMMA SumF32Is ==
    ASSUME NEW n \in Nat, NEW d, \A i \in 0 .. (n - 1) : d[i] \in Int
    PROVE  SumF32(d, n) = SumOf(d, 0 .. (n - 1)) /\ SumF32(d, n) \in Int
<1>1. PICK g : SumRun(g, n, d) /\ SumF32(d, n) = g[n]
  BY SumRuns
<1>2. PICK m \in Modes : m = "sum"
  BY DEF Modes
<1>3. \A k \in 0 .. n : g[k] = IF k = 0 THEN 0 ELSE g[k - 1] + d[k - 1]
  BY <1>1 DEF SumRun
<1>4. g[0] = 0
  BY <1>3
<1> DEFINE S == {k \in Nat : k <= n => g[k] \in Int}
<1>5. 0 \in S
  BY <1>4
<1>6. ASSUME NEW k \in Nat, k \in S PROVE k + 1 \in S
  BY <1>3, <1>6
<1>7. \A k \in Nat : k \in S
  <2> HIDE DEF S
  <2>1. QED
    BY <1>5, <1>6, NatInduct
<1>8. ASSUME NEW k \in 1 .. n PROVE g[k] = Join(m, d[k - 1], g[k - 1])
  <2>1. k - 1 \in Nat /\ k - 1 <= n /\ k - 1 \in 0 .. (n - 1)
    OBVIOUS
  <2>2. g[k - 1] \in Int /\ d[k - 1] \in Int
    BY <1>7, <2>1
  <2>3. g[k] = g[k - 1] + d[k - 1]
    BY <1>3
  <2>4. QED
    BY <1>2, <2>2, <2>3 DEF Join
<1>9. g[n] = Fold(m, d, 0 .. (n - 1))
  BY <1>2, <1>4, <1>8, PrefixFold DEF Unit
<1>10. g[n] \in Int
  BY <1>7
<1>11. QED
  BY <1>1, <1>2, <1>9, <1>10 DEF Fold

\* ProdF32 is the product of its elements.
LEMMA ProdF32Is ==
    ASSUME NEW n \in Nat, NEW d, \A i \in 0 .. (n - 1) : d[i] \in Int
    PROVE  ProdF32(d, n) = ProductOf(d, 0 .. (n - 1)) /\ ProdF32(d, n) \in Int
<1>1. PICK g : ProdRun(g, n, d) /\ ProdF32(d, n) = g[n]
  BY ProdRuns
<1>2. PICK m \in Modes : m = "prod"
  BY DEF Modes
<1>3. \A k \in 0 .. n : g[k] = IF k = 0 THEN 1 ELSE g[k - 1] * d[k - 1]
  BY <1>1 DEF ProdRun
<1>4. g[0] = 1
  BY <1>3
<1> DEFINE S == {k \in Nat : k <= n => g[k] \in Int}
<1>5. 0 \in S
  BY <1>4
<1>6. ASSUME NEW k \in Nat, k \in S PROVE k + 1 \in S
  <2>1. SUFFICES ASSUME k + 1 <= n PROVE g[k + 1] \in Int
    OBVIOUS
  <2>2. k + 1 \in 0 .. n /\ (k + 1) - 1 = k /\ k + 1 # 0 /\ k \in 0 .. (n - 1)
    BY <2>1
  <2>3. g[k + 1] = g[k] * d[k]
    BY <1>3, <2>2
  <2>4. g[k] \in Int /\ d[k] \in Int
    BY <1>6, <2>1, <2>2
  <2>5. QED
    BY <2>3, <2>4
<1>7. \A k \in Nat : k \in S
  <2> HIDE DEF S
  <2>1. QED
    BY <1>5, <1>6, NatInduct
<1>8. ASSUME NEW k \in 1 .. n PROVE g[k] = Join(m, d[k - 1], g[k - 1])
  <2>1. k - 1 \in Nat /\ k - 1 <= n /\ k - 1 \in 0 .. (n - 1)
    OBVIOUS
  <2>2. g[k - 1] \in Int /\ d[k - 1] \in Int
    BY <1>7, <2>1
  <2>3. g[k] = g[k - 1] * d[k - 1]
    BY <1>3
  <2>4. g[k - 1] * d[k - 1] = d[k - 1] * g[k - 1]
    BY <2>2
  <2>5. QED
    BY <1>2, <2>3, <2>4 DEF Join
<1>9. g[n] = Fold(m, d, 0 .. (n - 1))
  BY <1>2, <1>4, <1>8, PrefixFold DEF Unit
<1>10. g[n] \in Int
  BY <1>7
<1>11. QED
  BY <1>1, <1>2, <1>9, <1>10 DEF Fold

-----------------------------------------------------------------------------
(* Rows and one-hot rows                                                   *)

\* out after the first n elements of v.
Stored(first, n, v, D, out) == [i \in D |-> IF i \in first .. (first + n - 1) THEN v[i - first] ELSE out[i]]

\* Store changes n elements from first on.
LEMMA StoreIs ==
    ASSUME NEW first \in Nat, NEW n \in Nat, NEW v, NEW D, NEW out, out = [i \in D |-> out[i]]
    PROVE  Store(first, n, v, out) = Stored(first, n, v, D, out)
<1>1. PICK g : StoreRun(g, first, n, v, out) /\ Store(first, n, v, out) = g[n]
  BY StoreRuns
<1>2. \A k \in 0 .. n : g[k] = IF k = 0 THEN out ELSE [g[k - 1] EXCEPT ![first + (k - 1)] = v[k - 1]]
  BY <1>1 DEF StoreRun
<1> DEFINE S == {k \in Nat : k <= n => g[k] = Stored(first, k, v, D, out)}
<1>3. 0 \in S
  <2>1. g[0] = out
    <3>1. 0 \in 0 .. n
      OBVIOUS
    <3>2. QED
      BY <1>2, <3>1
  <2>2. \A i : i \notin first .. (first + 0 - 1)
    OBVIOUS
  <2>3. QED
    BY <2>1, <2>2 DEF Stored
<1>4. ASSUME NEW k \in Nat, k \in S PROVE k + 1 \in S
  <2>1. SUFFICES ASSUME k + 1 <= n PROVE g[k + 1] = Stored(first, k + 1, v, D, out)
    OBVIOUS
  <2>2. k + 1 \in 0 .. n /\ k + 1 # 0 /\ (k + 1) - 1 = k
    BY <2>1
  <2>3. PICK a : a = Stored(first, k, v, D, out)
    OBVIOUS
  <2>4. g[k] = a
    BY <1>4, <2>1, <2>3
  <2>5. g[k + 1] = [a EXCEPT ![first + k] = v[k]]
    BY <1>2, <2>2, <2>4
  <2>6. DOMAIN a = D /\ \A i \in D : a[i] = IF i \in first .. (first + k - 1) THEN v[i - first] ELSE out[i]
    BY <2>3 DEF Stored
  <2>7. first + k - first = k
    OBVIOUS
  <2>8. \A i : i \in first .. (first + (k + 1) - 1) <=> i \in first .. (first + k - 1) \/ i = first + k
    OBVIOUS
  <2>9. first + k \notin first .. (first + k - 1)
    OBVIOUS
  <2>10. [a EXCEPT ![first + k] = v[k]] =
           [i \in D |-> IF i = first + k THEN v[k] ELSE a[i]]
    BY <2>6
  <2>11. ASSUME NEW i \in D
         PROVE (IF i = first + k THEN v[k] ELSE a[i]) =
               (IF i \in first .. (first + (k + 1) - 1) THEN v[i - first] ELSE out[i])
    BY <2>6, <2>7, <2>8, <2>9
  <2>12. QED
    BY <2>5, <2>10, <2>11 DEF Stored
<1>5. n \in S
  <2> HIDE DEF S
  <2>1. QED
    BY <1>3, <1>4, NatInduct
<1>6. QED
  BY <1>1, <1>5

\* out after the first k rows of n elements.
RowsStored(k, n, v, D, out) == [i \in D |-> IF i \in 0 .. (k * n - 1) THEN v[i \div n][i % n] ELSE out[i]]

StoreRowsRun(g, rows, n, v, out) ==
    g = [k \in 0 .. rows |-> IF k = 0 THEN out ELSE Store((k - 1) * n, n, v[k - 1], g[k - 1])]

\* One row more.
LEMMA RowNext ==
    ASSUME NEW n \in Nat \ {0}, NEW k \in Nat, NEW v, NEW D, NEW out
    PROVE  Store(k * n, n, v[k], RowsStored(k, n, v, D, out)) = RowsStored(k + 1, n, v, D, out)
<1>1. PICK a, p, z : a = RowsStored(k, n, v, D, out) /\ p = k * n /\ z = (k + 1) * n
  OBVIOUS
<1>2. p \in Nat /\ z = p + n
  BY <1>1
<1>3. DOMAIN a = D /\ a = [i \in D |-> a[i]] /\ \A i \in D : a[i] = IF i \in 0 .. (p - 1) THEN v[i \div n][i % n] ELSE out[i]
  BY <1>1 DEF RowsStored
<1>4. Store(p, n, v[k], a) = Stored(p, n, v[k], D, a)
  BY <1>2, <1>3, StoreIs
<1>5. ASSUME NEW i \in D
      PROVE (IF i \in p .. (p + n - 1) THEN v[k][i - p] ELSE a[i]) =
            (IF i \in 0 .. (z - 1) THEN v[i \div n][i % n] ELSE out[i])
  <2>1. CASE i \in p .. (p + n - 1)
    <3>1. Split(i, n, k, i - p)
      BY <1>1, <1>2, <2>1 DEF Split
    <3>2. i \div n = k /\ i % n = i - p
      BY <3>1, SplitIs
    <3>3. i \in 0 .. (z - 1)
      BY <1>2, <2>1
    <3>4. QED
      BY <2>1, <3>2, <3>3
  <2>2. CASE i \notin p .. (p + n - 1)
    <3>1. i \in 0 .. (z - 1) <=> i \in 0 .. (p - 1)
      BY <1>2, <2>2
    <3>2. QED
      BY <1>3, <2>2, <3>1
  <2>3. QED
    BY <2>1, <2>2
<1>6. Stored(p, n, v[k], D, a) = [i \in D |-> IF i \in 0 .. (z - 1) THEN v[i \div n][i % n] ELSE out[i]]
  BY <1>5 DEF Stored
<1>7. QED
  BY <1>1, <1>4, <1>6 DEF RowsStored

\* StoreRows gives every row its elements.
LEMMA StoreRowsIs ==
    ASSUME NEW rows \in Nat, NEW n \in Nat \ {0}, NEW v, NEW D, NEW out, out = [i \in D |-> out[i]]
    PROVE  StoreRows(rows, n, v, out) = RowsStored(rows, n, v, D, out)
<1> DEFINE g == [k \in 0 .. rows |-> RowsStored(k, n, v, D, out)]
<1>1. ASSUME NEW k \in 0 .. rows
      PROVE  g[k] = IF k = 0 THEN out ELSE Store((k - 1) * n, n, v[k - 1], g[k - 1])
  <2>1. CASE k = 0
    <3>1. 0 * n - 1 = -1 /\ \A i : i \notin 0 .. (-1)
      OBVIOUS
    <3>2. RowsStored(0, n, v, D, out) = out
      BY <3>1 DEF RowsStored
    <3>3. QED
      BY <2>1, <3>2
  <2>2. CASE k # 0
    <3>1. PICK j \in Nat : k = j + 1
      <4>1. k - 1 \in Nat /\ k = (k - 1) + 1
        BY <2>2
      <4>2. QED
        BY <4>1
    <3>2. k - 1 = j /\ j \in 0 .. rows
      BY <3>1
    <3>3. g[k - 1] = RowsStored(j, n, v, D, out) /\ g[k] = RowsStored(j + 1, n, v, D, out)
      BY <3>1, <3>2
    <3>4. Store(j * n, n, v[j], RowsStored(j, n, v, D, out)) = RowsStored(j + 1, n, v, D, out)
      BY RowNext
    <3> HIDE DEF g
    <3>5. QED
      BY <2>2, <3>2, <3>3, <3>4
  <2>3. QED
    BY <2>1, <2>2
<1>2. StoreRowsRun(g, rows, n, v, out)
  <2>1. g = [k \in 0 .. rows |-> g[k]]
    OBVIOUS
  <2> HIDE DEF g
  <2>2. QED
    BY <1>1, <2>1 DEF StoreRowsRun
<1>3. \A h : StoreRowsRun(h, rows, n, v, out) => h[rows] = RowsStored(rows, n, v, D, out)
  <2> SUFFICES ASSUME NEW h, StoreRowsRun(h, rows, n, v, out) PROVE h[rows] = RowsStored(rows, n, v, D, out)
    OBVIOUS
  <2>1. \A k \in 0 .. rows : h[k] = IF k = 0 THEN out ELSE Store((k - 1) * n, n, v[k - 1], h[k - 1])
    BY DEF StoreRowsRun
  <2> DEFINE S == {k \in Nat : k <= rows => h[k] = g[k]}
  <2> HIDE DEF g
  <2>2. 0 \in S
    BY <1>1, <2>1
  <2>3. ASSUME NEW k \in Nat, k \in S PROVE k + 1 \in S
    <3>1. SUFFICES ASSUME k + 1 <= rows PROVE h[k + 1] = g[k + 1]
      OBVIOUS
    <3>2. k + 1 \in 0 .. rows /\ (k + 1) - 1 = k /\ k + 1 # 0
      BY <3>1
    <3>3. h[k] = g[k]
      BY <2>3, <3>1
    <3>4. h[k + 1] = Store(k * n, n, v[k], h[k])
      BY <2>1, <3>2
    <3>5. g[k + 1] = Store(k * n, n, v[k], g[k])
      BY <1>1, <3>2
    <3>6. QED
      BY <3>3, <3>4, <3>5
  <2>4. rows \in S
    <3> HIDE DEF S
    <3>1. QED
      BY <2>2, <2>3, NatInduct
  <2>5. g[rows] = RowsStored(rows, n, v, D, out)
    BY DEF g
  <2>6. QED
    BY <2>4, <2>5
<1>4. StoreRows(rows, n, v, out) = (CHOOSE h : StoreRowsRun(h, rows, n, v, out))[rows]
  BY DEF StoreRows, For, StoreRowsRun
<1> HIDE DEF g
<1>5. QED
  BY <1>2, <1>3, <1>4

\* MaxF32 is the largest element.
LEMMA MaxIs ==
    ASSUME NEW n \in Nat \ {0}, NEW d, \A i \in 0 .. (n - 1) : d[i] \in Int
    PROVE  /\ MaxF32(d, n) \in Int
           /\ \E i \in 0 .. (n - 1) : MaxF32(d, n) = d[i]
           /\ \A i \in 0 .. (n - 1) : d[i] <= MaxF32(d, n)
<1>1. PICK g : MaxRun(g, n, d) /\ MaxF32(d, n) = g[n]
  BY MaxRuns
<1>2. \A k \in 1 .. n : g[k] = IF k = 1 THEN d[0] ELSE IF g[k - 1] < d[k - 1] THEN d[k - 1] ELSE g[k - 1]
  BY <1>1 DEF MaxRun
<1> DEFINE Good(k, x) == /\ x \in Int /\ \E i \in 0 .. (k - 1) : x = d[i]
                         /\ \A i \in 0 .. (k - 1) : d[i] <= x
           S == {k \in Nat : k + 1 <= n => Good(k + 1, g[k + 1])}
<1>3. 0 \in S
  <2>1. 1 \in 1 .. n /\ 0 \in 0 .. (n - 1)
    OBVIOUS
  <2>2. g[1] = d[0] /\ d[0] \in Int
    BY <1>2, <2>1
  <2>3. Good(1, d[0])
    BY <2>2
  <2> HIDE DEF Good
  <2>4. QED
    BY <2>2, <2>3
<1>4. ASSUME NEW k \in Nat, k \in S PROVE k + 1 \in S
  <2>1. SUFFICES ASSUME (k + 1) + 1 <= n PROVE Good((k + 1) + 1, g[(k + 1) + 1])
    OBVIOUS
  <2>2. PICK m, x, y : m = k + 1 /\ x = g[m] /\ y = d[m]
    OBVIOUS
  <2>3. m \in Nat /\ m + 1 = (k + 1) + 1 /\ m + 1 \in 1 .. n /\ (m + 1) - 1 = m /\ m + 1 # 1 /\ m \in 0 .. (n - 1)
    BY <2>1, <2>2
  <2>4. Good(m, x)
    BY <1>4, <2>1, <2>2
  <2>5. y \in Int
    BY <2>2, <2>3
  <2>6. g[m + 1] = IF x < y THEN y ELSE x
    BY <1>2, <2>2, <2>3
  <2>7. PICK z : z = g[m + 1]
    OBVIOUS
  <2>8. z \in Int /\ x <= z /\ y <= z /\ (z = x \/ z = y)
    BY <2>4, <2>5, <2>6, <2>7
  <2>9. ASSUME NEW i \in 0 .. m PROVE d[i] <= z
    <3>1. CASE i = m
      BY <2>2, <2>8, <3>1
    <3>2. CASE i # m
      <4>1. i \in 0 .. (m - 1) /\ i \in 0 .. (n - 1)
        BY <2>3, <3>2
      <4>2. d[i] \in Int /\ d[i] <= x
        BY <2>4, <4>1
      <4>3. QED
        BY <2>4, <2>8, <4>2
    <3>3. QED
      BY <3>1, <3>2
  <2>10. \E i \in 0 .. m : z = d[i]
    <3>1. CASE z = y
      BY <2>2, <2>3, <3>1
    <3>2. CASE z = x
      BY <2>3, <2>4, <3>2
    <3>3. QED
      BY <2>8, <3>1, <3>2
  <2>11. Good(m + 1, z)
    BY <2>3, <2>8, <2>9, <2>10
  <2> HIDE DEF Good
  <2>12. QED
    BY <2>3, <2>7, <2>11
<1>5. n - 1 \in S
  <2> HIDE DEF S
  <2>1. QED
    BY <1>3, <1>4, NatInduct
<1>6. Good(n, g[n])
  <2>1. (n - 1) + 1 = n /\ (n - 1) + 1 <= n
    OBVIOUS
  <2> HIDE DEF Good
  <2>2. QED
    BY <1>5, <2>1
<1>7. QED
  BY <1>1, <1>6

\* MinF32 is the smallest element.
LEMMA MinIs ==
    ASSUME NEW n \in Nat \ {0}, NEW d, \A i \in 0 .. (n - 1) : d[i] \in Int
    PROVE  /\ MinF32(d, n) \in Int
           /\ \E i \in 0 .. (n - 1) : MinF32(d, n) = d[i]
           /\ \A i \in 0 .. (n - 1) : d[i] >= MinF32(d, n)
<1>1. PICK g : MinRun(g, n, d) /\ MinF32(d, n) = g[n]
  BY MinRuns
<1>2. \A k \in 1 .. n : g[k] = IF k = 1 THEN d[0] ELSE IF g[k - 1] > d[k - 1] THEN d[k - 1] ELSE g[k - 1]
  BY <1>1 DEF MinRun
<1> DEFINE Good(k, x) == /\ x \in Int /\ \E i \in 0 .. (k - 1) : x = d[i]
                         /\ \A i \in 0 .. (k - 1) : d[i] >= x
           S == {k \in Nat : k + 1 <= n => Good(k + 1, g[k + 1])}
<1>3. 0 \in S
  <2>1. 1 \in 1 .. n /\ 0 \in 0 .. (n - 1)
    OBVIOUS
  <2>2. g[1] = d[0] /\ d[0] \in Int
    BY <1>2, <2>1
  <2>3. Good(1, d[0])
    BY <2>2
  <2> HIDE DEF Good
  <2>4. QED
    BY <2>2, <2>3
<1>4. ASSUME NEW k \in Nat, k \in S PROVE k + 1 \in S
  <2>1. SUFFICES ASSUME (k + 1) + 1 <= n PROVE Good((k + 1) + 1, g[(k + 1) + 1])
    OBVIOUS
  <2>2. PICK m, x, y : m = k + 1 /\ x = g[m] /\ y = d[m]
    OBVIOUS
  <2>3. m \in Nat /\ m + 1 = (k + 1) + 1 /\ m + 1 \in 1 .. n /\ (m + 1) - 1 = m /\ m + 1 # 1 /\ m \in 0 .. (n - 1)
    BY <2>1, <2>2
  <2>4. Good(m, x)
    BY <1>4, <2>1, <2>2
  <2>5. y \in Int
    BY <2>2, <2>3
  <2>6. g[m + 1] = IF x > y THEN y ELSE x
    BY <1>2, <2>2, <2>3
  <2>7. PICK z : z = g[m + 1]
    OBVIOUS
  <2>8. z \in Int /\ x >= z /\ y >= z /\ (z = x \/ z = y)
    BY <2>4, <2>5, <2>6, <2>7
  <2>9. ASSUME NEW i \in 0 .. m PROVE d[i] >= z
    <3>1. CASE i = m
      BY <2>2, <2>8, <3>1
    <3>2. CASE i # m
      <4>1. i \in 0 .. (m - 1) /\ i \in 0 .. (n - 1)
        BY <2>3, <3>2
      <4>2. d[i] \in Int /\ d[i] >= x
        BY <2>4, <4>1
      <4>3. QED
        BY <2>4, <2>8, <4>2
    <3>3. QED
      BY <3>1, <3>2
  <2>10. \E i \in 0 .. m : z = d[i]
    <3>1. CASE z = y
      BY <2>2, <2>3, <3>1
    <3>2. CASE z = x
      BY <2>3, <2>4, <3>2
    <3>3. QED
      BY <2>8, <3>1, <3>2
  <2>11. Good(m + 1, z)
    BY <2>3, <2>8, <2>9, <2>10
  <2> HIDE DEF Good
  <2>12. QED
    BY <2>3, <2>7, <2>11
<1>5. n - 1 \in S
  <2> HIDE DEF S
  <2>1. QED
    BY <1>3, <1>4, NatInduct
<1>6. Good(n, g[n])
  <2>1. (n - 1) + 1 = n /\ (n - 1) + 1 <= n
    OBVIOUS
  <2> HIDE DEF Good
  <2>2. QED
    BY <1>5, <2>1
<1>7. QED
  BY <1>1, <1>6

\* argmax is the first place of the largest element.
FirstOfLargest(d, n, b) ==
    /\ b \in 0 .. (n - 1)
    /\ \A i \in 0 .. (n - 1) : d[i] <= d[b]
    /\ \A i \in 0 .. (n - 1) : i < b => d[i] < d[b]

\* ArgMax finds the first of the largest elements.
LEMMA ArgIs ==
    ASSUME NEW n \in Nat \ {0}, NEW d, \A i \in 0 .. (n - 1) : d[i] \in Int
    PROVE  FirstOfLargest(d, n, ArgMax(d, n))
<1>1. PICK g : ArgRun(g, n, d) /\ ArgMax(d, n) = g[n]
  BY ArgRuns
<1>2. \A k \in 1 .. n : g[k] = IF k = 1 THEN 0 ELSE IF d[k - 1] > d[g[k - 1]] THEN k - 1 ELSE g[k - 1]
  BY <1>1 DEF ArgRun
<1> DEFINE S == {k \in Nat : k + 1 <= n => FirstOfLargest(d, k + 1, g[k + 1])}
<1>3. 0 \in S
  <2>1. 1 \in 1 .. n /\ 0 \in 0 .. (n - 1)
    OBVIOUS
  <2>2. g[1] = 0 /\ d[0] \in Int
    BY <1>2, <2>1
  <2>3. FirstOfLargest(d, 1, 0)
    BY <2>2 DEF FirstOfLargest
  <2>4. QED
    BY <2>2, <2>3
<1>4. ASSUME NEW k \in Nat, k \in S PROVE k + 1 \in S
  <2>1. SUFFICES ASSUME (k + 1) + 1 <= n PROVE FirstOfLargest(d, (k + 1) + 1, g[(k + 1) + 1])
    OBVIOUS
  <2>2. PICK m, b, c : m = k + 1 /\ b = g[m] /\ c = g[m + 1]
    OBVIOUS
  <2>3. m \in Nat /\ m + 1 = (k + 1) + 1 /\ m + 1 \in 1 .. n /\ (m + 1) - 1 = m /\ m + 1 # 1 /\ m \in 0 .. (n - 1)
    BY <2>1, <2>2
  <2>4. FirstOfLargest(d, m, b)
    BY <1>4, <2>1, <2>2
  <2>5. c = IF d[m] > d[b] THEN m ELSE b
    BY <1>2, <2>2, <2>3
  <2>6. \A i \in 0 .. m : d[i] \in Int
    BY <2>3
  <2>7. b \in 0 .. (m - 1) /\ (\A i \in 0 .. (m - 1) : d[i] <= d[b]) /\ (\A i \in 0 .. (m - 1) : i < b => d[i] < d[b])
    BY <2>4 DEF FirstOfLargest
  <2>8. \A i \in 0 .. m : i = m \/ i \in 0 .. (m - 1)
    BY <2>3
  <2>9. CASE d[m] > d[b]
    <3>1. c = m
      BY <2>5, <2>9
    <3>2. \A i \in 0 .. (m - 1) : d[i] < d[m]
      BY <2>3, <2>6, <2>7, <2>9
    <3>3. QED
      BY <2>2, <2>3, <2>6, <2>8, <3>1, <3>2 DEF FirstOfLargest
  <2>10. CASE ~(d[m] > d[b])
    <3>1. c = b /\ b \in 0 .. m /\ b < m
      BY <2>3, <2>5, <2>7, <2>10
    <3>2. d[m] <= d[b]
      BY <2>3, <2>6, <2>10, <3>1
    <3>3. QED
      BY <2>2, <2>3, <2>6, <2>7, <2>8, <3>1, <3>2 DEF FirstOfLargest
  <2>11. QED
    BY <2>9, <2>10
<1>5. n - 1 \in S
  <2> HIDE DEF S
  <2>1. QED
    BY <1>3, <1>4, NatInduct
<1>6. (n - 1) + 1 = n /\ (n - 1) + 1 <= n
  OBVIOUS
<1>7. QED
  BY <1>1, <1>5, <1>6

\* Where hardmax has put its ones after k rows.
Ones(k, n, x, D) ==
    [i \in D |-> IF i \in 0 .. (k * n - 1) /\ i % n = ArgMax(Row(x, i \div n, n), n) THEN 1 ELSE 0]

HardRun(g, rows, n, x, zero) ==
    g = [k \in 0 .. rows |-> IF k = 0 THEN zero
                             ELSE [g[k - 1] EXCEPT ![(k - 1) * n + ArgMax(Row(x, k - 1, n), n)] = 1]]

\* One row more has its one.
LEMMA OnesNext ==
    ASSUME NEW n \in Nat \ {0}, NEW k \in Nat, NEW x, NEW D, ArgMax(Row(x, k, n), n) \in 0 .. (n - 1)
    PROVE  [Ones(k, n, x, D) EXCEPT ![k * n + ArgMax(Row(x, k, n), n)] = 1] = Ones(k + 1, n, x, D)
<1>1. PICK a, b, p, z : a = Ones(k, n, x, D) /\ b = ArgMax(Row(x, k, n), n) /\ p = k * n /\ z = (k + 1) * n
  OBVIOUS
<1>2. p \in Nat /\ z = p + n /\ b \in 0 .. (n - 1)
  BY <1>1
<1> DEFINE One(i) == i % n = ArgMax(Row(x, i \div n, n), n)
<1>3. DOMAIN a = D /\ \A i \in D : a[i] = IF i \in 0 .. (p - 1) /\ One(i) THEN 1 ELSE 0
  BY <1>1 DEF Ones
<1>4. ASSUME NEW i \in D
      PROVE (IF i = p + b THEN 1 ELSE a[i]) = (IF i \in 0 .. (z - 1) /\ One(i) THEN 1 ELSE 0)
  <2>1. CASE i \in p .. (p + n - 1)
    <3>1. Split(i, n, k, i - p)
      BY <1>1, <1>2, <2>1 DEF Split
    <3>2. i \div n = k /\ i % n = i - p
      BY <3>1, SplitIs
    <3>3. One(i) <=> i = p + b
      BY <1>1, <1>2, <2>1, <3>2
    <3>4. i \in 0 .. (z - 1) /\ i \notin 0 .. (p - 1)
      BY <1>2, <2>1
    <3> HIDE DEF One
    <3>5. QED
      BY <1>3, <3>3, <3>4
  <2>2. CASE i \notin p .. (p + n - 1)
    <3>1. (i \in 0 .. (z - 1) <=> i \in 0 .. (p - 1)) /\ i # p + b
      BY <1>2, <2>2
    <3> HIDE DEF One
    <3>2. QED
      BY <1>3, <2>2, <3>1
  <2>3. QED
    BY <2>1, <2>2
<1>5. [a EXCEPT ![p + b] = 1] = [i \in D |-> IF i = p + b THEN 1 ELSE a[i]]
  BY <1>3
<1>6. Ones(k + 1, n, x, D) = [i \in D |-> IF i \in 0 .. (z - 1) /\ One(i) THEN 1 ELSE 0]
  BY <1>1 DEF Ones
<1> HIDE DEF One
<1>7. QED
  BY <1>1, <1>4, <1>5, <1>6

\* OneHot puts a one at the largest element of every row.
LEMMA HardmaxIs ==
    ASSUME NEW rows \in Nat, NEW n \in Nat \ {0}, NEW x, NEW D,
           \A r \in 0 .. (rows - 1) : ArgMax(Row(x, r, n), n) \in 0 .. (n - 1)
    PROVE  OneHot(x, rows, n, [i \in D |-> 0]) = Ones(rows, n, x, D)
<1> DEFINE g == [k \in 0 .. rows |-> Ones(k, n, x, D)]
           zero == [i \in D |-> 0]
<1>1. ASSUME NEW k \in 0 .. rows
      PROVE  g[k] = IF k = 0 THEN zero ELSE [g[k - 1] EXCEPT ![(k - 1) * n + ArgMax(Row(x, k - 1, n), n)] = 1]
  <2>1. CASE k = 0
    <3>1. 0 * n - 1 = -1 /\ \A i : i \notin 0 .. (-1)
      OBVIOUS
    <3>2. Ones(0, n, x, D) = zero
      BY <3>1 DEF Ones
    <3>3. QED
      BY <2>1, <3>2
  <2>2. CASE k # 0
    <3>1. PICK j \in Nat : k = j + 1
      <4>1. k - 1 \in Nat /\ k = (k - 1) + 1
        BY <2>2
      <4>2. QED
        BY <4>1
    <3>2. k - 1 = j /\ j \in 0 .. rows /\ j \in 0 .. (rows - 1)
      BY <3>1
    <3>3. g[k - 1] = Ones(j, n, x, D) /\ g[k] = Ones(j + 1, n, x, D)
      BY <3>1, <3>2
    <3>4. [Ones(j, n, x, D) EXCEPT ![j * n + ArgMax(Row(x, j, n), n)] = 1] = Ones(j + 1, n, x, D)
      BY <3>2, OnesNext
    <3> HIDE DEF g, zero
    <3>5. QED
      BY <2>2, <3>2, <3>3, <3>4
  <2>3. QED
    BY <2>1, <2>2
<1>2. HardRun(g, rows, n, x, zero)
  <2>1. g = [k \in 0 .. rows |-> g[k]]
    OBVIOUS
  <2> HIDE DEF g, zero
  <2>2. QED
    BY <1>1, <2>1 DEF HardRun
<1>3. \A h : HardRun(h, rows, n, x, zero) => h[rows] = Ones(rows, n, x, D)
  <2> SUFFICES ASSUME NEW h, HardRun(h, rows, n, x, zero) PROVE h[rows] = Ones(rows, n, x, D)
    OBVIOUS
  <2> HIDE DEF zero
  <2>1. \A k \in 0 .. rows : h[k] = IF k = 0 THEN zero ELSE [h[k - 1] EXCEPT ![(k - 1) * n + ArgMax(Row(x, k - 1, n), n)] = 1]
    BY DEF HardRun
  <2> DEFINE S == {k \in Nat : k <= rows => h[k] = g[k]}
  <2> HIDE DEF g
  <2>2. 0 \in S
    <3>1. 0 \in 0 .. rows
      OBVIOUS
    <3>2. QED
      BY <1>1, <2>1, <3>1
  <2>3. ASSUME NEW k \in Nat, k \in S PROVE k + 1 \in S
    <3>1. SUFFICES ASSUME k + 1 <= rows PROVE h[k + 1] = g[k + 1]
      OBVIOUS
    <3>2. k + 1 \in 0 .. rows /\ (k + 1) - 1 = k /\ k + 1 # 0
      BY <3>1
    <3>3. h[k] = g[k]
      BY <2>3, <3>1
    <3>4. h[k + 1] = [h[k] EXCEPT ![k * n + ArgMax(Row(x, k, n), n)] = 1]
      BY <2>1, <3>2
    <3>5. g[k + 1] = [g[k] EXCEPT ![k * n + ArgMax(Row(x, k, n), n)] = 1]
      BY <1>1, <3>2
    <3>6. QED
      BY <3>3, <3>4, <3>5
  <2>4. rows \in S
    <3> HIDE DEF S
    <3>1. QED
      BY <2>2, <2>3, NatInduct
  <2>5. g[rows] = Ones(rows, n, x, D)
    BY DEF g
  <2>6. QED
    BY <2>4, <2>5
<1>4. OneHot(x, rows, n, zero) = (CHOOSE h : HardRun(h, rows, n, x, zero))[rows]
  BY DEF OneHot, For, HardRun
<1> HIDE DEF g
<1>5. (CHOOSE h : HardRun(h, rows, n, x, zero))[rows] = Ones(rows, n, x, D)
  <2> HIDE DEF zero
  <2>1. QED
    BY <1>2, <1>3
<1>6. QED
  BY <1>4, <1>5

\* What calls with arguments a and b have done to out after k elements.
Second(op, b, m, i) == IF op = "mul" THEN 2 ELSE m[b][i]

Overwritten(k, op, a, b, out, D, m) ==
    [t \in DOMAIN m |-> IF t = out THEN [i \in D |-> IF i < k THEN Apply(op, m[a][i], Second(op, b, m, i)) ELSE m[out][i]]
                        ELSE m[t]]

OverStep(op, a, b, out, q, k) == [q EXCEPT ![out][k] = Apply(op, q[a][k], Second(op, b, q, k))]

OverRun(g, op, a, b, out, n, m) ==
    g = [k \in 0 .. n |-> IF k = 0 THEN m ELSE OverStep(op, a, b, out, g[k - 1], k - 1)]

\* One element more is overwritten; what it is computed from is still as it was.
LEMMA OverNext ==
    ASSUME NEW k \in Nat, NEW n \in Nat, k < n, NEW op, NEW m, NEW a \in DOMAIN m, NEW b \in DOMAIN m, NEW out \in DOMAIN m
    PROVE  OverStep(op, a, b, out, Overwritten(k, op, a, b, out, 0 .. (n - 1), m), k)
             = Overwritten(k + 1, op, a, b, out, 0 .. (n - 1), m)
<1>1. PICK D, q, x, y : /\ D = 0 .. (n - 1) /\ q = Overwritten(k, op, a, b, out, D, m)
                        /\ x = m[a][k] /\ y = Second(op, b, m, k)
  OBVIOUS
<1>2. k \in D
  BY <1>1
<1>3. /\ DOMAIN q = DOMAIN m
      /\ q[out] = [i \in D |-> IF i < k THEN Apply(op, m[a][i], Second(op, b, m, i)) ELSE m[out][i]]
      /\ \A t \in DOMAIN m : t # out => q[t] = m[t]
  BY <1>1 DEF Overwritten
<1>4. q[out][k] = m[out][k]
  BY <1>2, <1>3
<1>5. q[a][k] = m[a][k] /\ q[b][k] = m[b][k]
  BY <1>3, <1>4
<1>6. Second(op, b, q, k) = y /\ q[a][k] = x
  BY <1>1, <1>5 DEF Second
<1>7. PICK v : v = Apply(op, x, y)
  OBVIOUS
<1>8. [q[out] EXCEPT ![k] = v] = [i \in D |-> IF i < k + 1 THEN Apply(op, m[a][i], Second(op, b, m, i)) ELSE m[out][i]]
  <2>1. [q[out] EXCEPT ![k] = v] = [i \in D |-> IF i = k THEN v ELSE q[out][i]]
    BY <1>3
  <2>2. ASSUME NEW i \in D
        PROVE (IF i = k THEN v ELSE q[out][i]) =
              (IF i < k + 1 THEN Apply(op, m[a][i], Second(op, b, m, i)) ELSE m[out][i])
    <3>1. i \in Int
      BY <1>1
    <3>2. q[out][i] = IF i < k THEN Apply(op, m[a][i], Second(op, b, m, i)) ELSE m[out][i]
      BY <1>3
    <3>3. CASE i = k
      BY <1>1, <1>7, <3>3
    <3>4. CASE i # k
      <4>1. i < k + 1 <=> i < k
        BY <3>1, <3>4
      <4>2. QED
        BY <3>2, <3>4, <4>1
    <3>5. QED
      BY <3>3, <3>4
  <2>3. QED
    BY <2>1, <2>2
<1>9. [q EXCEPT ![out][k] = v] = [t \in DOMAIN m |-> IF t = out THEN [q[out] EXCEPT ![k] = v] ELSE m[t]]
  BY <1>3
<1>10. QED
  <2>1. OverStep(op, a, b, out, q, k) = [q EXCEPT ![out][k] = v]
    BY <1>6, <1>7 DEF OverStep
  <2>2. Overwritten(k + 1, op, a, b, out, D, m) = [q EXCEPT ![out][k] = v]
    BY <1>8, <1>9 DEF Overwritten
  <2>3. QED
    BY <1>1, <2>1, <2>2

\* Overwrite computes every element from the old ones, whichever tensors are one.
LEMMA OverwriteIs ==
    ASSUME NEW n \in Nat, NEW op, NEW m, NEW a \in DOMAIN m, NEW b \in DOMAIN m, NEW out \in DOMAIN m,
           m = [t \in DOMAIN m |-> m[t]], m[out] = [i \in 0 .. (n - 1) |-> m[out][i]]
    PROVE  Overwrite(op, a, b, out, n, m) = Overwritten(n, op, a, b, out, 0 .. (n - 1), m)
<1> DEFINE D == 0 .. (n - 1)
           g == [k \in 0 .. n |-> Overwritten(k, op, a, b, out, D, m)]
<1>1. ASSUME NEW k \in 0 .. n PROVE g[k] = IF k = 0 THEN m ELSE OverStep(op, a, b, out, g[k - 1], k - 1)
  <2>1. CASE k = 0
    <3>1. \A i \in D : ~(i < 0)
      OBVIOUS
    <3>2. [i \in D |-> IF i < 0 THEN Apply(op, m[a][i], Second(op, b, m, i)) ELSE m[out][i]] = m[out]
      BY <3>1
    <3> HIDE DEF D
    <3>3. Overwritten(0, op, a, b, out, D, m) = m
      BY <3>2 DEF Overwritten
    <3>4. QED
      BY <2>1, <3>3
  <2>2. CASE k # 0
    <3>1. k - 1 \in Nat /\ k - 1 < n /\ (k - 1) + 1 = k /\ k - 1 \in 0 .. n
      BY <2>2
    <3>2. g[k - 1] = Overwritten(k - 1, op, a, b, out, D, m) /\ g[k] = Overwritten((k - 1) + 1, op, a, b, out, D, m)
      BY <3>1
    <3>3. PICK j \in Nat : j = k - 1 /\ j < n
      BY <3>1
    <3>4. OverStep(op, a, b, out, Overwritten(j, op, a, b, out, D, m), j) = Overwritten(j + 1, op, a, b, out, D, m)
      BY <3>3, OverNext
    <3> HIDE DEF g, D
    <3>5. QED
      BY <2>2, <3>2, <3>3, <3>4
  <2>3. QED
    BY <2>1, <2>2
<1>2. OverRun(g, op, a, b, out, n, m)
  <2>1. g = [k \in 0 .. n |-> g[k]]
    OBVIOUS
  <2> HIDE DEF g
  <2>2. QED
    BY <1>1, <2>1 DEF OverRun
<1>3. \A h : OverRun(h, op, a, b, out, n, m) => h[n] = Overwritten(n, op, a, b, out, D, m)
  <2> SUFFICES ASSUME NEW h, OverRun(h, op, a, b, out, n, m) PROVE h[n] = Overwritten(n, op, a, b, out, D, m)
    OBVIOUS
  <2>1. \A k \in 0 .. n : h[k] = IF k = 0 THEN m ELSE OverStep(op, a, b, out, h[k - 1], k - 1)
    BY DEF OverRun
  <2> DEFINE S == {k \in Nat : k <= n => h[k] = g[k]}
  <2> HIDE DEF g
  <2>2. 0 \in S
    <3>1. 0 \in 0 .. n
      OBVIOUS
    <3>2. QED
      BY <1>1, <2>1, <3>1
  <2>3. ASSUME NEW k \in Nat, k \in S PROVE k + 1 \in S
    <3>1. SUFFICES ASSUME k + 1 <= n PROVE h[k + 1] = g[k + 1]
      OBVIOUS
    <3>2. k + 1 \in 0 .. n /\ (k + 1) - 1 = k /\ k + 1 # 0
      BY <3>1
    <3>3. h[k] = g[k]
      BY <2>3, <3>1
    <3>4. h[k + 1] = OverStep(op, a, b, out, h[k], k)
      BY <2>1, <3>2
    <3>5. g[k + 1] = OverStep(op, a, b, out, g[k], k)
      BY <1>1, <3>2
    <3>6. QED
      BY <3>3, <3>4, <3>5
  <2>4. n \in S
    <3> HIDE DEF S
    <3>1. QED
      BY <2>2, <2>3, NatInduct
  <2>5. g[n] = Overwritten(n, op, a, b, out, D, m)
    BY DEF g
  <2>6. QED
    BY <2>4, <2>5
<1>4. Overwrite(op, a, b, out, n, m) = (CHOOSE h : OverRun(h, op, a, b, out, n, m))[n]
  BY DEF Overwrite, For, OverRun, OverStep, Second
<1> HIDE DEF g
<1>5. QED
  BY <1>2, <1>3, <1>4

-----------------------------------------------------------------------------
(* Tensor::fill                                                            *)

\* The states of fill's loop.
FillNext(n, a) ==
    IF a.step < n THEN [data |-> Copied(a.data, a.step, AtMost(a.step, n - a.step)), step |-> a.step * 2] ELSE a

FillFirst(x, v) == [data |-> [x EXCEPT ![0] = v], step |-> 1]

FillRun(g, x, n, v) == g = [k \in 0 .. n |-> IF k = 0 THEN FillFirst(x, v) ELSE FillNext(n, g[k - 1])]

\* All elements below step are v, and step has grown with every round.
Filled(a, k, n, v) ==
    /\ DOMAIN a.data = 0 .. (n - 1) /\ a.step \in Nat \ {0}
    /\ \A i \in 0 .. (n - 1) : i < a.step => a.data[i] = v
    /\ a.step >= n \/ a.step > k

\* A copy at least doubles the elements filled.
LEMMA FilledNext ==
    ASSUME NEW n \in Nat, NEW k \in Nat, NEW v, NEW a, Filled(a, k, n, v)
    PROVE  Filled(FillNext(n, a), k + 1, n, v)
<1>1. PICK s, d : s = a.step /\ d = a.data
  OBVIOUS
<1>2. /\ DOMAIN d = 0 .. (n - 1) /\ s \in Nat \ {0}
      /\ \A i \in 0 .. (n - 1) : i < s => d[i] = v
      /\ s >= n \/ s > k
  BY <1>1 DEF Filled
<1>3. CASE ~(s < n)
  <2>1. FillNext(n, a) = a
    BY <1>1, <1>3 DEF FillNext
  <2>2. s >= n
    BY <1>2, <1>3
  <2>3. QED
    BY <1>1, <1>2, <2>1, <2>2 DEF Filled
<1>4. CASE s < n
  <2>1. PICK c : c = AtMost(s, n - s)
    OBVIOUS
  <2>2. c \in Nat /\ c <= s /\ (c = s \/ s + c = n)
    BY <1>2, <1>4, <2>1 DEF AtMost
  <2>3. PICK e : e = Copied(d, s, c)
    OBVIOUS
  <2>4. FillNext(n, a) = [data |-> e, step |-> s * 2]
    BY <1>1, <1>4, <2>1, <2>3 DEF FillNext
  <2>5. DOMAIN e = 0 .. (n - 1) /\ \A i \in 0 .. (n - 1) : e[i] = IF i \in s .. (s + c - 1) THEN d[i - s] ELSE d[i]
    BY <1>2, <2>3 DEF Copied
  <2>6. ASSUME NEW i \in 0 .. (n - 1), i < s * 2 PROVE e[i] = v
    <3>1. CASE i < s
      <4>1. i \notin s .. (s + c - 1)
        BY <1>2, <3>1
      <4>2. QED
        BY <1>2, <2>5, <3>1, <4>1
    <3>2. CASE ~(i < s)
      <4>1. i \in s .. (s + c - 1) /\ i - s \in 0 .. (n - 1) /\ i - s < s
        BY <1>2, <2>2, <2>6, <3>2
      <4>2. QED
        BY <1>2, <2>5, <4>1
    <3>3. QED
      BY <3>1, <3>2
  <2>7. s * 2 \in Nat \ {0} /\ s * 2 > k + 1
    BY <1>2, <1>4
  <2>8. QED
    BY <2>4, <2>5, <2>6, <2>7 DEF Filled
<1>5. QED
  BY <1>3, <1>4

\* fill reaches every element.
LEMMA FillIs ==
    ASSUME NEW n \in Nat \ {0}, NEW v, NEW x, DOMAIN x = 0 .. (n - 1), x = [i \in DOMAIN x |-> x[i]]
    PROVE  \A i \in 0 .. (n - 1) : FillLoop(x, n, v)[i] = v
<1> DEFINE A == {a \in [data : [0 .. (n - 1) -> {x[i] : i \in DOMAIN x} \cup {v}], step : Nat \ {0}] : TRUE}
           F == [k \in 0 .. (n - 1) |-> [a \in A |-> FillNext(n, a)]]
<1>1. FillFirst(x, v) \in A
  BY DEF FillFirst
<1>2. ASSUME NEW k \in 0 .. (n - 1), NEW a \in A PROVE F[k][a] = FillNext(n, a) /\ F[k][a] \in A
  <2>1. F[k][a] = FillNext(n, a)
    OBVIOUS
  <2>2. a.step \in Nat \ {0} /\ a.data \in [0 .. (n - 1) -> {x[i] : i \in DOMAIN x} \cup {v}]
    OBVIOUS
  <2>3. CASE a.step < n
    <3>1. PICK e : e = Copied(a.data, a.step, AtMost(a.step, n - a.step))
      OBVIOUS
    <3>2. e \in [0 .. (n - 1) -> {x[i] : i \in DOMAIN x} \cup {v}]
      <4>1. PICK W, c, s, d : W = {x[i] : i \in DOMAIN x} \cup {v} /\ c = AtMost(a.step, n - a.step) /\ s = a.step /\ d = a.data
        OBVIOUS
      <4>2. s \in Nat \ {0} /\ s < n /\ c \in Nat /\ s + c <= n /\ d \in [0 .. (n - 1) -> W]
        BY <2>2, <2>3, <4>1 DEF AtMost
      <4>3. e = [i \in 0 .. (n - 1) |-> IF i \in s .. (s + c - 1) THEN d[i - s] ELSE d[i]]
        BY <3>1, <4>1, <4>2 DEF Copied
      <4>4. ASSUME NEW i \in 0 .. (n - 1) PROVE (IF i \in s .. (s + c - 1) THEN d[i - s] ELSE d[i]) \in W
        <5>1. i \in s .. (s + c - 1) => i - s \in 0 .. (n - 1)
          BY <4>2
        <5>2. QED
          BY <4>2, <5>1
      <4>5. e \in [0 .. (n - 1) -> W]
        BY <4>3, <4>4
      <4>6. QED
        BY <4>1, <4>5
    <3>3. FillNext(n, a) = [data |-> e, step |-> a.step * 2]
      BY <2>3, <3>1 DEF FillNext
    <3>4. a.step * 2 \in Nat \ {0}
      BY <2>2
    <3>5. QED
      BY <2>1, <3>2, <3>3, <3>4
  <2>4. CASE ~(a.step < n)
    BY <2>1, <2>4 DEF FillNext
  <2>5. QED
    BY <2>3, <2>4
<1> HIDE DEF A, F
<1>3. PICK g : Passes(g, F, A, 0, n, FillFirst(x, v))
  <2>1. Closed(F, A, 0, n)
    BY <1>2 DEF Closed
  <2>2. 0 \in Nat /\ n \in Nat /\ 0 <= n
    OBVIOUS
  <2>3. QED
    BY <1>1, <2>1, <2>2, ForExists, Zenon
<1>4. ASSUME NEW k \in 0 .. n PROVE g[k] = IF k = 0 THEN FillFirst(x, v) ELSE FillNext(n, g[k - 1])
  <2>1. CASE k = 0
    BY <1>3, <2>1 DEF Passes
  <2>2. CASE k # 0
    <3>1. k \in (0 + 1) .. n /\ k - 1 \in 0 .. (n - 1) /\ k - 1 \in 0 .. n
      BY <2>2
    <3>2. g[k - 1] \in A
      BY <1>3, <3>1 DEF Passes
    <3>3. QED
      BY <1>2, <1>3, <2>2, <3>1, <3>2 DEF Passes
  <2>3. QED
    BY <2>1, <2>2
<1>5. FillRun(g, x, n, v)
  <2>1. DOMAIN g = 0 .. n
    BY <1>3 DEF Passes
  <2>2. g = [k \in DOMAIN g |-> g[k]]
    BY <1>3 DEF Passes
  <2>3. QED
    BY <1>4, <2>1, <2>2 DEF FillRun
<1>6. FillLoop(x, n, v) = (CHOOSE h : FillRun(h, x, n, v))[n].data
  BY DEF FillLoop, For, FillRun, FillNext, FillFirst
<1>7. ASSUME NEW h, FillRun(h, x, n, v) PROVE Filled(h[n], n, n, v)
  <2>1. \A k \in 0 .. n : h[k] = IF k = 0 THEN FillFirst(x, v) ELSE FillNext(n, h[k - 1])
    BY <1>7 DEF FillRun
  <2> DEFINE S == {k \in Nat : k <= n => Filled(h[k], k, n, v)}
  <2>2. 0 \in S
    <3>1. 0 \in 0 .. n
      OBVIOUS
    <3>2. h[0] = FillFirst(x, v)
      BY <2>1, <3>1
    <3>3. PICK y : y = [x EXCEPT ![0] = v]
      OBVIOUS
    <3>4. DOMAIN y = 0 .. (n - 1) /\ y[0] = v
      BY <3>3
    <3>5. FillFirst(x, v) = [data |-> y, step |-> 1]
      BY <3>3 DEF FillFirst
    <3>6. \A i \in 0 .. (n - 1) : i < 1 => i = 0
      OBVIOUS
    <3>7. Filled(FillFirst(x, v), 0, n, v)
      BY <3>4, <3>5, <3>6 DEF Filled
    <3>8. QED
      BY <3>2, <3>7
  <2>3. ASSUME NEW k \in Nat, k \in S PROVE k + 1 \in S
    <3>1. SUFFICES ASSUME k + 1 <= n PROVE Filled(h[k + 1], k + 1, n, v)
      OBVIOUS
    <3>2. k + 1 \in 0 .. n /\ (k + 1) - 1 = k /\ k + 1 # 0
      BY <3>1
    <3>3. h[k + 1] = FillNext(n, h[k])
      BY <2>1, <3>2
    <3>4. Filled(h[k], k, n, v)
      BY <2>3, <3>1
    <3>5. QED
      BY <3>3, <3>4, FilledNext
  <2>4. n \in S
    <3> HIDE DEF S
    <3>1. QED
      BY <2>2, <2>3, NatInduct
  <2>5. QED
    BY <2>4
<1>8. Filled((CHOOSE h : FillRun(h, x, n, v))[n], n, n, v)
  BY <1>5, <1>7
<1>9. PICK a : a = (CHOOSE h : FillRun(h, x, n, v))[n]
  OBVIOUS
<1>10. Filled(a, n, n, v) /\ FillLoop(x, n, v) = a.data
  BY <1>6, <1>8, <1>9
<1>11. QED
  BY <1>10 DEF Filled

-----------------------------------------------------------------------------
(* Shapes, strides and addresses                                           *)

\* The number of elements of a shape.
Dimensions == Seq(Nat \ {0}) \ {<<>>}

ProductRun(g, s) == g = [k \in 0 .. Len(s) |-> IF k = 0 THEN 1 ELSE g[k - 1] * s[(k - 1) + 1]]

\* A shape has a dimension, and dimensions above 0.
LEMMA DimensionsAre ==
    ASSUME NEW s \in Dimensions
    PROVE  Len(s) \in Nat \ {0} /\ \A k \in 1 .. Len(s) : s[k] \in Nat \ {0}
<1>1. s \in Seq(Nat \ {0}) /\ s # <<>>
  BY DEF Dimensions
<1>2. QED
  BY <1>1, EmptySeq, LenProperties

\* The products of the first dimensions.
LEMMA ProductRuns ==
    ASSUME NEW s \in Seq(Nat \ {0})
    PROVE  \E g : /\ ProductRun(g, s) /\ Product(s) = g[Len(s)]
                  /\ g[0] = 1 /\ \A k \in 1 .. Len(s) : g[k] = g[k - 1] * s[k]
                  /\ \A k \in 0 .. Len(s) : g[k] \in Nat \ {0}
<1>1. PICK n \in Nat : n = Len(s)
  OBVIOUS
<1> DEFINE U == Nat \ {0}
           F == [k \in 0 .. (n - 1) |-> [u \in U |-> u * s[k + 1]]]
<1>2. ASSUME NEW k \in 0 .. (n - 1), NEW u \in U PROVE F[k][u] = u * s[k + 1] /\ F[k][u] \in U
  <2>1. F[k][u] = u * s[k + 1]
    OBVIOUS
  <2>2. PICK t : t = s[k + 1]
    OBVIOUS
  <2>3. k + 1 \in 1 .. Len(s)
    BY <1>1
  <2>4. t \in Nat \ {0}
    BY <2>2, <2>3
  <2>5. u * t \in Nat \ {0}
    BY <2>4
  <2>6. QED
    BY <2>1, <2>2, <2>5
<1>3. 1 \in U
  OBVIOUS
<1> HIDE DEF U, F
<1>4. PICK g : Passes(g, F, U, 0, n, 1)
  <2>1. Closed(F, U, 0, n)
    BY <1>2 DEF Closed
  <2>2. 0 \in Nat /\ n \in Nat /\ 0 <= n
    OBVIOUS
  <2>3. QED
    BY <1>3, <2>1, <2>2, ForExists, Zenon
<1>5. ASSUME NEW k \in 0 .. n PROVE g[k] = IF k = 0 THEN 1 ELSE g[k - 1] * s[(k - 1) + 1]
  <2>1. CASE k = 0
    BY <1>4, <2>1 DEF Passes
  <2>2. CASE k # 0
    <3>1. k \in (0 + 1) .. n /\ k - 1 \in 0 .. (n - 1) /\ k - 1 \in 0 .. n
      BY <2>2
    <3>2. g[k - 1] \in U
      BY <1>4, <3>1 DEF Passes
    <3>3. QED
      BY <1>2, <1>4, <2>2, <3>1, <3>2 DEF Passes
  <2>3. QED
    BY <2>1, <2>2
<1>6. ProductRun(g, s)
  <2>1. DOMAIN g = 0 .. n
    BY <1>4 DEF Passes
  <2>2. g = [k \in DOMAIN g |-> g[k]]
    BY <1>4 DEF Passes
  <2>3. QED
    BY <1>1, <1>5, <2>1, <2>2 DEF ProductRun
<1>7. Product(s) = (CHOOSE h : ProductRun(h, s))[Len(s)]
  BY DEF Product, For, ProductRun
<1>8. PICK h : h = (CHOOSE f : ProductRun(f, s))
  OBVIOUS
<1>9. ProductRun(h, s)
  BY <1>6, <1>8
<1>10. \A k \in 0 .. n : h[k] = IF k = 0 THEN 1 ELSE h[k - 1] * s[(k - 1) + 1]
  BY <1>1, <1>9 DEF ProductRun
<1>11. h[0] = 1
  <2>1. 0 \in 0 .. n
    OBVIOUS
  <2>2. QED
    BY <1>10, <2>1
<1>12. ASSUME NEW k \in 1 .. n PROVE h[k] = h[k - 1] * s[k]
  <2>1. k \in 0 .. n /\ k # 0 /\ (k - 1) + 1 = k
    OBVIOUS
  <2>2. QED
    BY <1>10, <2>1
<1> DEFINE S == {k \in Nat : k <= n => h[k] \in Nat \ {0}}
<1>13. 0 \in S
  BY <1>11
<1>14. ASSUME NEW k \in Nat, k \in S PROVE k + 1 \in S
  <2>1. SUFFICES ASSUME k + 1 <= n PROVE h[k + 1] \in Nat \ {0}
    OBVIOUS
  <2>2. PICK u, t : u = h[k] /\ t = s[k + 1]
    OBVIOUS
  <2>3. k + 1 \in 1 .. n /\ (k + 1) - 1 = k
    BY <2>1
  <2>4. h[k + 1] = u * t
    BY <1>12, <2>2, <2>3
  <2>5. u \in Nat \ {0}
    BY <1>14, <2>1, <2>2
  <2>6. t \in Nat \ {0}
    BY <1>1, <2>2, <2>3
  <2>7. u * t \in Nat \ {0}
    BY <2>5, <2>6
  <2>8. QED
    BY <2>4, <2>7
<1>15. \A k \in Nat : k \in S
  <2> HIDE DEF S
  <2>1. QED
    BY <1>13, <1>14, NatInduct
<1>16. \A k \in 0 .. n : h[k] \in Nat \ {0}
  BY <1>15
<1>17. QED
  BY <1>1, <1>7, <1>8, <1>9, <1>11, <1>12, <1>16

\* A tensor has elements.
LEMMA ProductPos ==
    ASSUME NEW s \in Seq(Nat \ {0})
    PROVE  Product(s) \in Nat \ {0}
<1>1. Len(s) \in 0 .. Len(s)
  OBVIOUS
<1>2. QED
  BY <1>1, ProductRuns

\* A matrix has rows times columns.
LEMMA ProductOne ==
    ASSUME NEW s \in Seq(Nat \ {0}), Len(s) = 2
    PROVE  Product(s) = s[1] * s[2] /\ s[1] \in Nat \ {0} /\ s[2] \in Nat \ {0}
<1>1. PICK g : /\ Product(s) = g[Len(s)]
               /\ g[0] = 1 /\ \A k \in 1 .. Len(s) : g[k] = g[k - 1] * s[k]
  BY ProductRuns
<1>2. 1 \in 1 .. Len(s) /\ 2 \in 1 .. Len(s)
  OBVIOUS
<1>3. s[1] \in Nat \ {0} /\ s[2] \in Nat \ {0}
  BY <1>2
<1>4. g[1] = g[1 - 1] * s[1] /\ g[2] = g[2 - 1] * s[2]
  BY <1>1, <1>2
<1>5. g[1] = s[1]
  BY <1>1, <1>3, <1>4
<1>6. QED
  BY <1>1, <1>3, <1>4, <1>5

\* A tensor has as many rows as its other dimensions say.
LEMMA ProductFront ==
    ASSUME NEW s \in Dimensions
    PROVE  /\ Product(s) = Product(Front(s)) * s[Len(s)]
           /\ Product(Front(s)) \in Nat \ {0} /\ s[Len(s)] \in Nat \ {0}
<1>1. PICK n, f : n = Len(s) /\ f = Front(s)
  OBVIOUS
<1>2. n \in Nat \ {0} /\ \A k \in 1 .. n : s[k] \in Nat \ {0}
  BY <1>1, DimensionsAre
<1>3. s \in Seq(Nat \ {0})
  BY DEF Dimensions
<1>4. f \in Seq(Nat \ {0}) /\ Len(f) = n - 1 /\ \A k \in 1 .. (n - 1) : f[k] = s[k]
  <2>1. f = SubSeq(s, 1, n - 1)
    BY <1>1, <1>2 DEF Front
  <2>2. QED
    BY <1>1, <1>2, <1>3, <2>1
<1>5. PICK g : /\ Product(s) = g[n] /\ g[0] = 1 /\ (\A k \in 1 .. n : g[k] = g[k - 1] * s[k])
               /\ \A k \in 0 .. n : g[k] \in Nat \ {0}
  BY <1>1, <1>3, ProductRuns
<1>6. PICK h : Product(f) = h[n - 1] /\ h[0] = 1 /\ \A k \in 1 .. (n - 1) : h[k] = h[k - 1] * f[k]
  <2>1. PICK h : Product(f) = h[Len(f)] /\ h[0] = 1 /\ \A k \in 1 .. Len(f) : h[k] = h[k - 1] * f[k]
    BY <1>4, ProductRuns
  <2>2. QED
    BY <1>4, <2>1
<1> DEFINE S == {k \in Nat : k <= n - 1 => g[k] = h[k]}
<1>7. 0 \in S
  BY <1>5, <1>6
<1>8. ASSUME NEW k \in Nat, k \in S PROVE k + 1 \in S
  <2>1. SUFFICES ASSUME k + 1 <= n - 1 PROVE g[k + 1] = h[k + 1]
    OBVIOUS
  <2>2. k + 1 \in 1 .. n /\ k + 1 \in 1 .. (n - 1) /\ (k + 1) - 1 = k
    BY <1>2, <2>1
  <2>3. g[k] = h[k]
    <3>1. k <= n - 1
      BY <1>2, <2>1
    <3>2. QED
      BY <1>8, <3>1
  <2>4. g[k + 1] = g[k] * s[k + 1] /\ h[k + 1] = h[k] * f[k + 1]
    BY <1>5, <1>6, <2>2
  <2>5. QED
    BY <1>4, <2>2, <2>3, <2>4
<1>9. n - 1 \in S
  <2> HIDE DEF S
  <2>1. QED
    BY <1>2, <1>7, <1>8, NatInduct
<1>10. g[n] = g[n - 1] * s[n] /\ g[n - 1] \in Nat \ {0}
  BY <1>2, <1>5
<1>11. QED
  BY <1>1, <1>2, <1>5, <1>6, <1>9, <1>10

StrideRun(g, s) == g = [i \in DOMAIN s |-> IF i = Len(s) THEN 1 ELSE g[i + 1] * s[i + 1]]

\* The strides that walk a tensor of shape s in row-major order.
Strided(st, s) ==
    /\ DOMAIN st = 1 .. Len(s) /\ st[Len(s)] = 1
    /\ \A i \in 1 .. Len(s) : st[i] \in Nat \ {0}
    /\ \A i \in 1 .. (Len(s) - 1) : st[i] = st[i + 1] * s[i + 1]

\* The strides are found from the last dimension back.
LEMMA StrideExists ==
    ASSUME NEW s \in Dimensions
    PROVE  \E g : StrideRun(g, s)
<1>1. PICK n \in Nat \ {0} : n = Len(s)
  BY DimensionsAre
<1>2. \A k \in 1 .. n : s[k] \in Nat \ {0}
  BY <1>1, DimensionsAre
<1> DEFINE U == Nat \ {0}
           F == [k \in 0 .. (n - 2) |-> [u \in U |-> u * s[n - k]]]
<1>3. ASSUME NEW k \in 0 .. (n - 2), NEW u \in U PROVE F[k][u] = u * s[n - k] /\ F[k][u] \in U
  <2>1. F[k][u] = u * s[n - k]
    OBVIOUS
  <2>2. PICK t : t = s[n - k]
    OBVIOUS
  <2>3. n - k \in 1 .. n
    OBVIOUS
  <2>4. t \in Nat \ {0}
    BY <1>2, <2>2, <2>3
  <2>5. u * t \in Nat \ {0}
    BY <2>4
  <2>6. QED
    BY <2>1, <2>2, <2>5
<1>4. 1 \in U
  OBVIOUS
<1> HIDE DEF U, F
<1>5. PICK h : Passes(h, F, U, 0, n - 1, 1)
  <2>1. PICK m : m = n - 1
    OBVIOUS
  <2>2. 0 \in Nat /\ m \in Nat /\ 0 <= m /\ m - 1 = n - 2
    BY <2>1
  <2>3. Closed(F, U, 0, m)
    BY <1>3, <2>2 DEF Closed
  <2>4. \E h : Passes(h, F, U, 0, m, 1)
    BY <1>4, <2>2, <2>3, ForExists, Zenon
  <2>5. QED
    BY <2>1, <2>4
<1> DEFINE g == [i \in 1 .. n |-> h[n - i]]
<1>6. ASSUME NEW i \in 1 .. n PROVE g[i] = IF i = n THEN 1 ELSE g[i + 1] * s[i + 1]
  <2>1. CASE i = n
    <3>1. n - i = 0
      BY <2>1
    <3>2. QED
      BY <1>5, <2>1, <3>1 DEF Passes
  <2>2. CASE i # n
    <3>1. PICK k : k = n - i
      OBVIOUS
    <3>2. k \in (0 + 1) .. (n - 1) /\ k - 1 \in 0 .. (n - 2) /\ k - 1 \in 0 .. (n - 1)
          /\ i + 1 \in 1 .. n /\ n - (k - 1) = i + 1 /\ n - (i + 1) = k - 1
      BY <2>2, <3>1
    <3>3. h[k] = F[k - 1][h[k - 1]] /\ h[k - 1] \in U
      BY <1>5, <3>2 DEF Passes
    <3>4. h[k] = h[k - 1] * s[i + 1]
      BY <1>3, <3>2, <3>3
    <3>5. g[i] = h[k] /\ g[i + 1] = h[k - 1]
      BY <3>1, <3>2
    <3>6. QED
      BY <2>2, <3>4, <3>5
  <2>3. QED
    BY <2>1, <2>2
<1>7. StrideRun(g, s)
  <2>1. DOMAIN s = 1 .. n
    BY <1>1 DEF Dimensions
  <2>2. g = [i \in 1 .. n |-> IF i = n THEN 1 ELSE g[i + 1] * s[i + 1]]
    BY <1>6
  <2> HIDE DEF g
  <2>3. QED
    BY <1>1, <2>1, <2>2 DEF StrideRun
<1>8. QED
  BY <1>7

\* TensorShape::strides gives them.
LEMMA StridesAre ==
    ASSUME NEW s \in Dimensions
    PROVE  Strided(Strides(s), s)
<1>1. PICK n \in Nat \ {0} : n = Len(s)
  BY DimensionsAre
<1>2. DOMAIN s = 1 .. n /\ \A k \in 1 .. n : s[k] \in Nat \ {0}
  BY <1>1, DimensionsAre DEF Dimensions
<1>3. PICK g : g = Strides(s)
  OBVIOUS
<1>4. Strides(s) = CHOOSE h : StrideRun(h, s)
  BY DEF Strides, StrideRun
<1>5. StrideRun(g, s)
  BY <1>3, <1>4, StrideExists
<1>6. DOMAIN g = 1 .. n /\ \A i \in 1 .. n : g[i] = IF i = n THEN 1 ELSE g[i + 1] * s[i + 1]
  BY <1>1, <1>2, <1>5 DEF StrideRun
<1> DEFINE S == {k \in Nat : k <= n - 1 => g[n - k] \in Nat \ {0}}
<1>7. 0 \in S
  <2>1. n - 0 = n /\ n \in 1 .. n
    OBVIOUS
  <2>2. g[n - 0] = 1
    BY <1>6, <2>1
  <2>3. QED
    BY <2>2
<1>8. ASSUME NEW k \in Nat, k \in S PROVE k + 1 \in S
  <2>1. SUFFICES ASSUME k + 1 <= n - 1 PROVE g[n - (k + 1)] \in Nat \ {0}
    OBVIOUS
  <2>2. PICK i, u, t : i = n - (k + 1) /\ u = g[i + 1] /\ t = s[i + 1]
    OBVIOUS
  <2>3. i \in 1 .. n /\ i # n /\ i + 1 = n - k /\ i + 1 \in 1 .. n
    BY <2>1, <2>2
  <2>4. g[i] = u * t
    BY <1>6, <2>2, <2>3
  <2>5. u \in Nat \ {0} /\ t \in Nat \ {0}
    BY <1>2, <1>8, <2>1, <2>2, <2>3
  <2>6. u * t \in Nat \ {0}
    BY <2>5
  <2>7. QED
    BY <2>2, <2>4, <2>6
<1>9. \A k \in Nat : k \in S
  <2> HIDE DEF S
  <2>1. QED
    BY <1>7, <1>8, NatInduct
<1>10. ASSUME NEW i \in 1 .. n PROVE g[i] \in Nat \ {0}
  <2>1. n - i \in Nat /\ n - i <= n - 1 /\ n - (n - i) = i
    OBVIOUS
  <2>2. n - i \in S
    BY <1>9, <2>1
  <2>3. QED
    BY <2>1, <2>2
<1>11. g[n] = 1
  <2>1. n \in 1 .. n
    OBVIOUS
  <2>2. QED
    BY <1>6, <2>1
<1>12. ASSUME NEW i \in 1 .. (n - 1) PROVE g[i] = g[i + 1] * s[i + 1]
  <2>1. i \in 1 .. n /\ i # n
    OBVIOUS
  <2>2. QED
    BY <1>6, <2>1
<1>13. Strided(g, s)
  BY <1>1, <1>6, <1>10, <1>11, <1>12 DEF Strided
<1>14. QED
  BY <1>3, <1>13

\* An index is below every dimension.
LEMMA IndexIs ==
    ASSUME NEW s \in Dimensions, NEW ix
    PROVE  ix \in Indices(s) <=> /\ DOMAIN ix = 1 .. Len(s) /\ ix = [i \in 1 .. Len(s) |-> ix[i]]
                                 /\ \A i \in 1 .. Len(s) : ix[i] \in 0 .. (s[i] - 1)
<1>1. PICK n \in Nat \ {0} : n = Len(s)
  BY DimensionsAre
<1>2. DOMAIN s = 1 .. n /\ \A k \in 1 .. n : s[k] \in Nat \ {0}
  BY <1>1, DimensionsAre DEF Dimensions
<1> DEFINE V == UNION {0 .. (s[i] - 1) : i \in DOMAIN s}
<1>3. V \subseteq Nat
  BY <1>2
<1>4. \A i \in 1 .. n : 0 .. (s[i] - 1) \subseteq V
  BY <1>2
<1>5. Indices(s) = {x \in [1 .. n -> V] : \A i \in 1 .. n : x[i] < s[i]}
  BY <1>2 DEF Indices
<1> HIDE DEF V
<1>6. ASSUME ix \in Indices(s)
      PROVE  /\ DOMAIN ix = 1 .. n /\ ix = [i \in 1 .. n |-> ix[i]]
             /\ \A i \in 1 .. n : ix[i] \in 0 .. (s[i] - 1)
  <2>1. ix \in [1 .. n -> V] /\ \A i \in 1 .. n : ix[i] < s[i]
    BY <1>5, <1>6
  <2>2. ASSUME NEW i \in 1 .. n PROVE ix[i] \in 0 .. (s[i] - 1)
    <3>1. PICK v, t : v = ix[i] /\ t = s[i]
      OBVIOUS
    <3>2. v \in Nat /\ t \in Nat \ {0} /\ v < t
      BY <1>2, <1>3, <2>1, <3>1
    <3>3. v \in 0 .. (t - 1)
      BY <3>2
    <3>4. QED
      BY <3>1, <3>3
  <2>3. QED
    BY <2>1, <2>2
<1>7. ASSUME DOMAIN ix = 1 .. n, ix = [i \in 1 .. n |-> ix[i]],
             \A i \in 1 .. n : ix[i] \in 0 .. (s[i] - 1)
      PROVE  ix \in Indices(s)
  <2>1. \A i \in 1 .. n : ix[i] \in V
    BY <1>4, <1>7
  <2>2. ix \in [1 .. n -> V]
    BY <1>7, <2>1
  <2>3. ASSUME NEW i \in 1 .. n PROVE ix[i] < s[i]
    <3>1. PICK v, t : v = ix[i] /\ t = s[i]
      OBVIOUS
    <3>2. v \in 0 .. (t - 1) /\ t \in Nat \ {0}
      BY <1>2, <1>7, <3>1
    <3>3. v < t
      BY <3>2
    <3>4. QED
      BY <3>1, <3>3
  <2>4. QED
    BY <1>5, <2>2, <2>3
<1>8. QED
  BY <1>1, <1>6, <1>7

Terms(ix, st) == [i \in DOMAIN ix |-> ix[i] * st[i]]

\* What an index adds to an offset from dimension k on.
Rest(ix, st, k, n) == Fold("sum", Terms(ix, st), k .. n)

\* One dimension of the offset.
LEMMA RestStep ==
    ASSUME NEW n \in Nat, NEW k \in 1 .. n, NEW ix, NEW st, DOMAIN ix = 1 .. n,
           \A i \in 1 .. n : ix[i] * st[i] \in Int
    PROVE  /\ Rest(ix, st, k, n) = ix[k] * st[k] + Rest(ix, st, k + 1, n)
           /\ Rest(ix, st, k + 1, n) \in Int
           /\ Rest(ix, st, n + 1, n) = 0
<1>1. PICK f : f = Terms(ix, st)
  OBVIOUS
<1>2. \A i \in 1 .. n : f[i] = ix[i] * st[i] /\ f[i] \in Int
  BY <1>1 DEF Terms
<1>3. PICK S, m : S = (k + 1) .. n /\ m = "sum"
  OBVIOUS
<1>4. m \in Modes
  BY <1>3 DEF Modes
<1>5. IsFiniteSet(S) /\ k \notin S /\ k .. n = S \cup {k} /\ \A y \in S \cup {k} : f[y] \in Int
  <2>1. IsFiniteSet((k + 1) .. n)
    BY FS_Interval
  <2>2. k .. n = ((k + 1) .. n) \cup {k} /\ k \notin (k + 1) .. n /\ k .. n \subseteq 1 .. n
    OBVIOUS
  <2>3. QED
    BY <1>2, <1>3, <2>1, <2>2
<1>6. Fold(m, f, S \cup {k}) = Join(m, f[k], Fold(m, f, S))
  BY <1>4, <1>5, FoldMore
<1>7. Fold(m, f, S) \in Int
  BY <1>4, <1>5, FoldVal
<1>8. Fold(m, f, {}) = 0
  BY <1>3, <1>4, FoldEmpty DEF Unit
<1>9. (n + 1) .. n = {}
  OBVIOUS
<1>10. Join(m, f[k], Fold(m, f, S)) = f[k] + Fold(m, f, S)
  BY <1>3 DEF Join
<1>11. QED
  BY <1>1, <1>2, <1>3, <1>5, <1>6, <1>7, <1>8, <1>9, <1>10 DEF Rest

\* An index of a tensor of shape s, and the strides of s.
Indexed(ix, st, s) == s \in Dimensions /\ Strided(st, s) /\ ix \in Indices(s)

\* What is known of an index and the strides.
LEMMA IndexedIs ==
    ASSUME NEW ix, NEW st, NEW s, Indexed(ix, st, s), NEW n, n = Len(s)
    PROVE  /\ n \in Nat \ {0} /\ DOMAIN ix = 1 .. n /\ DOMAIN st = 1 .. n /\ st[n] = 1
           /\ ix = [i \in 1 .. n |-> ix[i]]
           /\ \A i \in 1 .. n : /\ s[i] \in Nat \ {0} /\ st[i] \in Nat \ {0} /\ ix[i] \in 0 .. (s[i] - 1)
                                /\ ix[i] * st[i] \in Int
           /\ \A i \in 1 .. (n - 1) : st[i] = st[i + 1] * s[i + 1]
<1>1. s \in Dimensions /\ Strided(st, s) /\ ix \in Indices(s)
  BY DEF Indexed
<1>2. n \in Nat \ {0} /\ \A i \in 1 .. n : s[i] \in Nat \ {0}
  BY <1>1, DimensionsAre
<1>3. /\ DOMAIN ix = 1 .. n /\ ix = [i \in 1 .. n |-> ix[i]]
      /\ \A i \in 1 .. n : ix[i] \in 0 .. (s[i] - 1)
  BY <1>1, IndexIs
<1>4. /\ DOMAIN st = 1 .. n /\ st[n] = 1 /\ \A i \in 1 .. n : st[i] \in Nat \ {0}
      /\ \A i \in 1 .. (n - 1) : st[i] = st[i + 1] * s[i + 1]
  BY <1>1 DEF Strided
<1>5. ASSUME NEW i \in 1 .. n PROVE ix[i] * st[i] \in Int
  <2>1. PICK a, b, c : a = ix[i] /\ b = st[i] /\ c = s[i]
    OBVIOUS
  <2>2. a \in 0 .. (c - 1) /\ b \in Nat /\ c \in Nat
    BY <1>2, <1>3, <1>4, <2>1
  <2>3. a * b \in Int
    BY <2>2
  <2>4. QED
    BY <2>1, <2>3
<1>6. QED
  BY <1>2, <1>3, <1>4, <1>5

\* The dimensions after k address what one step of dimension k skips.
LEMMA RestBelow ==
    ASSUME NEW ix, NEW st, NEW s, Indexed(ix, st, s), NEW n, n = Len(s)
    PROVE  /\ \A k \in 1 .. n : Rest(ix, st, k + 1, n) \in 0 .. (st[k] - 1)
           /\ Rest(ix, st, 1, n) \in 0 .. (st[1] * s[1] - 1)
<1>1. /\ n \in Nat \ {0} /\ DOMAIN ix = 1 .. n /\ st[n] = 1
      /\ \A i \in 1 .. n : /\ s[i] \in Nat \ {0} /\ st[i] \in Nat \ {0} /\ ix[i] \in 0 .. (s[i] - 1)
                           /\ ix[i] * st[i] \in Int
      /\ \A i \in 1 .. (n - 1) : st[i] = st[i + 1] * s[i + 1]
  BY IndexedIs
<1>2. ASSUME NEW k \in 1 .. n
      PROVE  /\ Rest(ix, st, k, n) = ix[k] * st[k] + Rest(ix, st, k + 1, n)
             /\ Rest(ix, st, k + 1, n) \in Int
             /\ Rest(ix, st, n + 1, n) = 0
  BY <1>1, RestStep
<1>3. ASSUME NEW k \in 1 .. n, Rest(ix, st, k + 1, n) \in 0 .. (st[k] - 1)
      PROVE  Rest(ix, st, k, n) \in 0 .. (st[k] * s[k] - 1)
  <2>1. PICK a, b, c, r : a = ix[k] /\ b = st[k] /\ c = s[k] /\ r = Rest(ix, st, k + 1, n)
    OBVIOUS
  <2>2. b \in Nat \ {0} /\ c \in Nat \ {0} /\ a \in 0 .. (c - 1) /\ r \in 0 .. (b - 1)
    BY <1>1, <1>3, <2>1
  <2>3. a * b + r \in 0 .. (b * c - 1)
    <3>1. Split(a * b + r, b, a, r)
      BY <2>2 DEF Split
    <3>2. Below(a * b + r, b, a, c)
      BY <2>2, <3>1, SplitBelow
    <3>3. a * b + r \in Int /\ b * c = c * b /\ c * b \in Int
      BY <2>2
    <3>4. a * b + r < c * b /\ a * b + r >= 0
      BY <2>2, <3>2 DEF Below
    <3>5. QED
      BY <3>3, <3>4
  <2>4. QED
    BY <1>2, <2>1, <2>3
<1> DEFINE S == {j \in Nat : j <= n - 1 => Rest(ix, st, (n - j) + 1, n) \in 0 .. (st[n - j] - 1)}
<1>4. 0 \in S
  <2>1. n \in 1 .. n /\ n - 0 = n
    BY <1>1
  <2>2. Rest(ix, st, n + 1, n) = 0
    BY <1>2, <2>1
  <2>3. QED
    BY <1>1, <2>1, <2>2
<1>5. ASSUME NEW j \in Nat, j \in S PROVE j + 1 \in S
  <2>1. SUFFICES ASSUME j + 1 <= n - 1
                 PROVE  Rest(ix, st, (n - (j + 1)) + 1, n) \in 0 .. (st[n - (j + 1)] - 1)
    OBVIOUS
  <2>2. PICK k : k = n - j
    OBVIOUS
  <2>3. k \in 1 .. n /\ k - 1 \in 1 .. (n - 1) /\ n - (j + 1) = k - 1 /\ (k - 1) + 1 = k
    BY <1>1, <2>1, <2>2
  <2>4. Rest(ix, st, k + 1, n) \in 0 .. (st[k] - 1)
    BY <1>5, <2>1, <2>2
  <2>5. Rest(ix, st, k, n) \in 0 .. (st[k] * s[k] - 1)
    BY <1>3, <2>3, <2>4
  <2>6. st[k - 1] = st[k] * s[k]
    BY <1>1, <2>3
  <2>7. QED
    BY <2>3, <2>5, <2>6
<1>6. \A j \in Nat : j \in S
  <2> HIDE DEF S
  <2>1. QED
    BY <1>4, <1>5, NatInduct
<1>7. ASSUME NEW k \in 1 .. n PROVE Rest(ix, st, k + 1, n) \in 0 .. (st[k] - 1)
  <2>1. n - k \in Nat /\ n - k <= n - 1 /\ n - (n - k) = k
    BY <1>1
  <2>2. n - k \in S
    BY <1>6, <2>1
  <2>3. QED
    BY <2>1, <2>2
<1>8. 1 \in 1 .. n
  BY <1>1
<1>9. QED
  BY <1>3, <1>7, <1>8

\* The offset, from the first dimension on.
LEMMA OffsetIs ==
    ASSUME NEW ix, NEW st, NEW n, DOMAIN ix = 1 .. n
    PROVE  Offset(ix, st) = Rest(ix, st, 1, n)
BY DEF Offset, Rest, Terms, Fold

\* Row-major order is the order of offsets.
LEMMA OffsetOrder ==
    ASSUME NEW ix, NEW jx, NEW st, NEW s, Indexed(ix, st, s), Indexed(jx, st, s), Before(jx, ix)
    PROVE  Offset(jx, st) < Offset(ix, st)
<1>1. PICK n : n = Len(s)
  OBVIOUS
<1>2. /\ n \in Nat \ {0} /\ DOMAIN ix = 1 .. n /\ DOMAIN jx = 1 .. n
      /\ \A i \in 1 .. n : /\ s[i] \in Nat \ {0} /\ st[i] \in Nat \ {0}
                           /\ ix[i] \in 0 .. (s[i] - 1) /\ jx[i] \in 0 .. (s[i] - 1)
                           /\ ix[i] * st[i] \in Int /\ jx[i] * st[i] \in Int
  BY <1>1, IndexedIs
<1>3. PICK d \in 1 .. n : jx[d] < ix[d] /\ \A e \in 1 .. (d - 1) : jx[e] = ix[e]
  BY <1>2 DEF Before
<1>4. ASSUME NEW x \in {ix, jx}
      PROVE  /\ Rest(x, st, 1, n) = Fold("sum", Terms(x, st), 1 .. (d - 1)) + Rest(x, st, d, n)
             /\ Fold("sum", Terms(x, st), 1 .. (d - 1)) \in Int
             /\ Rest(x, st, d, n) = x[d] * st[d] + Rest(x, st, d + 1, n)
             /\ Rest(x, st, d + 1, n) \in 0 .. (st[d] - 1)
  <2>1. DOMAIN x = 1 .. n /\ Indexed(x, st, s) /\ \A i \in 1 .. n : x[i] * st[i] \in Int
    BY <1>2, <1>4
  <2>2. PICK f, A, B, m : f = Terms(x, st) /\ A = 1 .. (d - 1) /\ B = d .. n /\ m = "sum"
    OBVIOUS
  <2>3. \A i \in 1 .. n : f[i] \in Int
    BY <2>1, <2>2 DEF Terms
  <2>4. IsFiniteSet(A) /\ IsFiniteSet(B) /\ A \cap B = {} /\ A \cup B = 1 .. n
    <3>1. IsFiniteSet(1 .. (d - 1)) /\ IsFiniteSet(d .. n)
      <4>1. PICK c : c = d - 1
        OBVIOUS
      <4>2. 1 \in Int /\ c \in Int /\ d \in Int /\ n \in Int
        BY <1>2, <4>1
      <4>3. IsFiniteSet(1 .. c) /\ IsFiniteSet(d .. n)
        BY <4>2, FS_Interval
      <4>4. QED
        BY <4>1, <4>3
    <3>2. (1 .. (d - 1)) \cap (d .. n) = {} /\ (1 .. (d - 1)) \cup (d .. n) = 1 .. n
      BY <1>2
    <3>3. QED
      BY <2>2, <3>1, <3>2
  <2>5. m \in Modes
    BY <2>2 DEF Modes
  <2>6. Fold(m, f, A \cup B) = Join(m, Fold(m, f, A), Fold(m, f, B))
    BY <2>3, <2>4, <2>5, FoldUnion
  <2>7. Fold(m, f, A) \in Int
    BY <2>3, <2>4, <2>5, FoldVal
  <2>8. Fold(m, f, 1 .. n) = Fold(m, f, A) + Fold(m, f, B)
    BY <2>2, <2>4, <2>6 DEF Join
  <2>9. Rest(x, st, d, n) = x[d] * st[d] + Rest(x, st, d + 1, n)
    BY <1>2, <2>1, RestStep
  <2>10. Rest(x, st, d + 1, n) \in 0 .. (st[d] - 1)
    BY <1>1, <2>1, RestBelow
  <2>11. QED
    BY <2>2, <2>7, <2>8, <2>9, <2>10 DEF Rest
<1>5. Fold("sum", Terms(jx, st), 1 .. (d - 1)) = Fold("sum", Terms(ix, st), 1 .. (d - 1))
  <2>1. PICK f, h, A, m : f = Terms(jx, st) /\ h = Terms(ix, st) /\ A = 1 .. (d - 1) /\ m = "sum"
    OBVIOUS
  <2>2. IsFiniteSet(1 .. (d - 1))
    BY FS_Interval
  <2>3. \A x \in A : f[x] = h[x]
    BY <1>2, <1>3, <2>1 DEF Terms
  <2>4. m \in Modes /\ IsFiniteSet(A)
    BY <2>1, <2>2 DEF Modes
  <2>5. Fold(m, f, A) = Fold(m, h, A)
    BY <2>3, <2>4, FoldAgree
  <2>6. QED
    BY <2>1, <2>5
<1>6. PICK a, b, c, q, r, t : a = jx[d] /\ b = ix[d] /\ c = st[d] /\ q = Rest(jx, st, d + 1, n)
                              /\ r = Rest(ix, st, d + 1, n) /\ t = Fold("sum", Terms(ix, st), 1 .. (d - 1))
  OBVIOUS
<1>7. a \in Nat /\ b \in Nat /\ a < b /\ c \in Nat \ {0} /\ q \in 0 .. (c - 1) /\ r \in 0 .. (c - 1) /\ t \in Int
  <2>1. a \in Nat /\ b \in Nat
    <3>1. PICK u : u = s[d]
      OBVIOUS
    <3>2. u \in Nat /\ a \in 0 .. (u - 1) /\ b \in 0 .. (u - 1)
      BY <1>2, <1>6, <3>1
    <3>3. QED
      BY <3>2
  <2>2. QED
    BY <1>2, <1>3, <1>4, <1>6, <2>1
<1>8. a * c + q < b * c + r
  <2>1. PICK e \in Nat : b = a + 1 + e
    <3>1. b - (a + 1) \in Nat /\ b = a + 1 + (b - (a + 1))
      BY <1>7
    <3>2. QED
      BY <3>1
  <2>2. b * c = a * c + c + e * c /\ e * c \in Nat /\ a * c \in Nat /\ b * c \in Nat
    BY <1>7, <2>1
  <2>3. QED
    BY <1>7, <2>2
<1>9. t + (a * c + q) < t + (b * c + r)
  <2>1. a * c + q \in Int /\ b * c + r \in Int
    BY <1>7
  <2>2. QED
    BY <1>7, <1>8, <2>1
<1>10. Offset(jx, st) = t + (a * c + q) /\ Offset(ix, st) = t + (b * c + r)
  BY <1>2, <1>4, <1>5, <1>6, OffsetIs
<1>11. QED
  BY <1>9, <1>10

\* Of two indices one comes first.
LEMMA BeforeTotal ==
    ASSUME NEW ix, NEW jx, NEW st, NEW s, Indexed(ix, st, s), Indexed(jx, st, s), jx # ix
    PROVE  Before(jx, ix) \/ Before(ix, jx)
<1>1. PICK n : n = Len(s)
  OBVIOUS
<1>2. /\ n \in Nat \ {0} /\ DOMAIN ix = 1 .. n /\ DOMAIN jx = 1 .. n
      /\ ix = [i \in 1 .. n |-> ix[i]] /\ jx = [i \in 1 .. n |-> jx[i]]
      /\ \A i \in 1 .. n : /\ s[i] \in Nat \ {0} /\ ix[i] \in 0 .. (s[i] - 1) /\ jx[i] \in 0 .. (s[i] - 1)
  BY <1>1, IndexedIs
<1>3. SUFFICES ASSUME ~Before(jx, ix), ~Before(ix, jx) PROVE FALSE
  OBVIOUS
<1> DEFINE S == {k \in Nat : \A e \in 1 .. k : e <= n => jx[e] = ix[e]}
<1>4. 0 \in S
  OBVIOUS
<1>5. ASSUME NEW k \in Nat, k \in S PROVE k + 1 \in S
  <2>1. SUFFICES ASSUME k + 1 <= n PROVE jx[k + 1] = ix[k + 1]
    BY <1>5
  <2>2. PICK d, a, b : d = k + 1 /\ a = jx[d] /\ b = ix[d]
    OBVIOUS
  <2>3. d \in 1 .. n /\ \A e \in 1 .. (d - 1) : jx[e] = ix[e] /\ ix[e] = jx[e]
    <3>1. \A e \in 1 .. k : e <= n => jx[e] = ix[e]
      BY <1>5
    <3>2. d \in 1 .. n /\ d - 1 = k /\ \A e \in 1 .. k : e <= n
      <4>1. n \in Int
        BY <1>2
      <4>2. QED
        BY <2>1, <2>2, <4>1
    <3>3. QED
      BY <3>1, <3>2
  <2>4. ~(a < b) /\ ~(b < a)
    BY <1>2, <1>3, <2>2, <2>3 DEF Before
  <2>5. a \in Int /\ b \in Int
    <3>1. PICK u : u = s[d]
      OBVIOUS
    <3>2. u \in Nat /\ a \in 0 .. (u - 1) /\ b \in 0 .. (u - 1)
      BY <1>2, <2>2, <2>3, <3>1
    <3>3. QED
      BY <3>2
  <2>6. QED
    BY <2>2, <2>4, <2>5
<1>6. \A k \in Nat : k \in S
  <2> HIDE DEF S
  <2>1. QED
    BY <1>4, <1>5, NatInduct
<1>7. \A e \in 1 .. n : jx[e] = ix[e]
  <2>1. n \in S
    BY <1>2, <1>6
  <2>2. QED
    BY <1>2, <2>1
<1>8. QED
  BY <1>2, <1>7

\* The index at offset v.
Digits(v, st, s) == [i \in 1 .. Len(s) |-> (v \div st[i]) % s[i]]

\* Every offset has its index.
LEMMA DigitsIs ==
    ASSUME NEW s \in Dimensions, NEW st, Strided(st, s), NEW v \in 0 .. (st[1] * s[1] - 1)
    PROVE  Indexed(Digits(v, st, s), st, s) /\ Offset(Digits(v, st, s), st) = v
<1>1. PICK n, ix : n = Len(s) /\ ix = Digits(v, st, s)
  OBVIOUS
<1>2. /\ n \in Nat \ {0} /\ \A i \in 1 .. n : s[i] \in Nat \ {0}
      /\ st[n] = 1 /\ \A i \in 1 .. n : st[i] \in Nat \ {0}
      /\ \A i \in 1 .. (n - 1) : st[i] = st[i + 1] * s[i + 1]
  BY <1>1, DimensionsAre DEF Strided
<1>3. /\ DOMAIN ix = 1 .. n /\ ix = [i \in 1 .. n |-> ix[i]]
      /\ \A i \in 1 .. n : ix[i] = (v \div st[i]) % s[i]
  BY <1>1 DEF Digits
<1>4. v \in Int /\ v \in Nat
  <2>1. PICK a : a = st[1] * s[1]
    OBVIOUS
  <2>2. v \in 0 .. (a - 1)
    BY <2>1
  <2>3. QED
    BY <2>2
<1>5. ASSUME NEW k \in 1 .. n
      PROVE  /\ ix[k] \in 0 .. (s[k] - 1)
             /\ v % (st[k] * s[k]) = ix[k] * st[k] + (v % st[k])
  <2>1. PICK a, b, x, r, y, c : /\ a = st[k] /\ b = s[k] /\ x = v \div a /\ r = v % a
                                /\ y = x \div b /\ c = x % b
    OBVIOUS
  <2>2. a \in Nat \ {0} /\ b \in Nat \ {0}
    BY <1>2, <2>1
  <2>3. Split(v, a, x, r) /\ x \in Int
    BY <1>4, <2>1, <2>2, SplitHas
  <2>4. Split(x, b, y, c) /\ c \in 0 .. (b - 1)
    BY <2>1, <2>2, <2>3, SplitHas
  <2>5. Split(v, a * b, y, c * a + r)
    BY <2>2, <2>3, <2>4, SplitTwice
  <2>6. PICK p, z : p = a * b /\ z = c * a + r
    OBVIOUS
  <2>7. p \in Nat \ {0}
    BY <2>2, <2>6
  <2>8. v % p = z
    BY <2>5, <2>6, <2>7, SplitIs
  <2>9. ix[k] = c
    BY <1>3, <2>1
  <2>10. QED
    BY <2>1, <2>4, <2>6, <2>8, <2>9
<1>6. Indexed(ix, st, s)
  <2>1. ix \in Indices(s)
    BY <1>1, <1>3, <1>5, IndexIs
  <2>2. QED
    BY <2>1 DEF Indexed
<1>7. ASSUME NEW k \in 1 .. n
      PROVE  /\ Rest(ix, st, k, n) = ix[k] * st[k] + Rest(ix, st, k + 1, n)
             /\ Rest(ix, st, n + 1, n) = 0
  <2>1. \A i \in 1 .. n : ix[i] * st[i] \in Int
    BY <1>1, <1>6, IndexedIs
  <2>2. QED
    BY <1>2, <1>3, <2>1, RestStep
<1>8. ASSUME NEW k \in 1 .. n, Rest(ix, st, k + 1, n) = v % st[k]
      PROVE  Rest(ix, st, k, n) = v % (st[k] * s[k])
  BY <1>5, <1>7, <1>8
<1> DEFINE S == {j \in Nat : j <= n - 1 => Rest(ix, st, (n - j) + 1, n) = v % st[n - j]}
<1>9. 0 \in S
  <2>1. n \in 1 .. n /\ n - 0 = n /\ v % 1 = 0
    BY <1>2, <1>4
  <2>2. Rest(ix, st, n + 1, n) = 0
    BY <1>7, <2>1
  <2>3. QED
    BY <1>2, <2>1, <2>2
<1>10. ASSUME NEW j \in Nat, j \in S PROVE j + 1 \in S
  <2>1. SUFFICES ASSUME j + 1 <= n - 1
                 PROVE  Rest(ix, st, (n - (j + 1)) + 1, n) = v % st[n - (j + 1)]
    OBVIOUS
  <2>2. PICK k : k = n - j
    OBVIOUS
  <2>3. k \in 1 .. n /\ k - 1 \in 1 .. (n - 1) /\ n - (j + 1) = k - 1 /\ (k - 1) + 1 = k
    BY <1>2, <2>1, <2>2
  <2>4. Rest(ix, st, k + 1, n) = v % st[k]
    <3>1. j <= n - 1
      BY <1>2, <2>1
    <3>2. QED
      BY <1>10, <2>2, <3>1
  <2>5. Rest(ix, st, k, n) = v % (st[k] * s[k])
    BY <1>8, <2>3, <2>4
  <2>6. st[k - 1] = st[k] * s[k]
    BY <1>2, <2>3
  <2>7. QED
    BY <2>3, <2>5, <2>6
<1>11. \A j \in Nat : j \in S
  <2> HIDE DEF S
  <2>1. QED
    BY <1>9, <1>10, NatInduct
<1>12. Rest(ix, st, 1 + 1, n) = v % st[1]
  <2>1. n - 1 \in Nat /\ n - 1 <= n - 1 /\ n - (n - 1) = 1
    BY <1>2
  <2>2. n - 1 \in S
    BY <1>11, <2>1
  <2>3. QED
    BY <2>1, <2>2
<1>13. Rest(ix, st, 1, n) = v % (st[1] * s[1])
  <2>1. 1 \in 1 .. n
    BY <1>2
  <2>2. QED
    BY <1>8, <1>12, <2>1
<1>14. v % (st[1] * s[1]) = v
  <2>1. PICK a, b, p : a = st[1] /\ b = s[1] /\ p = a * b
    OBVIOUS
  <2>2. 1 \in 1 .. n
    BY <1>2
  <2>3. a \in Nat \ {0} /\ b \in Nat \ {0}
    BY <1>2, <2>1, <2>2
  <2>4. p \in Nat \ {0}
    BY <2>1, <2>3
  <2>5. Split(v, p, 0, v)
    BY <1>4, <2>1, <2>4 DEF Split
  <2>6. v % p = v
    BY <2>4, <2>5, SplitIs
  <2>7. QED
    BY <2>1, <2>6
<1>15. Offset(ix, st) = Rest(ix, st, 1, n)
  BY <1>3, OffsetIs
<1>16. QED
  BY <1>1, <1>6, <1>13, <1>14, <1>15

\* The strides address every element in row-major order.
LEMMA AddressIs ==
    ASSUME NEW ix, NEW st, NEW s, Indexed(ix, st, s)
    PROVE  Address(ix, s) = Offset(ix, st)
<1>1. PICK A, m : A = {jx \in Indices(s) : Before(jx, ix)} /\ m = Offset(ix, st)
  OBVIOUS
<1>2. s \in Dimensions /\ Strided(st, s)
  BY DEF Indexed
<1>3. PICK P : P = st[1] * s[1]
  OBVIOUS
<1>4. ASSUME NEW jx, Indexed(jx, st, s) PROVE Offset(jx, st) \in 0 .. (P - 1)
  <2>1. PICK n : n = Len(s)
    OBVIOUS
  <2>2. DOMAIN jx = 1 .. n
    BY <1>4, <2>1, IndexedIs
  <2>3. Rest(jx, st, 1, n) \in 0 .. (P - 1)
    BY <1>3, <1>4, <2>1, RestBelow
  <2>4. QED
    BY <2>2, <2>3, OffsetIs
<1>5. m \in 0 .. (P - 1) /\ P \in Int
  <2>1. P \in Int
    <3>1. PICK n : n = Len(s)
      OBVIOUS
    <3>2. n \in Nat \ {0} /\ \A i \in 1 .. n : s[i] \in Nat \ {0} /\ st[i] \in Nat \ {0}
      BY <3>1, IndexedIs
    <3>3. s[1] \in Nat /\ st[1] \in Nat
      BY <3>2
    <3>4. QED
      BY <1>3, <3>3
  <2>2. QED
    BY <1>1, <1>4, <2>1
<1>6. ASSUME NEW v \in 0 .. (P - 1) PROVE Indexed(Digits(v, st, s), st, s) /\ Offset(Digits(v, st, s), st) = v
  BY <1>2, <1>3, DigitsIs
<1>7. ASSUME NEW jx, Indexed(jx, st, s), NEW kx, Indexed(kx, st, s), Offset(jx, st) = Offset(kx, st)
      PROVE  jx = kx
  <2>1. SUFFICES ASSUME jx # kx PROVE FALSE
    OBVIOUS
  <2>2. Before(jx, kx) \/ Before(kx, jx)
    BY <1>7, <2>1, BeforeTotal
  <2>3. PICK a, b : a = Offset(jx, st) /\ b = Offset(kx, st)
    OBVIOUS
  <2>4. a < b \/ b < a
    BY <1>7, <2>2, <2>3, OffsetOrder
  <2>5. a \in Int /\ a = b
    BY <1>4, <1>5, <1>7, <2>3
  <2>6. QED
    BY <2>4, <2>5
<1>8. ASSUME NEW v \in 0 .. (m - 1) PROVE Digits(v, st, s) \in A
  <2>1. v \in 0 .. (P - 1) /\ v \in Int /\ v < m
    BY <1>5
  <2>2. PICK jx : jx = Digits(v, st, s)
    OBVIOUS
  <2>3. Indexed(jx, st, s) /\ Offset(jx, st) = v
    BY <1>6, <2>1, <2>2
  <2>4. jx # ix
    BY <1>1, <2>1, <2>3
  <2>5. Before(jx, ix) \/ Before(ix, jx)
    BY <2>3, <2>4, BeforeTotal
  <2>6. ~Before(ix, jx)
    <3>1. SUFFICES ASSUME Before(ix, jx) PROVE FALSE
      OBVIOUS
    <3>2. m < v
      BY <1>1, <2>3, <3>1, OffsetOrder
    <3>3. QED
      BY <1>5, <2>1, <3>2
  <2>7. jx \in Indices(s)
    BY <2>3 DEF Indexed
  <2>8. QED
    BY <1>1, <2>2, <2>5, <2>6, <2>7
<1>9. ASSUME NEW jx \in A
      PROVE  Indexed(jx, st, s) /\ Offset(jx, st) \in 0 .. (m - 1) /\ Digits(Offset(jx, st), st, s) = jx
  <2>1. Indexed(jx, st, s) /\ Before(jx, ix)
    BY <1>1, <1>2 DEF Indexed
  <2>2. PICK v : v = Offset(jx, st)
    OBVIOUS
  <2>3. v \in 0 .. (P - 1) /\ v < m
    BY <1>1, <1>4, <2>1, <2>2, OffsetOrder
  <2>4. v \in 0 .. (m - 1)
    BY <1>5, <2>3
  <2>5. Digits(v, st, s) = jx
    BY <1>6, <1>7, <2>1, <2>2, <2>3
  <2>6. QED
    BY <2>1, <2>2, <2>4, <2>5
<1> DEFINE g == [v \in 0 .. (m - 1) |-> Digits(v, st, s)]
<1>10. g \in Bijection(0 .. (m - 1), A)
  <2>1. g \in [0 .. (m - 1) -> A]
    BY <1>8
  <2>2. ASSUME NEW v \in 0 .. (m - 1), NEW u \in 0 .. (m - 1), g[v] = g[u] PROVE v = u
    <3>1. v \in 0 .. (P - 1) /\ u \in 0 .. (P - 1)
      BY <1>5
    <3>2. Digits(v, st, s) = Digits(u, st, s)
      BY <2>2
    <3>3. Offset(Digits(v, st, s), st) = v /\ Offset(Digits(u, st, s), st) = u
      BY <1>6, <3>1
    <3>4. QED
      BY <3>2, <3>3
  <2>3. ASSUME NEW jx \in A PROVE \E v \in 0 .. (m - 1) : g[v] = jx
    BY <1>9
  <2> HIDE DEF g
  <2>4. QED
    BY <2>1, <2>2, <2>3 DEF Bijection, Injection, IsInjective, Surjection
<1>11. ExistsBijection(0 .. (m - 1), A)
  BY <1>10 DEF ExistsBijection
<1>12. IsFiniteSet(0 .. (m - 1)) /\ Cardinality(0 .. (m - 1)) = m
  BY <1>5, FS_Interval
<1>13. Cardinality(A) = m
  BY <1>11, <1>12, FS_Bijection
<1>14. QED
  BY <1>1, <1>13 DEF Address

-----------------------------------------------------------------------------
(* Views                                                                   *)

\* A reshaped view leads to its own elements in row-major order.
LEMMA ReshapeIs ==
    ASSUME NEW s \in Dimensions
    PROVE  \A ix \in Indices(s) : ViewOf(s, Strides(s), 0)[ix] = Address(ix, s)
<1> SUFFICES ASSUME NEW ix \in Indices(s) PROVE ViewOf(s, Strides(s), 0)[ix] = Address(ix, s)
  OBVIOUS
<1>1. PICK st : st = Strides(s)
  OBVIOUS
<1>2. Indexed(ix, st, s)
  BY <1>1, StridesAre DEF Indexed
<1>3. Address(ix, s) = Offset(ix, st)
  BY <1>2, AddressIs
<1>4. Offset(ix, st) \in Int
  <2>1. PICK n : n = Len(s)
    OBVIOUS
  <2>2. DOMAIN ix = 1 .. n
    BY <1>2, <2>1, IndexedIs
  <2>3. Rest(ix, st, 1, n) \in 0 .. (st[1] * s[1] - 1)
    BY <1>2, <2>1, RestBelow
  <2>4. PICK p : p = st[1] * s[1] - 1
    OBVIOUS
  <2>5. Rest(ix, st, 1, n) \in 0 .. p
    BY <2>3, <2>4
  <2>6. QED
    BY <2>2, <2>5, OffsetIs
<1>5. ViewOf(s, Strides(s), 0)[ix] = 0 + Offset(ix, st)
  BY <1>1 DEF ViewOf
<1>6. PICK v : v = Offset(ix, st)
  OBVIOUS
<1>7. 0 + v = v
  BY <1>4, <1>6
<1>8. QED
  BY <1>3, <1>5, <1>6, <1>7

Swapped(x, i, j, y, n) ==
    /\ DOMAIN y = 1 .. n /\ y = [k \in 1 .. n |-> y[k]]
    /\ \A k \in 1 .. n : y[k] = IF k = i THEN x[j] ELSE IF k = j THEN x[i] ELSE x[k]

\* What a swap gives.
LEMMA SwapIs ==
    ASSUME NEW n \in Nat, NEW x, DOMAIN x = 1 .. n, NEW i \in 1 .. n, NEW j \in 1 .. n
    PROVE  Swapped(x, i, j, Swap(x, i, j), n)
BY DEF Swapped, Swap

Swaps(ix, jx, st, tt, i, j, n) ==
    /\ n \in Nat /\ i \in 1 .. n /\ j \in 1 .. n /\ DOMAIN ix = 1 .. n /\ DOMAIN st = 1 .. n
    /\ Swapped(ix, i, j, jx, n) /\ Swapped(st, i, j, tt, n)
    /\ \A k \in 1 .. n : ix[k] \in Int /\ st[k] \in Int

\* Swapping two strides is swapping the indices.
LEMMA SwapOffset ==
    ASSUME NEW n, NEW i, NEW j, NEW ix, NEW jx, NEW st, NEW tt, Swaps(ix, jx, st, tt, i, j, n)
    PROVE  Offset(ix, tt) = Offset(jx, st)
<1> DEFINE pi == [k \in 1 .. n |-> IF k = i THEN j ELSE IF k = j THEN i ELSE k]
           P == [k \in 1 .. n |-> {pi[k]}]
           S == 1 .. n
<1>0. /\ n \in Nat /\ i \in 1 .. n /\ j \in 1 .. n /\ DOMAIN ix = 1 .. n /\ DOMAIN st = 1 .. n
      /\ Swapped(ix, i, j, jx, n) /\ Swapped(st, i, j, tt, n)
      /\ \A k \in 1 .. n : ix[k] \in Int /\ st[k] \in Int
  BY DEF Swaps
<1>1. PICK f, h, m : f = Terms(ix, tt) /\ h = Terms(jx, st) /\ m = "sum"
  OBVIOUS
<1>2. \A k \in S : pi[k] \in S /\ pi[pi[k]] = k /\ P[k] = {pi[k]}
  BY <1>0
<1>3. DOMAIN jx = S /\ \A k \in S : jx[k] = ix[pi[k]] /\ tt[k] = st[pi[k]]
  BY <1>0 DEF Swapped
<1> HIDE DEF pi, P
<1>4. \A k \in S : f[k] = ix[k] * st[pi[k]] /\ h[k] = ix[pi[k]] * st[k]
  BY <1>0, <1>1, <1>3 DEF Terms
<1>5. ASSUME NEW k \in S PROVE f[k] \in Int
  <2>1. PICK a, b : a = ix[k] /\ b = st[pi[k]]
    OBVIOUS
  <2>2. a \in Int /\ b \in Int
    BY <1>0, <1>2, <2>1
  <2>3. a * b \in Int
    BY <2>2
  <2>4. QED
    BY <1>4, <2>1, <2>3
<1>6. ASSUME NEW k \in S PROVE h[k] = f[pi[k]]
  BY <1>2, <1>4
<1>7. m \in Modes
  BY <1>1 DEF Modes
<1>8. ASSUME NEW k \in S PROVE IsFiniteSet(P[k]) /\ h[k] = Fold(m, f, P[k])
  <2>1. PICK x : x = pi[k]
    OBVIOUS
  <2>2. x \in S /\ f[x] \in Int
    BY <1>2, <1>5, <2>1
  <2>3. Fold(m, f, {x}) = Join(m, f[x], Unit(m))
    BY <1>7, <2>2, FoldOne
  <2>4. Join(m, f[x], Unit(m)) = f[x]
    BY <1>1, <2>2 DEF Join, Unit
  <2>5. IsFiniteSet({x})
    BY FS_Singleton
  <2>6. QED
    BY <1>2, <1>6, <2>1, <2>3, <2>4, <2>5
<1>9. CutUp(m, S, P, f, S, h)
  <2>1. IsFiniteSet(S)
    BY <1>0, FS_Interval
  <2>2. \A k \in S : P[k] \subseteq S
    BY <1>2
  <2>3. \A x \in S : \E k \in S : x \in P[k]
    <3>1. SUFFICES ASSUME NEW x \in S PROVE x \in P[pi[x]] /\ pi[x] \in S
      OBVIOUS
    <3>2. QED
      BY <1>2
  <2>4. \A k, l \in S : k # l => P[k] \cap P[l] = {}
    BY <1>2
  <2>5. QED
    BY <1>5, <1>8, <2>1, <2>2, <2>3, <2>4 DEF CutUp
<1> HIDE DEF S
<1>10. Fold(m, h, S) = Fold(m, f, S)
  BY <1>7, <1>9, FoldCutUp
<1>11. QED
  BY <1>0, <1>1, <1>3, <1>10 DEF Offset, Terms, Fold, S

\* A transposed view leads to the elements of the swapped indices.
LEMMA TransposeIs ==
    ASSUME NEW s \in Dimensions, NEW i \in DOMAIN s, NEW j \in DOMAIN s
    PROVE  \A ix \in Indices(Swap(s, i, j)) :
             ViewOf(Swap(s, i, j), Swap(Strides(s), i, j), 0)[ix] = Address(Swap(ix, i, j), s)
<1>1. PICK n, st, sw, tt : n = Len(s) /\ st = Strides(s) /\ sw = Swap(s, i, j) /\ tt = Swap(st, i, j)
  OBVIOUS
<1>2. n \in Nat \ {0} /\ DOMAIN s = 1 .. n /\ \A k \in 1 .. n : s[k] \in Nat \ {0}
  BY <1>1, DimensionsAre DEF Dimensions
<1>3. Strided(st, s)
  BY <1>1, StridesAre
<1>4. DOMAIN st = 1 .. n /\ \A k \in 1 .. n : st[k] \in Nat \ {0}
  BY <1>1, <1>3 DEF Strided
<1>5. Swapped(s, i, j, sw, n) /\ Swapped(st, i, j, tt, n)
  BY <1>1, <1>2, <1>4, SwapIs
<1>6. sw \in Dimensions /\ Len(sw) = n
  <2>1. DOMAIN sw = 1 .. n /\ sw = [k \in 1 .. n |-> sw[k]] /\ \A k \in 1 .. n : sw[k] \in Nat \ {0}
    BY <1>2, <1>5 DEF Swapped
  <2>2. sw \in [1 .. n -> Nat \ {0}]
    BY <2>1
  <2>3. sw \in Seq(Nat \ {0}) /\ Len(sw) = n
    BY <1>2, <2>2
  <2>4. sw # << >>
    BY <1>2, <2>3
  <2>5. QED
    BY <2>3, <2>4 DEF Dimensions
<1>7. ASSUME NEW ix \in Indices(sw) PROVE ViewOf(sw, tt, 0)[ix] = Address(Swap(ix, i, j), s)
  <2>1. PICK jx : jx = Swap(ix, i, j)
    OBVIOUS
  <2>2. /\ DOMAIN ix = 1 .. n /\ \A k \in 1 .. n : ix[k] \in 0 .. (sw[k] - 1)
    BY <1>6, IndexIs
  <2>3. Swapped(ix, i, j, jx, n)
    BY <1>2, <2>1, <2>2, SwapIs
  <2>4. jx \in Indices(s)
    <3>1. DOMAIN jx = 1 .. n /\ jx = [k \in 1 .. n |-> jx[k]]
      BY <2>3 DEF Swapped
    <3>2. ASSUME NEW k \in 1 .. n PROVE jx[k] \in 0 .. (s[k] - 1)
      <4>1. PICK l : l = IF k = i THEN j ELSE IF k = j THEN i ELSE k
        OBVIOUS
      <4>2. l \in 1 .. n /\ jx[k] = ix[l] /\ sw[l] = s[k]
        BY <1>2, <1>5, <2>3, <4>1 DEF Swapped
      <4>3. ix[l] \in 0 .. (sw[l] - 1)
        BY <2>2, <4>2
      <4>4. QED
        BY <4>2, <4>3
    <3>3. QED
      BY <1>1, <3>1, <3>2, IndexIs
  <2>5. Indexed(jx, st, s)
    BY <1>3, <2>4 DEF Indexed
  <2>6. Address(jx, s) = Offset(jx, st)
    BY <2>5, AddressIs
  <2>7. \A k \in 1 .. n : ix[k] \in Int /\ st[k] \in Int
    <3>1. SUFFICES ASSUME NEW k \in 1 .. n PROVE ix[k] \in Int /\ st[k] \in Int
      OBVIOUS
    <3>2. PICK u : u = sw[k] - 1
      OBVIOUS
    <3>3. ix[k] \in 0 .. u
      BY <2>2, <3>2
    <3>4. QED
      BY <1>4, <3>3
  <2>8. Offset(ix, tt) = Offset(jx, st)
    <3>1. n \in Nat /\ i \in 1 .. n /\ j \in 1 .. n
      BY <1>2
    <3>2. DOMAIN ix = 1 .. n /\ DOMAIN st = 1 .. n
      BY <1>4, <2>2
    <3>3. QED
      BY <1>5, <2>3, <2>7, <3>1, <3>2, SwapOffset DEF Swaps
  <2>9. PICK v : v = Offset(jx, st)
    OBVIOUS
  <2>10. v \in Int
    <3>1. DOMAIN jx = 1 .. n
      BY <2>3 DEF Swapped
    <3>2. PICK p : p = st[1] * s[1] - 1
      OBVIOUS
    <3>3. Rest(jx, st, 1, n) \in 0 .. p
      BY <1>1, <2>5, <3>2, RestBelow
    <3>4. QED
      BY <2>9, <3>1, <3>3, OffsetIs
  <2>11. ViewOf(sw, tt, 0)[ix] = 0 + Offset(ix, tt)
    BY DEF ViewOf
  <2>12. 0 + v = v
    BY <2>10
  <2>13. QED
    BY <2>1, <2>6, <2>8, <2>9, <2>11, <2>12
<1>8. QED
  BY <1>1, <1>7

\* An index moved on by a in dimension d.
Shifted(ix, jx, d, a, n) ==
    /\ DOMAIN ix = 1 .. n /\ DOMAIN jx = 1 .. n
    /\ \A k \in 1 .. n : ix[k] \in Int /\ jx[k] = IF k = d THEN ix[d] + a ELSE ix[k]

\* The offset moves on by as many strides.
LEMMA ShiftOffset ==
    ASSUME NEW n \in Nat, NEW d \in 1 .. n, NEW a \in Int, NEW ix, NEW jx, Shifted(ix, jx, d, a, n),
           NEW st, \A k \in 1 .. n : st[k] \in Int
    PROVE  Offset(jx, st) = a * st[d] + Offset(ix, st) /\ Offset(ix, st) \in Int
<1>0. /\ DOMAIN ix = 1 .. n /\ DOMAIN jx = 1 .. n
      /\ \A k \in 1 .. n : ix[k] \in Int /\ jx[k] = IF k = d THEN ix[d] + a ELSE ix[k]
  BY DEF Shifted
<1>1. PICK f, h, m, S : f = Terms(ix, st) /\ h = Terms(jx, st) /\ m = "sum" /\ S = (1 .. n) \ {d}
  OBVIOUS
<1>2. \A k \in 1 .. n : f[k] = ix[k] * st[k] /\ h[k] = jx[k] * st[k]
  BY <1>0, <1>1 DEF Terms
<1>3. ASSUME NEW k \in 1 .. n PROVE f[k] \in Int /\ h[k] \in Int
  <2>1. PICK x, y, z : x = ix[k] /\ y = st[k] /\ z = jx[k]
    OBVIOUS
  <2>2. x \in Int /\ y \in Int /\ z \in Int
    BY <1>0, <2>1
  <2>3. x * y \in Int /\ z * y \in Int
    BY <2>2
  <2>4. QED
    BY <1>2, <2>1, <2>3
<1>4. \A k \in S : f[k] = h[k]
  BY <1>0, <1>1, <1>2
<1>5. IsFiniteSet(S) /\ d \notin S /\ 1 .. n = S \cup {d}
  <2>1. IsFiniteSet(1 .. n)
    BY FS_Interval
  <2>2. (1 .. n) \ {d} \subseteq 1 .. n
    OBVIOUS
  <2>3. IsFiniteSet((1 .. n) \ {d})
    BY <2>1, <2>2, FS_Subset
  <2>4. QED
    BY <1>1, <2>3
<1>6. m \in Modes
  BY <1>1 DEF Modes
<1>7. ASSUME NEW e \in {f, h} PROVE Fold(m, e, 1 .. n) = e[d] + Fold(m, e, S) /\ Fold(m, e, S) \in Int
  <2>1. \A k \in S \cup {d} : e[k] \in Int
    BY <1>3, <1>5, <1>7
  <2>2. Fold(m, e, S \cup {d}) = Join(m, e[d], Fold(m, e, S))
    BY <1>5, <1>6, <2>1, FoldMore
  <2>3. Fold(m, e, S) \in Int
    BY <1>5, <1>6, <2>1, FoldVal
  <2>4. QED
    BY <1>1, <1>5, <2>2, <2>3 DEF Join
<1>8. Fold(m, f, S) = Fold(m, h, S)
  BY <1>4, <1>5, <1>6, FoldAgree
<1>9. Offset(ix, st) = Fold(m, f, 1 .. n) /\ Offset(jx, st) = Fold(m, h, 1 .. n)
  BY <1>0, <1>1 DEF Offset, Terms, Fold
<1>10. PICK x, y, r, p, q : x = ix[d] /\ y = st[d] /\ r = Fold(m, f, S) /\ p = f[d] /\ q = h[d]
  OBVIOUS
<1>11. x \in Int /\ y \in Int /\ r \in Int /\ p = x * y /\ q = (x + a) * y
  BY <1>0, <1>2, <1>7, <1>10
<1>12. q + r = a * y + (p + r) /\ p + r \in Int
  <2>1. (x + a) * y = x * y + a * y /\ x * y \in Int /\ a * y \in Int
    BY <1>11
  <2>2. QED
    BY <1>11, <2>1
<1>13. QED
  BY <1>7, <1>8, <1>9, <1>10, <1>12

\* Strides of two shapes that are alike after dimension d.
Alike(s, z, st, tt, d, n) ==
    /\ n \in Nat /\ d \in 1 .. n /\ Len(s) = n /\ Len(z) = n
    /\ Strided(st, s) /\ Strided(tt, z) /\ \A k \in (d + 1) .. n : s[k] = z[k]

\* The strides from dimension d on depend on the dimensions after it.
LEMMA SameStrides ==
    ASSUME NEW n, NEW d, NEW s, NEW z, NEW st, NEW tt, Alike(s, z, st, tt, d, n)
    PROVE  \A k \in d .. n : st[k] = tt[k]
<1>0. /\ n \in Nat /\ d \in 1 .. n /\ Len(s) = n /\ Len(z) = n
      /\ Strided(st, s) /\ Strided(tt, z) /\ \A k \in (d + 1) .. n : s[k] = z[k]
  BY DEF Alike
<1>1. /\ st[n] = 1 /\ tt[n] = 1
      /\ \A i \in 1 .. (n - 1) : st[i] = st[i + 1] * s[i + 1] /\ tt[i] = tt[i + 1] * z[i + 1]
  BY <1>0 DEF Strided
<1> DEFINE S == {j \in Nat : j <= n - d => st[n - j] = tt[n - j]}
<1>2. 0 \in S
  <2>1. n - 0 = n
    BY <1>0
  <2>2. QED
    BY <1>1, <2>1
<1>3. ASSUME NEW j \in Nat, j \in S PROVE j + 1 \in S
  <2>1. SUFFICES ASSUME j + 1 <= n - d PROVE st[n - (j + 1)] = tt[n - (j + 1)]
    OBVIOUS
  <2>2. PICK k : k = n - j
    OBVIOUS
  <2>3. k \in (d + 1) .. n /\ k - 1 \in 1 .. (n - 1) /\ n - (j + 1) = k - 1 /\ (k - 1) + 1 = k /\ j <= n - d
    BY <1>0, <2>1, <2>2
  <2>4. st[k] = tt[k] /\ s[k] = z[k]
    BY <1>0, <1>3, <2>2, <2>3
  <2>5. st[k - 1] = st[k] * s[k] /\ tt[k - 1] = tt[k] * z[k]
    BY <1>1, <2>3
  <2>6. QED
    BY <2>3, <2>4, <2>5
<1>4. \A j \in Nat : j \in S
  <2> HIDE DEF S
  <2>1. QED
    BY <1>2, <1>3, NatInduct
<1>5. ASSUME NEW k \in d .. n PROVE st[k] = tt[k]
  <2>1. n - k \in Nat /\ n - k <= n - d /\ n - (n - k) = k
    BY <1>0
  <2>2. n - k \in S
    BY <1>4, <2>1
  <2>3. QED
    BY <2>1, <2>2
<1>6. QED
  BY <1>5

Cut(s, d, from, to) == [s EXCEPT ![d] = to - from]

\* A sliced shape is a shape.
LEMMA CutIs ==
    ASSUME NEW s \in Dimensions, NEW n, n = Len(s), NEW d \in 1 .. n, NEW from \in 0 .. (s[d] - 1), NEW to \in (from + 1) .. s[d]
    PROVE  /\ Cut(s, d, from, to) \in Dimensions /\ Len(Cut(s, d, from, to)) = n
           /\ \A k \in 1 .. n : Cut(s, d, from, to)[k] = IF k = d THEN to - from ELSE s[k]
           /\ to - from \in Nat \ {0} /\ from \in Nat /\ to \in Nat /\ to <= s[d]
<1>1. n \in Nat \ {0} /\ DOMAIN s = 1 .. n /\ \A k \in 1 .. n : s[k] \in Nat \ {0}
  BY DimensionsAre DEF Dimensions
<1>2. PICK u : u = s[d]
  OBVIOUS
<1>3. to - from \in Nat \ {0} /\ from \in Nat /\ to \in Nat /\ to <= s[d]
  <2>1. u \in Nat \ {0} /\ from \in 0 .. (u - 1) /\ to \in (from + 1) .. u
    BY <1>1, <1>2
  <2>2. QED
    BY <1>2, <2>1
<1>4. PICK z : z = Cut(s, d, from, to)
  OBVIOUS
<1>5. DOMAIN z = 1 .. n /\ z = [k \in 1 .. n |-> IF k = d THEN to - from ELSE s[k]]
  <2>1. z = [k \in DOMAIN s |-> IF k = d THEN to - from ELSE s[k]]
    BY <1>1, <1>4 DEF Cut
  <2>2. QED
    BY <1>1, <2>1
<1>6. \A k \in 1 .. n : z[k] = IF k = d THEN to - from ELSE s[k]
  BY <1>5
<1>7. z \in [1 .. n -> Nat \ {0}]
  BY <1>1, <1>3, <1>5
<1>8. z \in Seq(Nat \ {0}) /\ Len(z) = n
  BY <1>1, <1>7
<1>9. z # << >>
  BY <1>1, <1>8
<1>10. QED
  BY <1>3, <1>4, <1>6, <1>8, <1>9 DEF Dimensions

\* The address a slice gives is that of its own strides, from the tensor's strides to
\* where it starts; the element it should lead to is at that of the tensor's strides.
LEMMA SliceOffsets ==
    ASSUME NEW s \in Dimensions, NEW d \in DOMAIN s, NEW from \in 0 .. (s[d] - 1), NEW to \in (from + 1) .. s[d],
           NEW z, z = Cut(s, d, from, to), NEW ix \in Indices(z)
    PROVE  /\ ViewOf(z, Strides(z), from * Strides(s)[d])[ix] = from * Strides(s)[d] + Offset(ix, Strides(z))
           /\ Address([ix EXCEPT ![d] = @ + from], s) = from * Strides(s)[d] + Offset(ix, Strides(s))
           /\ Offset(ix, Strides(s)) \in Int /\ from * Strides(s)[d] \in Int
<1>1. PICK n, st, tt : n = Len(s) /\ st = Strides(s) /\ tt = Strides(z)
  OBVIOUS
<1>2. n \in Nat \ {0} /\ DOMAIN s = 1 .. n /\ d \in 1 .. n /\ \A k \in 1 .. n : s[k] \in Nat \ {0}
  BY <1>1, DimensionsAre DEF Dimensions
<1>3. /\ z \in Dimensions /\ Len(z) = n
      /\ \A k \in 1 .. n : z[k] = IF k = d THEN to - from ELSE s[k]
      /\ to - from \in Nat \ {0} /\ from \in Nat /\ to \in Nat /\ to <= s[d]
  <2>1. n = Len(s) /\ d \in 1 .. n
    BY <1>1, <1>2
  <2>2. /\ Cut(s, d, from, to) \in Dimensions /\ Len(Cut(s, d, from, to)) = n
        /\ \A k \in 1 .. n : Cut(s, d, from, to)[k] = IF k = d THEN to - from ELSE s[k]
        /\ to - from \in Nat \ {0} /\ from \in Nat /\ to \in Nat /\ to <= s[d]
    BY <2>1, CutIs
  <2>3. QED
    BY <1>1, <2>2
<1>4. Strided(st, s) /\ Strided(tt, z)
  BY <1>1, <1>3, StridesAre
<1>5. \A k \in 1 .. n : st[k] \in Nat \ {0} /\ tt[k] \in Nat \ {0}
  BY <1>1, <1>3, <1>4 DEF Strided
<1>6. PICK jx : jx = [ix EXCEPT ![d] = @ + from]
  OBVIOUS
<1>7. DOMAIN ix = 1 .. n /\ \A k \in 1 .. n : ix[k] \in 0 .. (z[k] - 1)
  BY <1>3, IndexIs
<1>8. /\ DOMAIN jx = 1 .. n /\ jx = [k \in 1 .. n |-> jx[k]]
      /\ \A k \in 1 .. n : jx[k] = IF k = d THEN ix[d] + from ELSE ix[k]
  BY <1>2, <1>6, <1>7
<1>9. ASSUME NEW k \in 1 .. n PROVE ix[k] \in Int /\ jx[k] \in 0 .. (s[k] - 1)
  <2>1. PICK a, b, c : a = ix[k] /\ b = z[k] /\ c = s[k]
    OBVIOUS
  <2>2. b \in Nat \ {0} /\ c \in Nat \ {0} /\ a \in 0 .. (b - 1)
    BY <1>2, <1>3, <1>7, <2>1
  <2>3. CASE k = d
    <3>1. b = to - from /\ to <= c /\ jx[k] = a + from
      BY <1>3, <1>8, <2>1, <2>3
    <3>2. a + from \in 0 .. (c - 1)
      BY <1>3, <2>2, <3>1
    <3>3. QED
      BY <2>1, <2>2, <3>1, <3>2
  <2>4. CASE k # d
    <3>1. b = c /\ jx[k] = a
      BY <1>3, <1>8, <2>1, <2>4
    <3>2. QED
      BY <2>1, <2>2, <3>1
  <2>5. QED
    BY <2>3, <2>4
<1>10. Indexed(jx, st, s)
  <2>1. jx \in Indices(s)
    BY <1>1, <1>8, <1>9, IndexIs
  <2>2. QED
    BY <1>4, <2>1 DEF Indexed
<1>11. Address(jx, s) = Offset(jx, st)
  BY <1>10, AddressIs
<1>12. Offset(jx, st) = from * st[d] + Offset(ix, st) /\ Offset(ix, st) \in Int
  <2>1. Shifted(ix, jx, d, from, n)
    BY <1>7, <1>8, <1>9 DEF Shifted
  <2>2. \A k \in 1 .. n : st[k] \in Int
    BY <1>5
  <2>3. n \in Nat /\ from \in Int
    BY <1>2, <1>3
  <2>4. QED
    BY <1>2, <2>1, <2>2, <2>3, ShiftOffset
<1>13. ViewOf(z, tt, from * st[d])[ix] = from * st[d] + Offset(ix, tt)
  BY DEF ViewOf
<1>14. from * st[d] \in Int
  <2>1. PICK u : u = st[d]
    OBVIOUS
  <2>2. u \in Int /\ from \in Int
    BY <1>2, <1>3, <1>5, <2>1
  <2>3. QED
    BY <2>1, <2>2
<1>15. QED
  BY <1>1, <1>6, <1>11, <1>12, <1>13, <1>14

\* A slice that keeps the tensor whole or has nothing before its dimension.
LEMMA SliceIs ==
    ASSUME NEW s \in Dimensions, NEW d \in DOMAIN s, NEW from \in 0 .. (s[d] - 1), NEW to \in (from + 1) .. s[d],
           to - from = s[d] \/ \A e \in 1 .. (d - 1) : s[e] = 1
    PROVE  \A ix \in Indices(Cut(s, d, from, to)) :
             ViewOf(Cut(s, d, from, to), Strides(Cut(s, d, from, to)), from * Strides(s)[d])[ix]
               = Address([ix EXCEPT ![d] = @ + from], s)
<1>1. PICK n, z, st, tt : n = Len(s) /\ z = Cut(s, d, from, to) /\ st = Strides(s) /\ tt = Strides(z)
  OBVIOUS
<1>2. n \in Nat \ {0} /\ DOMAIN s = 1 .. n /\ d \in 1 .. n /\ \A k \in 1 .. n : s[k] \in Nat \ {0}
  BY <1>1, DimensionsAre DEF Dimensions
<1>3. /\ z \in Dimensions /\ Len(z) = n
      /\ \A k \in 1 .. n : z[k] = IF k = d THEN to - from ELSE s[k]
      /\ to - from \in Nat \ {0} /\ from \in Nat /\ to \in Nat /\ to <= s[d]
  BY <1>1, <1>2, CutIs
<1>4. Strided(st, s) /\ Strided(tt, z)
  BY <1>1, <1>3, StridesAre
<1>5. \A k \in 1 .. n : st[k] \in Nat \ {0} /\ tt[k] \in Nat \ {0}
  BY <1>1, <1>3, <1>4 DEF Strided
<1>6. \A k \in d .. n : st[k] = tt[k]
  <2>1. \A k \in (d + 1) .. n : s[k] = z[k]
    BY <1>2, <1>3
  <2>2. n \in Nat
    BY <1>2
  <2>3. Alike(s, z, st, tt, d, n)
    BY <1>1, <1>2, <1>3, <1>4, <2>1, <2>2 DEF Alike
  <2>4. QED
    BY <2>3, SameStrides
<1>7. ASSUME NEW ix \in Indices(z) PROVE ViewOf(z, tt, from * st[d])[ix] = Address([ix EXCEPT ![d] = @ + from], s)
  <2>1. DOMAIN ix = 1 .. n /\ \A k \in 1 .. n : ix[k] \in 0 .. (z[k] - 1)
    BY <1>3, IndexIs
  <2>2. Offset(ix, st) = Offset(ix, tt)
    <3>1. PICK f, h, m, S : f = Terms(ix, st) /\ h = Terms(ix, tt) /\ m = "sum" /\ S = 1 .. n
      OBVIOUS
    <3>2. ASSUME NEW k \in S PROVE f[k] = h[k]
      <4>1. f[k] = ix[k] * st[k] /\ h[k] = ix[k] * tt[k]
        BY <2>1, <3>1 DEF Terms
      <4>2. CASE k \in d .. n
        BY <1>6, <4>1, <4>2
      <4>3. CASE k \notin d .. n
        <5>1. k \in 1 .. (d - 1) /\ k # d /\ k \in 1 .. n
          BY <1>2, <3>1, <4>3
        <5>2. CASE to - from = s[d]
          <6>1. \A i \in 1 .. n : z[i] = s[i]
            BY <1>3, <5>2
          <6>2. z = s
            BY <1>2, <1>3, <6>1 DEF Dimensions
          <6>3. QED
            BY <1>1, <4>1, <6>2
        <5>3. CASE s[k] = 1
          <6>1. ix[k] \in 0 .. (1 - 1)
            BY <1>3, <2>1, <5>1, <5>3
          <6>2. ix[k] = 0
            BY <6>1
          <6>3. PICK u, v : u = st[k] /\ v = tt[k]
            OBVIOUS
          <6>4. u \in Int /\ v \in Int
            BY <1>5, <5>1, <6>3
          <6>5. 0 * u = 0 * v
            BY <6>4
          <6>6. QED
            BY <4>1, <6>2, <6>3, <6>5
        <5>4. QED
          BY <5>1, <5>2, <5>3
      <4>4. QED
        BY <4>2, <4>3
    <3>3. m \in Modes /\ IsFiniteSet(S)
      <4>1. IsFiniteSet(1 .. n)
        BY <1>2, FS_Interval
      <4>2. QED
        BY <3>1, <4>1 DEF Modes
    <3>4. Fold(m, f, S) = Fold(m, h, S)
      BY <3>2, <3>3, FoldAgree
    <3>5. QED
      BY <2>1, <3>1, <3>4 DEF Offset, Terms, Fold
  <2>3. QED
    BY <1>1, <2>2, SliceOffsets
<1>8. QED
  BY <1>1, <1>7

\* Shape z is s with dimension d made smaller, and st and tt are their strides.
Narrowed(s, z, st, tt, d, n) ==
    /\ n \in Nat \ {0} /\ d \in 1 .. n /\ Len(s) = n /\ Len(z) = n
    /\ Strided(st, s) /\ Strided(tt, z)
    /\ \A k \in 1 .. n : s[k] \in Nat \ {0} /\ z[k] \in Nat \ {0} /\ (k # d => z[k] = s[k])
    /\ z[d] < s[d]

\* Then every stride before dimension d is smaller.
LEMMA SmallerStrides ==
    ASSUME NEW s, NEW z, NEW st, NEW tt, NEW d, NEW n, Narrowed(s, z, st, tt, d, n)
    PROVE  \A k \in 1 .. (d - 1) : tt[k] < st[k]
<1>0. /\ n \in Nat \ {0} /\ d \in 1 .. n /\ Len(s) = n /\ Len(z) = n
      /\ Strided(st, s) /\ Strided(tt, z)
      /\ \A k \in 1 .. n : s[k] \in Nat \ {0} /\ z[k] \in Nat \ {0} /\ (k # d => z[k] = s[k])
      /\ z[d] < s[d]
  BY DEF Narrowed
<1>1. /\ \A i \in 1 .. n : st[i] \in Nat \ {0} /\ tt[i] \in Nat \ {0}
      /\ \A i \in 1 .. (n - 1) : st[i] = st[i + 1] * s[i + 1] /\ tt[i] = tt[i + 1] * z[i + 1]
  BY <1>0 DEF Strided
<1>2. st[d] = tt[d]
  <2>1. \A k \in (d + 1) .. n : s[k] = z[k]
    BY <1>0
  <2>2. Alike(s, z, st, tt, d, n)
    BY <1>0, <2>1 DEF Alike
  <2>3. d \in d .. n
    BY <1>0
  <2>4. QED
    BY <2>2, <2>3, SameStrides
<1>3. ASSUME NEW a \in Nat \ {0}, NEW b \in Nat \ {0}, NEW c \in Nat \ {0}, b < c
      PROVE  b * a < c * a /\ a * b < a * c
  <2>1. PICK e : e = c - b
    OBVIOUS
  <2>2. e \in Nat \ {0} /\ c = b + e
    BY <1>3, <2>1
  <2>3. e * a \in Nat \ {0} /\ b * a \in Nat /\ c * a = b * a + e * a
    BY <2>2
  <2>4. b * a < c * a
    BY <2>3
  <2>5. QED
    BY <2>4
<1> DEFINE S == {j \in Nat : j + 1 <= d - 1 => tt[d - (j + 1)] < st[d - (j + 1)]}
<1>4. 0 \in S
  <2>1. SUFFICES ASSUME 0 + 1 <= d - 1 PROVE tt[d - (0 + 1)] < st[d - (0 + 1)]
    OBVIOUS
  <2>2. PICK i, a, b, c : i = d - (0 + 1) /\ a = st[d] /\ b = z[d] /\ c = s[d]
    OBVIOUS
  <2>3. i \in 1 .. (n - 1) /\ i + 1 = d
    BY <1>0, <2>1, <2>2
  <2>4. st[i] = a * c /\ tt[i] = a * b
    BY <1>1, <1>2, <2>2, <2>3
  <2>5. a \in Nat \ {0} /\ b \in Nat \ {0} /\ c \in Nat \ {0} /\ b < c
    BY <1>0, <1>1, <2>2
  <2>6. a * b < a * c
    BY <1>3, <2>5
  <2>7. QED
    BY <2>2, <2>4, <2>6
<1>5. ASSUME NEW j \in Nat, j \in S PROVE j + 1 \in S
  <2>1. SUFFICES ASSUME (j + 1) + 1 <= d - 1 PROVE tt[d - ((j + 1) + 1)] < st[d - ((j + 1) + 1)]
    OBVIOUS
  <2>2. PICK i, a, b, c : i = d - ((j + 1) + 1) /\ a = s[i + 1] /\ b = tt[i + 1] /\ c = st[i + 1]
    OBVIOUS
  <2>3. i \in 1 .. (n - 1) /\ i + 1 \in 1 .. n /\ i + 1 # d /\ i + 1 = d - (j + 1) /\ j + 1 <= d - 1
    BY <1>0, <2>1, <2>2
  <2>4. b < c
    BY <1>5, <2>2, <2>3
  <2>5. z[i + 1] = a
    BY <1>0, <2>2, <2>3
  <2>6. st[i] = c * a /\ tt[i] = b * a
    BY <1>1, <2>2, <2>3, <2>5
  <2>7. a \in Nat \ {0} /\ b \in Nat \ {0} /\ c \in Nat \ {0}
    BY <1>0, <1>1, <2>2, <2>3
  <2>8. b * a < c * a
    BY <1>3, <2>4, <2>7
  <2>9. QED
    BY <2>2, <2>6, <2>8
<1>6. \A j \in Nat : j \in S
  <2> HIDE DEF S
  <2>1. QED
    BY <1>4, <1>5, NatInduct
<1>7. ASSUME NEW k \in 1 .. (d - 1) PROVE tt[k] < st[k]
  <2>1. PICK j : j = d - 1 - k
    OBVIOUS
  <2>2. j \in Nat /\ j + 1 <= d - 1 /\ d - (j + 1) = k
    BY <1>0, <2>1
  <2>3. j \in S
    BY <1>6, <2>2
  <2>4. QED
    BY <2>2, <2>3
<1>8. QED
  BY <1>7

\* A slice inside an inner dimension leads to a wrong element: the one a step away in
\* a dimension before it that has more than one.
LEMMA SliceIsNot ==
    ASSUME NEW s \in Dimensions, NEW d \in DOMAIN s, NEW from \in 0 .. (s[d] - 1), NEW to \in (from + 1) .. s[d],
           to - from # s[d], NEW e \in 1 .. (d - 1), s[e] # 1
    PROVE  \E ix \in Indices(Cut(s, d, from, to)) :
             ViewOf(Cut(s, d, from, to), Strides(Cut(s, d, from, to)), from * Strides(s)[d])[ix]
               # Address([ix EXCEPT ![d] = @ + from], s)
<1>1. PICK n, z, st, tt : n = Len(s) /\ z = Cut(s, d, from, to) /\ st = Strides(s) /\ tt = Strides(z)
  OBVIOUS
<1>2. n \in Nat \ {0} /\ DOMAIN s = 1 .. n /\ d \in 1 .. n /\ \A k \in 1 .. n : s[k] \in Nat \ {0}
  BY <1>1, DimensionsAre DEF Dimensions
<1>3. /\ z \in Dimensions /\ Len(z) = n
      /\ \A k \in 1 .. n : z[k] = IF k = d THEN to - from ELSE s[k]
      /\ to - from \in Nat \ {0} /\ from \in Nat /\ to \in Nat /\ to <= s[d]
  <2>1. n = Len(s) /\ d \in 1 .. n
    BY <1>1, <1>2
  <2>2. /\ Cut(s, d, from, to) \in Dimensions /\ Len(Cut(s, d, from, to)) = n
        /\ \A k \in 1 .. n : Cut(s, d, from, to)[k] = IF k = d THEN to - from ELSE s[k]
        /\ to - from \in Nat \ {0} /\ from \in Nat /\ to \in Nat /\ to <= s[d]
    BY <2>1, CutIs
  <2>3. QED
    BY <1>1, <2>2
<1>4. Strided(st, s) /\ Strided(tt, z)
  BY <1>1, <1>3, StridesAre
<1>5. \A k \in 1 .. n : st[k] \in Nat \ {0} /\ tt[k] \in Nat \ {0}
  BY <1>1, <1>3, <1>4 DEF Strided
<1>6. e \in 1 .. n /\ e # d
  BY <1>2
<1>7. tt[e] < st[e]
  <2>1. z[d] < s[d]
    <3>1. PICK u, v : u = s[d] /\ v = to - from
      OBVIOUS
    <3>2. u \in Nat /\ v \in Nat /\ v # u /\ v <= u
      BY <1>2, <1>3, <3>1
    <3>3. v < u
      BY <3>2
    <3>4. QED
      BY <1>2, <1>3, <3>1, <3>3
  <2>2. \A k \in 1 .. n : z[k] \in Nat \ {0} /\ (k # d => z[k] = s[k])
    BY <1>2, <1>3
  <2>3. Narrowed(s, z, st, tt, d, n)
    BY <1>1, <1>2, <1>3, <1>4, <2>1, <2>2 DEF Narrowed
  <2>4. QED
    BY <2>3, SmallerStrides
<1>8. PICK zero, ix : zero = [k \in 1 .. n |-> 0] /\ ix = [k \in 1 .. n |-> IF k = e THEN 1 ELSE 0]
  OBVIOUS
<1>9. ix \in Indices(z)
  <2>1. ASSUME NEW k \in 1 .. n PROVE ix[k] \in 0 .. (z[k] - 1)
    <3>1. PICK u : u = z[k]
      OBVIOUS
    <3>2. u \in Nat \ {0} /\ (k = e => u # 1)
      BY <1>2, <1>3, <1>6, <3>1
    <3>3. (IF k = e THEN 1 ELSE 0) \in 0 .. (u - 1)
      BY <3>2
    <3>4. QED
      BY <1>8, <3>1, <3>3
  <2>2. DOMAIN ix = 1 .. n /\ ix = [k \in 1 .. n |-> ix[k]]
    BY <1>8
  <2>3. QED
    BY <1>3, <2>1, <2>2, IndexIs
<1>10. Shifted(zero, ix, e, 1, n)
  <2>1. DOMAIN zero = 1 .. n /\ DOMAIN ix = 1 .. n
    BY <1>8
  <2>2. ASSUME NEW k \in 1 .. n PROVE zero[k] \in Int /\ ix[k] = IF k = e THEN zero[e] + 1 ELSE zero[k]
    BY <1>6, <1>8
  <2>3. QED
    BY <2>1, <2>2 DEF Shifted
<1>11. ASSUME NEW t \in {st, tt} PROVE Offset(ix, t) = 1 * t[e] + Offset(zero, t) /\ Offset(zero, t) \in Int
  <2>1. \A k \in 1 .. n : t[k] \in Int
    BY <1>5
  <2>2. n \in Nat /\ 1 \in Int
    BY <1>2
  <2>3. QED
    BY <1>6, <1>10, <2>1, <2>2, ShiftOffset
<1>12. Offset(zero, st) = Offset(zero, tt)
  <2>1. PICK f, h, m, S : f = Terms(zero, st) /\ h = Terms(zero, tt) /\ m = "sum" /\ S = 1 .. n
    OBVIOUS
  <2>2. ASSUME NEW k \in S PROVE f[k] = h[k]
    <3>1. PICK u, v : u = st[k] /\ v = tt[k]
      OBVIOUS
    <3>2. u \in Int /\ v \in Int
      BY <1>5, <2>1, <3>1
    <3>3. f[k] = 0 * u /\ h[k] = 0 * v
      BY <1>8, <2>1, <3>1 DEF Terms
    <3>4. QED
      BY <3>2, <3>3
  <2>3. m \in Modes /\ IsFiniteSet(S)
    <3>1. IsFiniteSet(1 .. n)
      BY <1>2, FS_Interval
    <3>2. QED
      BY <2>1, <3>1 DEF Modes
  <2>4. Fold(m, f, S) = Fold(m, h, S)
    BY <2>2, <2>3, FoldAgree
  <2>5. DOMAIN zero = 1 .. n
    BY <1>8
  <2>6. QED
    BY <2>1, <2>4, <2>5 DEF Offset, Terms, Fold
<1>13. PICK a, b, u, v, r, q : /\ a = Offset(ix, st) /\ b = Offset(ix, tt) /\ u = st[e] /\ v = tt[e]
                               /\ r = Offset(zero, st) /\ q = from * st[d]
  OBVIOUS
<1>14. a = 1 * u + r /\ b = 1 * v + r /\ r \in Int
  BY <1>11, <1>12, <1>13
<1>15. u \in Int /\ v \in Int /\ v < u
  BY <1>5, <1>6, <1>7, <1>13
<1>16. ViewOf(z, tt, q)[ix] = q + b /\ Address([ix EXCEPT ![d] = @ + from], s) = q + a /\ q \in Int
  BY <1>1, <1>9, <1>13, SliceOffsets
<1>17. q + b # q + a
  BY <1>14, <1>15, <1>16
<1>18. QED
  BY <1>1, <1>9, <1>13, <1>16, <1>17

-----------------------------------------------------------------------------
(* Sums over a row                                                         *)

\* n cells from b on.
RowSet(b, n) == {b + c : c \in 0 .. (n - 1)}

\* h has the cells of f from b on, n of them.
Copies(f, h, b, n) == n \in Nat /\ b \in Int /\ \A c \in 0 .. (n - 1) : h[c] = f[b + c] /\ h[c] \in Int

\* The sum over the cells is the sum over the copy.
LEMMA RowSum ==
    ASSUME NEW f, NEW h, NEW b, NEW n, Copies(f, h, b, n)
    PROVE  SumOf(f, RowSet(b, n)) = SumOf(h, 0 .. (n - 1))
<1>0. n \in Nat /\ b \in Int /\ \A c \in 0 .. (n - 1) : h[c] = f[b + c] /\ h[c] \in Int
  BY DEF Copies
<1>1. PICK S, T, m : S = RowSet(b, n) /\ T = 0 .. (n - 1) /\ m = "sum"
  OBVIOUS
<1>2. IsFiniteSet(T) /\ m \in Modes
  <2>1. IsFiniteSet(0 .. (n - 1))
    BY <1>0, FS_Interval
  <2>2. QED
    BY <1>1, <2>1 DEF Modes
<1>3. PICK P : P = [t \in T |-> {b + t}]
  OBVIOUS
<1>4. ASSUME NEW t \in T PROVE IsFiniteSet(P[t]) /\ P[t] \subseteq S /\ h[t] = Fold(m, f, P[t])
  <2>1. PICK c : c = b + t
    OBVIOUS
  <2>2. P[t] = {c} /\ c \in S /\ h[t] = f[c] /\ f[c] \in Int
    BY <1>0, <1>1, <1>3, <2>1 DEF RowSet
  <2>3. Fold(m, f, {c}) = Join(m, f[c], Unit(m))
    BY <1>2, <2>2, FoldOne
  <2>4. Join(m, f[c], Unit(m)) = f[c]
    BY <1>1, <2>2 DEF Join, Unit
  <2>5. IsFiniteSet({c})
    BY FS_Singleton
  <2>6. QED
    BY <2>2, <2>3, <2>4, <2>5
<1>5. ASSUME NEW x \in S PROVE \E t \in T : x \in P[t]
  BY <1>1, <1>3 DEF RowSet
<1>6. ASSUME NEW t \in T, NEW u \in T, t # u PROVE P[t] \cap P[u] = {}
  <2>1. b + t # b + u
    BY <1>0, <1>1, <1>6
  <2>2. QED
    BY <1>3, <2>1
<1>7. \A x \in S : f[x] \in Int
  BY <1>0, <1>1 DEF RowSet
<1>8. CutUp(m, T, P, f, S, h)
  BY <1>2, <1>4, <1>5, <1>6, <1>7 DEF CutUp
<1>9. Fold(m, h, T) = Fold(m, f, S)
  BY <1>2, <1>8, FoldCutUp
<1>10. QED
  BY <1>1, <1>9 DEF Fold

\* n cells of x from b on, as a sequence of their own.
Cut0(x, b, n) == [c \in 0 .. (n - 1) |-> x[b + c]]

CutOf(x, d, b, n) ==
    n \in Nat \ {0} /\ b \in Int /\ d = Cut0(x, b, n) /\ \A c \in 0 .. (n - 1) : x[b + c] \in Int

\* A row has the elements of the tensor.
LEMMA CutCopies ==
    ASSUME NEW x, NEW d, NEW b, NEW n, CutOf(x, d, b, n)
    PROVE  /\ Copies(x, d, b, n) /\ n \in Nat \ {0} /\ b \in Int
           /\ \A c \in 0 .. (n - 1) : d[c] \in Int /\ d[c] = x[b + c]
<1>1. /\ n \in Nat \ {0} /\ b \in Int /\ d = [c \in 0 .. (n - 1) |-> x[b + c]]
      /\ \A c \in 0 .. (n - 1) : x[b + c] \in Int
  BY DEF CutOf, Cut0
<1>2. \A c \in 0 .. (n - 1) : d[c] \in Int /\ d[c] = x[b + c]
  BY <1>1
<1>3. QED
  BY <1>1, <1>2 DEF Copies

\* The largest element of a row is what MaxF32 finds in it.
LEMMA RowTop ==
    ASSUME NEW x, NEW d, NEW b, NEW n, CutOf(x, d, b, n)
    PROVE  Largest(x, RowSet(b, n)) = MaxF32(d, n)
<1>0. /\ n \in Nat \ {0} /\ b \in Int
      /\ \A c \in 0 .. (n - 1) : d[c] \in Int /\ d[c] = x[b + c]
  BY CutCopies
<1>1. PICK m : m = MaxF32(d, n)
  OBVIOUS
<1>2. m \in Int /\ (\E c \in 0 .. (n - 1) : m = d[c]) /\ \A c \in 0 .. (n - 1) : d[c] <= m
  BY <1>0, <1>1, MaxIs
<1>3. PICK S, V : S = RowSet(b, n) /\ V = {x[i] : i \in S}
  OBVIOUS
<1>4. V = {d[c] : c \in 0 .. (n - 1)}
  BY <1>0, <1>3 DEF RowSet
<1>5. \A v : (\A i \in S : x[i] <= v) <=> \A c \in 0 .. (n - 1) : d[c] <= v
  BY <1>0, <1>3 DEF RowSet
<1>6. m \in V /\ \A i \in S : x[i] <= m
  BY <1>2, <1>4, <1>5
<1>7. ASSUME NEW v \in V, \A i \in S : x[i] <= v PROVE v = m
  <2>1. v \in Int /\ v <= m
    BY <1>0, <1>2, <1>4
  <2>2. m <= v
    BY <1>2, <1>5, <1>7
  <2>3. QED
    BY <1>2, <2>1, <2>2
<1>8. Largest(x, S) = CHOOSE v \in V : \A i \in S : x[i] <= v
  BY <1>3 DEF Largest
<1>9. Largest(x, S) \in V /\ \A i \in S : x[i] <= Largest(x, S)
  BY <1>6, <1>8
<1>10. QED
  BY <1>1, <1>3, <1>7, <1>9

\* The exponentials of the elements S, against the largest.
ExpsSum(x, S) == SumOf([j \in S |-> Exp(x[j] - Largest(x, S))], S)

\* The exponentials of a row.
LEMMA RowExps ==
    ASSUME NEW x, NEW d, NEW b, NEW n, CutOf(x, d, b, n)
    PROVE  SumF32(Exps(d, n), n) = ExpsSum(x, RowSet(b, n))
<1>0. /\ n \in Nat \ {0} /\ b \in Int
      /\ \A c \in 0 .. (n - 1) : d[c] \in Int /\ d[c] = x[b + c]
  BY CutCopies
<1>1. PICK m, S, e, f : /\ m = MaxF32(d, n) /\ S = RowSet(b, n) /\ e = Exps(d, n)
                        /\ f = [j \in S |-> Exp(x[j] - m)]
  OBVIOUS
<1>2. \A c \in 0 .. (n - 1) : e[c] = Exp(d[c] - m)
  BY <1>1 DEF Exps
<1>3. \A c \in 0 .. (n - 1) : e[c] \in Int
  BY <1>2, ExpInt
<1>4. \A c \in 0 .. (n - 1) : b + c \in S
  BY <1>1 DEF RowSet
<1>5. Copies(f, e, b, n)
  BY <1>0, <1>1, <1>2, <1>3, <1>4 DEF Copies
<1>6. SumOf(f, S) = SumOf(e, 0 .. (n - 1))
  BY <1>1, <1>5, RowSum
<1>7. SumF32(e, n) = SumOf(e, 0 .. (n - 1))
  BY <1>0, <1>3, SumF32Is
<1>8. Largest(x, S) = m
  BY <1>1, RowTop
<1>9. ExpsSum(x, S) = SumOf(f, S)
  BY <1>1, <1>8 DEF ExpsSum
<1>10. QED
  BY <1>1, <1>6, <1>7, <1>9

\* The sums over a row of x are those over the row d.
RowSums(x, d, b, n) ==
    /\ SumOf([j \in RowSet(b, n) |-> x[j] * x[j]], RowSet(b, n)) = SumOf([c \in 0 .. (n - 1) |-> d[c] * d[c]], 0 .. (n - 1))
    /\ SumOf([j \in RowSet(b, n) |-> x[j] * x[j]], RowSet(b, n)) = SumF32([c \in 0 .. (n - 1) |-> d[c] * d[c]], n)
    /\ SumOf(x, RowSet(b, n)) = SumF32(d, n)
    /\ SumOf(x, RowSet(b, n)) = SumOf(d, 0 .. (n - 1))

\* SumF32 finds both sums.
LEMMA RowSquares ==
    ASSUME NEW x, NEW d, NEW b, NEW n, CutOf(x, d, b, n)
    PROVE  RowSums(x, d, b, n)
<1>0. /\ Copies(x, d, b, n) /\ n \in Nat \ {0} /\ b \in Int
      /\ \A c \in 0 .. (n - 1) : d[c] \in Int /\ d[c] = x[b + c]
  BY CutCopies
<1>1. PICK S, e, f : /\ S = RowSet(b, n) /\ e = [c \in 0 .. (n - 1) |-> d[c] * d[c]]
                     /\ f = [j \in S |-> x[j] * x[j]]
  OBVIOUS
<1>2. ASSUME NEW c \in 0 .. (n - 1) PROVE e[c] = f[b + c] /\ e[c] \in Int
  <2>1. b + c \in S
    BY <1>1 DEF RowSet
  <2>2. PICK y : y = d[c]
    OBVIOUS
  <2>3. y \in Int /\ e[c] = y * y /\ f[b + c] = y * y
    BY <1>0, <1>1, <2>1, <2>2
  <2>4. y * y \in Int
    BY <2>3
  <2>5. QED
    BY <2>3, <2>4
<1>3. Copies(f, e, b, n)
  BY <1>0, <1>2 DEF Copies
<1>4. SumOf(f, S) = SumOf(e, 0 .. (n - 1)) /\ SumOf(x, S) = SumOf(d, 0 .. (n - 1))
  BY <1>0, <1>1, <1>3, RowSum
<1>5. SumF32(e, n) = SumOf(e, 0 .. (n - 1)) /\ SumF32(d, n) = SumOf(d, 0 .. (n - 1))
  BY <1>0, <1>2, SumF32Is
<1>6. QED
  BY <1>1, <1>4, <1>5 DEF RowSums

\* The spread about the mean, without the mean.
LEMMA SpreadTimes ==
    ASSUME NEW n \in Int, NEW q \in Int, NEW t \in Int
    PROVE  Spread(n, t, q, t, n) = n * (n * q - t * t)
<1>1. PICK v : v = n * q - t * t
  OBVIOUS
<1>2. v \in Int
  BY <1>1
<1>3. Spread(n, t, q, t, n) = v * n
  BY <1>1 DEF Spread
<1>4. v * n = n * v
  BY <1>2
<1>5. QED
  BY <1>1, <1>3, <1>4

\* The variance as the code sums it.
LEMMA VarIs ==
    ASSUME NEW n \in Nat \ {0}, NEW d, \A c \in 0 .. (n - 1) : d[c] \in Int,
           NEW q, q = SumOf([c \in 0 .. (n - 1) |-> d[c] * d[c]], 0 .. (n - 1)),
           NEW t, t = SumOf(d, 0 .. (n - 1))
    PROVE  VarF32(d, n) = n * (n * q - t * t)
<1>1. PICK S, sq, g, s : /\ S = 0 .. (n - 1) /\ sq = [c \in S |-> d[c] * d[c]] /\ s = SumF32(d, n)
                         /\ g = [i \in 0 .. (n - 1) |-> (n * d[i] - s) * (n * d[i] - s)]
  OBVIOUS
<1>2. VarF32(d, n) = SumF32(g, n)
  BY <1>1 DEF VarF32
<1>3. s = t /\ s \in Int
  BY <1>1, SumF32Is
<1>4. \A c \in S : g[c] = Deviation(n, t, d[c])
  BY <1>1, <1>3 DEF Deviation
<1>5. ASSUME NEW c \in S PROVE g[c] \in Int /\ sq[c] \in Int
  <2>1. PICK y : y = d[c]
    OBVIOUS
  <2>2. y \in Int /\ g[c] = (n * y - s) * (n * y - s) /\ sq[c] = y * y
    BY <1>1, <2>1
  <2>3. PICK z : z = n * y - s
    OBVIOUS
  <2>4. z \in Int /\ g[c] = z * z
    BY <1>3, <2>2, <2>3
  <2>5. z * z \in Int /\ y * y \in Int
    BY <2>2, <2>4
  <2>6. QED
    BY <2>2, <2>4, <2>5
<1>6. SumF32(g, n) = SumOf(g, S)
  BY <1>1, <1>5, SumF32Is
<1>7. IsFiniteSet(S) /\ Cardinality(S) = n
  <2>1. IsFiniteSet(0 .. (n - 1)) /\ Cardinality(0 .. (n - 1)) = n
    BY FS_Interval
  <2>2. QED
    BY <1>1, <2>1
<1>8. SumOf(g, S) = Spread(n, t, SumOf(sq, S), SumOf(d, S), Cardinality(S))
  <2>1. \A c \in S : d[c] \in Int /\ sq[c] = d[c] * d[c]
    BY <1>1
  <2>2. n \in Int /\ t \in Int
    BY <1>3
  <2>3. QED
    BY <1>4, <1>7, <2>1, <2>2, SpreadIs
<1>9. SumOf(sq, S) = q /\ SumOf(d, S) = t
  BY <1>1
<1>10. q \in Int
  <2>1. PICK m \in Modes : m = "sum"
    BY DEF Modes
  <2>2. Fold(m, sq, S) \in Int
    BY <1>5, <1>7, <2>1, FoldVal
  <2>3. QED
    BY <1>9, <2>1, <2>2 DEF Fold
<1>11. Spread(n, t, q, t, n) = n * (n * q - t * t)
  <2>1. n \in Int /\ q \in Int /\ t \in Int
    BY <1>3, <1>10
  <2>2. QED
    BY <2>1, SpreadTimes, Zenon
<1>12. QED
  BY <1>2, <1>6, <1>7, <1>8, <1>9, <1>11

\* The variance from the sum and the sum of squares.
VarSums(d, e, n, v) ==
    v = n * (n * SumOf(e, 0 .. (n - 1)) - SumOf(d, 0 .. (n - 1)) * SumOf(d, 0 .. (n - 1)))

RowAndSquares(d, e, n) ==
    n \in Nat \ {0} /\ (\A c \in 0 .. (n - 1) : d[c] \in Int) /\ e = [c \in 0 .. (n - 1) |-> d[c] * d[c]]

\* The variance that the two sums give.
LEMMA VarSquares ==
    ASSUME NEW n, NEW d, NEW e, RowAndSquares(d, e, n)
    PROVE  VarSums(d, e, n, VarF32(d, n))
BY VarIs DEF VarSums, RowAndSquares

\* Every element is its own operation.
LEMMA ElementsAre ==
    ASSUME NEW n \in Nat, NEW op, NEW x, NEW b
    PROVE  /\ ElementByElement(op, x, b, n).ok
           /\ \A i \in 0 .. (n - 1) : ElementByElement(op, x, b, n).out[i] = Apply(op, x[i], b[i])
<1>1. PICK v, D, z : v = [i \in 0 .. (n - 1) |-> Apply(op, x[i], b[i])] /\ D = 0 .. (n - 1) /\ z = Blank(n)
  OBVIOUS
<1>2. z = [i \in D |-> z[i]]
  BY <1>1 DEF Blank
<1>3. Store(0, n, v, z) = Stored(0, n, v, D, z)
  BY <1>2, StoreIs
<1>4. \A i \in D : Stored(0, n, v, D, z)[i] = v[i]
  BY <1>1 DEF Stored
<1>5. ElementByElement(op, x, b, n) = Ok(Store(0, n, v, z))
  BY <1>1 DEF ElementByElement
<1>6. QED
  BY <1>1, <1>3, <1>4, <1>5 DEF Ok

\* Element i of rows of n is element c of row r, which starts at b.
CellAt(i, rows, n, r, c, b) ==
    /\ rows \in Nat /\ n \in Nat \ {0} /\ i \in 0 .. (rows * n - 1)
    /\ r = i \div n /\ c = i % n /\ b = (i \div n) * n

\* An element is in its row, and the row in the tensor.
LEMMA RowPlace ==
    ASSUME NEW i, NEW rows, NEW n, NEW r, NEW c, NEW b, CellAt(i, rows, n, r, c, b)
    PROVE  /\ r \in 0 .. (rows - 1) /\ c \in 0 .. (n - 1)
           /\ b = r * n /\ b + c = i /\ b \in Int
           /\ i \in RowSet(b, n)
           /\ \A e \in 0 .. (n - 1) : b + e \in 0 .. (rows * n - 1)
<1>0. /\ rows \in Nat /\ n \in Nat \ {0} /\ i \in 0 .. (rows * n - 1)
      /\ r = i \div n /\ c = i % n /\ b = r * n
  BY DEF CellAt
<1>1. PICK N : N = rows * n
  OBVIOUS
<1>2. N \in Nat /\ i \in Int /\ i >= 0 /\ i < N
  <2>1. N \in Nat
    BY <1>0, <1>1
  <2>2. i \in 0 .. (N - 1)
    BY <1>0, <1>1
  <2>3. QED
    BY <2>1, <2>2
<1>3. Split(i, n, r, c) /\ r \in Int /\ c \in 0 .. (n - 1)
  BY <1>0, <1>2, SplitHas
<1>4. i = r * n + c
  BY <1>3 DEF Split
<1>5. r < rows /\ r >= 0
  <2>1. Below(i, n, r, rows)
    BY <1>0, <1>3, SplitBelow
  <2>2. QED
    BY <1>1, <1>2, <2>1 DEF Below
<1>6. r * n \in Int
  BY <1>0, <1>3
<1>7. ASSUME NEW e \in 0 .. (n - 1) PROVE r * n + e \in 0 .. (N - 1)
  <2>1. Split(r * n + e, n, r, e)
    BY <1>0, <1>3 DEF Split
  <2>2. PICK j : j = r * n + e
    OBVIOUS
  <2>3. j \in Int /\ j >= 0 /\ j < N
    <3>1. Below(j, n, r, rows)
      BY <1>0, <2>1, <2>2, SplitBelow
    <3>2. j \in Int
      BY <1>0, <1>6, <2>2
    <3>3. QED
      BY <1>1, <1>5, <3>1, <3>2 DEF Below
  <2>4. QED
    BY <1>2, <2>2, <2>3
<1>8. i \in RowSet(r * n, n)
  BY <1>3, <1>4 DEF RowSet
<1>9. r \in 0 .. (rows - 1)
  BY <1>0, <1>3, <1>5
<1>10. QED
  BY <1>0, <1>1, <1>3, <1>4, <1>6, <1>7, <1>8, <1>9

\* What StoreRows leaves in a new tensor.
LEMMA RowsAre ==
    ASSUME NEW rows \in Nat, NEW n \in Nat \ {0}, NEW v
    PROVE  \A i \in 0 .. (rows * n - 1) : StoreRows(rows, n, v, Blank(rows * n))[i] = v[i \div n][i % n]
<1>1. PICK N, D, z : N = rows * n /\ D = 0 .. (N - 1) /\ z = Blank(N)
  OBVIOUS
<1>2. z = [i \in D |-> z[i]]
  BY <1>1 DEF Blank
<1>3. StoreRows(rows, n, v, z) = RowsStored(rows, n, v, D, z)
  BY <1>2, StoreRowsIs
<1>4. \A i \in D : RowsStored(rows, n, v, D, z)[i] = v[i \div n][i % n]
  BY <1>1 DEF RowsStored
<1>5. QED
  BY <1>1, <1>3, <1>4

Placed(x, i, rows, n, r, c, b) == CellAt(i, rows, n, r, c, b) /\ x \in [0 .. (rows * n - 1) -> Int]

RowFound(x, i, rows, n, r, c, b) ==
    /\ CutOf(x, Row(x, r, n), b, n) /\ Row(x, r, n)[c] = x[i]
    /\ c \in 0 .. (n - 1) /\ r \in 0 .. (rows - 1)

\* Row takes out the row an element is in.
LEMMA RowIsCut ==
    ASSUME NEW x, NEW i, NEW rows, NEW n, NEW r, NEW c, NEW b, Placed(x, i, rows, n, r, c, b)
    PROVE  RowFound(x, i, rows, n, r, c, b)
<1>0. CellAt(i, rows, n, r, c, b) /\ x \in [0 .. (rows * n - 1) -> Int]
  BY DEF Placed
<1>1. /\ r \in 0 .. (rows - 1) /\ c \in 0 .. (n - 1) /\ b = r * n /\ b + c = i /\ b \in Int
      /\ \A e \in 0 .. (n - 1) : b + e \in 0 .. (rows * n - 1)
  BY <1>0, RowPlace
<1>2. Row(x, r, n) = Cut0(x, b, n)
  BY <1>1 DEF Row, Cut0
<1>3. \A e \in 0 .. (n - 1) : x[b + e] \in Int
  BY <1>0, <1>1
<1>4. n \in Nat \ {0}
  BY <1>0 DEF CellAt
<1>5. CutOf(x, Row(x, r, n), b, n)
  BY <1>1, <1>2, <1>3, <1>4 DEF CutOf
<1>6. Row(x, r, n)[c] = x[i]
  BY <1>1, <1>2 DEF Cut0
<1>7. QED
  BY <1>1, <1>5, <1>6 DEF RowFound

\* S is the row of element i, in rows of n.
InRow(x, i, rows, n, S) ==
    /\ rows \in Nat /\ n \in Nat \ {0} /\ x \in [0 .. (rows * n - 1) -> Int] /\ i \in 0 .. (rows * n - 1)
    /\ S = RowSet((i \div n) * n, n)

\* The softmax or log-softmax of element i among S.
SoftmaxCell(op, x, i, S) ==
    IF op = "softmax" THEN <<Exp(x[i] - Largest(x, S)), ExpsSum(x, S)>> ELSE <<x[i] - Largest(x, S), ExpsSum(x, S)>>

\* Every element is normalised with its row, and with nothing else.
LEMMA SoftmaxRowsAre ==
    ASSUME NEW x, NEW i, NEW rows, NEW n, NEW S, InRow(x, i, rows, n, S), NEW op
    PROVE  SoftmaxRows(op, x, rows, n).out[i] = SoftmaxCell(op, x, i, S)
<1> SUFFICES ASSUME rows \in Nat, n \in Nat \ {0}, x \in [0 .. (rows * n - 1) -> Int],
                    i \in 0 .. (rows * n - 1), S = RowSet((i \div n) * n, n)
             PROVE  SoftmaxRows(op, x, rows, n).out[i] = SoftmaxCell(op, x, i, S)
  BY DEF InRow
<1>1. PICK r, c, d, b : r = i \div n /\ c = i % n /\ d = Row(x, r, n) /\ b = (i \div n) * n
  OBVIOUS
<1>2. CutOf(x, d, b, n) /\ d[c] = x[i] /\ c \in 0 .. (n - 1) /\ r \in 0 .. (rows - 1)
  <2>1. Placed(x, i, rows, n, r, c, b)
    BY <1>1 DEF Placed, CellAt
  <2>2. RowFound(x, i, rows, n, r, c, b)
    BY <2>1, RowIsCut
  <2>3. QED
    BY <1>1, <2>2 DEF RowFound
<1>3. Largest(x, S) = MaxF32(d, n)
  BY <1>1, <1>2, RowTop
<1>4. SumF32(Exps(d, n), n) = ExpsSum(x, S)
  BY <1>1, <1>2, RowExps
<1>5. Exps(d, n)[c] = Exp(x[i] - MaxF32(d, n))
  BY <1>2 DEF Exps
<1>6. SoftmaxF32(d, n)[c] = <<Exp(x[i] - Largest(x, S)), ExpsSum(x, S)>>
  BY <1>2, <1>3, <1>4, <1>5 DEF SoftmaxF32
<1>7. LogSoftmaxF32(d, n)[c] = <<x[i] - Largest(x, S), ExpsSum(x, S)>>
  BY <1>2, <1>3, <1>4 DEF LogSoftmaxF32
<1>8. PICK v : v = [q \in 0 .. (rows - 1) |-> IF op = "softmax" THEN SoftmaxF32(Row(x, q, n), n)
                                              ELSE LogSoftmaxF32(Row(x, q, n), n)]
  OBVIOUS
<1>9. v[r] = IF op = "softmax" THEN SoftmaxF32(d, n) ELSE LogSoftmaxF32(d, n)
  BY <1>1, <1>2, <1>8
<1>10. SoftmaxRows(op, x, rows, n) = Ok(StoreRows(rows, n, v, Blank(rows * n)))
  BY <1>8 DEF SoftmaxRows
<1>11. StoreRows(rows, n, v, Blank(rows * n))[i] = v[r][c]
  BY <1>1, RowsAre
<1>12. SoftmaxRows(op, x, rows, n).out[i] = v[r][c]
  BY <1>10, <1>11 DEF Ok
<1>13. QED
  BY <1>6, <1>7, <1>9, <1>12 DEF SoftmaxCell

Squared(x, S) == SumOf([j \in S |-> x[j] * x[j]], S)

\* The layer or RMS normalisation of element i among S, with the weights at c.
NormCell(op, m, x, i, c, n, S) ==
    IF op = "layer_norm"
    THEN <<n * x[i] - SumOf(x, S), n * (n * Squared(x, S) - SumOf(x, S) * SumOf(x, S)), m["y"][c], m["z"][c]>>
    ELSE <<x[i], Squared(x, S), m["y"][c]>>

\* So is every element of the normalisations.
LEMMA NormRowsAre ==
    ASSUME NEW x, NEW i, NEW rows, NEW n, NEW S, InRow(x, i, rows, n, S), NEW m, x = m["x"], NEW c, c = i % n, NEW op
    PROVE  NormRows(op, m, rows, n).out[i] = NormCell(op, m, x, i, c, n, S)
<1> SUFFICES ASSUME rows \in Nat, n \in Nat \ {0}, x \in [0 .. (rows * n - 1) -> Int],
                    i \in 0 .. (rows * n - 1), S = RowSet((i \div n) * n, n)
             PROVE  NormRows(op, m, rows, n).out[i] = NormCell(op, m, x, i, c, n, S)
  BY DEF InRow
<1>1. PICK r, d, b, N : r = i \div n /\ d = Row(x, r, n) /\ b = (i \div n) * n /\ N = rows * n
  OBVIOUS
<1>2. CutOf(x, d, b, n) /\ d[c] = x[i] /\ c \in 0 .. (n - 1) /\ r \in 0 .. (rows - 1)
  <2>1. Placed(x, i, rows, n, r, c, b)
    BY <1>1 DEF Placed, CellAt
  <2>2. RowFound(x, i, rows, n, r, c, b)
    BY <2>1, RowIsCut
  <2>3. QED
    BY <1>1, <2>2 DEF RowFound
<1>3. PICK e : e = [k \in 0 .. (n - 1) |-> d[k] * d[k]]
  OBVIOUS
<1>4. /\ Squared(x, S) = SumOf(e, 0 .. (n - 1)) /\ Squared(x, S) = SumF32(e, n)
      /\ SumOf(x, S) = SumF32(d, n) /\ SumOf(x, S) = SumOf(d, 0 .. (n - 1))
  <2>1. S = RowSet(b, n)
    BY <1>1
  <2>2. RowSums(x, d, b, n)
    BY <1>2, RowSquares
  <2>3. QED
    BY <1>3, <2>1, <2>2 DEF RowSums, Squared
<1>5. \A k \in 0 .. (n - 1) : d[k] \in Int
  BY <1>2, CutCopies
<1>6. VarF32(d, n) = n * (n * Squared(x, S) - SumOf(x, S) * SumOf(x, S))
  <2>1. RowAndSquares(d, e, n)
    BY <1>3, <1>5 DEF RowAndSquares
  <2>2. VarSums(d, e, n, VarF32(d, n))
    BY <2>1, VarSquares
  <2>3. QED
    BY <1>4, <2>2 DEF VarSums
<1>7. LayerNormF32(d, n, m["y"], m["z"])[c]
        = <<n * x[i] - SumOf(x, S), n * (n * Squared(x, S) - SumOf(x, S) * SumOf(x, S)), m["y"][c], m["z"][c]>>
  BY <1>2, <1>4, <1>6 DEF LayerNormF32
<1>8. RmsNormF32(d, n, m["y"])[c] = <<x[i], Squared(x, S), m["y"][c]>>
  BY <1>2, <1>3, <1>4 DEF RmsNormF32
<1>9. PICK v : v = [q \in 0 .. (rows - 1) |->
                      IF op = "layer_norm" THEN LayerNormF32(Row(m["x"], q, n), n, m["y"], m["z"])
                      ELSE RmsNormF32(Row(m["x"], q, n), n, m["y"])]
  OBVIOUS
<1>10. v[r] = IF op = "layer_norm" THEN LayerNormF32(d, n, m["y"], m["z"]) ELSE RmsNormF32(d, n, m["y"])
  BY <1>1, <1>2, <1>9
<1>11. NormRows(op, m, rows, n) = Ok(StoreRows(rows, n, v, Blank(rows * n)))
  BY <1>9 DEF NormRows
<1>12. StoreRows(rows, n, v, Blank(rows * n))[i] = v[r][c]
  BY <1>1, RowsAre
<1>13. NormRows(op, m, rows, n).out[i] = v[r][c]
  BY <1>11, <1>12 DEF Ok
<1>14. QED
  BY <1>7, <1>8, <1>10, <1>13 DEF NormCell

\* The one of a row is at its first largest element.
LEMMA HardmaxAre ==
    ASSUME NEW x, NEW i, NEW rows, NEW n, NEW S, InRow(x, i, rows, n, S)
    PROVE  /\ Ones(rows, n, x, 0 .. (rows * n - 1))[i] = IF i = FirstLargest(x, S) THEN 1 ELSE 0
           /\ FirstLargest(x, S) \in S
<1> SUFFICES ASSUME rows \in Nat, n \in Nat \ {0}, x \in [0 .. (rows * n - 1) -> Int],
                    i \in 0 .. (rows * n - 1), S = RowSet((i \div n) * n, n)
             PROVE  /\ Ones(rows, n, x, 0 .. (rows * n - 1))[i] = IF i = FirstLargest(x, S) THEN 1 ELSE 0
                    /\ FirstLargest(x, S) \in S
  BY DEF InRow
<1>1. PICK r, c, d, b, a : r = i \div n /\ c = i % n /\ d = Row(x, r, n) /\ b = (i \div n) * n /\ a = ArgMax(d, n)
  OBVIOUS
<1>2. CutOf(x, d, b, n) /\ c \in 0 .. (n - 1) /\ b + c = i /\ b \in Int
  <2>1. Placed(x, i, rows, n, r, c, b)
    BY <1>1 DEF Placed, CellAt
  <2>2. RowFound(x, i, rows, n, r, c, b)
    BY <2>1, RowIsCut
  <2>3. CellAt(i, rows, n, r, c, b)
    BY <2>1 DEF Placed
  <2>4. b + c = i /\ b \in Int
    BY <2>3, RowPlace
  <2>5. QED
    BY <1>1, <2>2, <2>4 DEF RowFound
<1>3. \A e \in 0 .. (n - 1) : d[e] \in Int /\ d[e] = x[b + e]
  BY <1>2, CutCopies
<1>4. FirstOfLargest(d, n, a)
  BY <1>1, <1>3, ArgIs
<1>5. PICK top : top = b + a
  OBVIOUS
<1>6. a \in 0 .. (n - 1) /\ top \in S
  BY <1>1, <1>4, <1>5 DEF FirstOfLargest, RowSet
<1>7. \A k \in S : x[k] \in Int /\ k \in Int /\ (x[k] < x[top] \/ (x[k] = x[top] /\ top <= k))
  <2>1. TAKE k \in S
  <2>2. PICK e \in 0 .. (n - 1) : k = b + e
    BY <1>1 DEF RowSet
  <2>3. d[e] <= d[a] /\ (e < a => d[e] < d[a])
    BY <1>4 DEF FirstOfLargest
  <2>4. x[k] = d[e] /\ x[top] = d[a] /\ d[e] \in Int /\ d[a] \in Int
    BY <1>3, <1>5, <1>6, <2>2
  <2>5. QED
    BY <1>2, <1>5, <1>6, <2>2, <2>3, <2>4
<1>8. ASSUME NEW j \in S, \A k \in S : x[k] < x[j] \/ (x[k] = x[j] /\ j <= k)
      PROVE  j = top
  <2>1. x[top] < x[j] \/ (x[top] = x[j] /\ j <= top)
    BY <1>6, <1>8
  <2>2. x[j] < x[top] \/ (x[j] = x[top] /\ top <= j)
    BY <1>7
  <2>3. x[j] \in Int /\ x[top] \in Int /\ j \in Int /\ top \in Int
    BY <1>6, <1>7
  <2>4. QED
    BY <2>1, <2>2, <2>3
<1>9. top = CHOOSE j \in S : \A k \in S : x[k] < x[j] \/ (x[k] = x[j] /\ j <= k)
  <2>1. \A k \in S : x[k] < x[top] \/ (x[k] = x[top] /\ top <= k)
    BY <1>7
  <2>2. QED
    BY <1>6, <1>8, <2>1
<1>10. Ones(rows, n, x, 0 .. (rows * n - 1))[i] = IF c = a THEN 1 ELSE 0
  BY <1>1 DEF Ones
<1>11. c = a <=> i = top
  BY <1>2, <1>5, <1>6
<1>12. QED
  BY <1>6, <1>9, <1>10, <1>11 DEF FirstLargest

-----------------------------------------------------------------------------
(* Reductions of the whole tensor                                          *)

\* What a reduction means, and what the loops make of it.
LEMMA ReducedMeans ==
    ASSUME NEW n \in Nat \ {0}, NEW x, x \in [0 .. (n - 1) -> Int], NEW op \in WholeReductions, call = <<op>>
    PROVE  MeansReduce(x, Reduced(op, x, n))
<1>1. PICK v, all : v = Reduced(op, x, n) /\ all = 0 .. (n - 1)
  OBVIOUS
<1>2. all = DOMAIN x /\ call[1] = op /\ \A i \in 0 .. (n - 1) : x[i] \in Int
  BY <1>1
<1>3. Cardinality(all) = n
  <2>1. Cardinality(0 .. (n - 1)) = n
    BY FS_Interval
  <2>2. QED
    BY <1>1, <2>1
<1>4. CASE op \in {"sum", "mean"}
  <2>1. v = SumOf(x, all)
    BY <1>1, <1>2, <1>4, SumF32Is DEF Reduced
  <2>2. QED
    BY <1>1, <1>2, <1>4, <2>1 DEF MeansReduce
<1>5. CASE op = "max"
  <2>1. v = MaxF32(x, n)
    BY <1>1, <1>5 DEF Reduced
  <2>2. (\E i \in all : v = x[i]) /\ \A i \in all : x[i] <= v
    BY <1>1, <1>2, <2>1, MaxIs
  <2>3. QED
    BY <1>1, <1>2, <1>5, <2>2 DEF MeansReduce
<1>6. CASE op = "min"
  <2>1. v = MinF32(x, n)
    BY <1>1, <1>6 DEF Reduced
  <2>2. (\E i \in all : v = x[i]) /\ \A i \in all : x[i] >= v
    BY <1>1, <1>2, <2>1, MinIs
  <2>3. QED
    BY <1>1, <1>2, <1>6, <2>2 DEF MeansReduce
<1>7. CASE op = "prod"
  <2>1. v = ProductOf(x, all)
    BY <1>1, <1>2, <1>7, ProdF32Is DEF Reduced
  <2>2. QED
    BY <1>1, <1>2, <1>7, <2>1 DEF MeansReduce, ProductOf
<1>8. CASE op \in {"var", "std"}
  <2>1. v = VarF32(x, n)
    BY <1>1, <1>8 DEF Reduced
  <2>2. PICK e, q, t : e = [c \in 0 .. (n - 1) |-> x[c] * x[c]] /\ q = SumOf(e, 0 .. (n - 1)) /\ t = SumOf(x, 0 .. (n - 1))
    OBVIOUS
  <2>3. v = n * (n * q - t * t)
    <3>1. \A c \in 0 .. (n - 1) : x[c] \in Int
      BY <1>2
    <3>2. RowAndSquares(x, e, n)
      BY <2>2, <3>1 DEF RowAndSquares
    <3>3. VarSums(x, e, n, v)
      BY <2>1, <3>2, VarSquares
    <3>4. QED
      BY <2>2, <3>3 DEF VarSums
  <2>4. q = SumOf([c \in all |-> x[c] * x[c]], all) /\ t = SumOf(x, all)
    BY <1>1, <2>2
  <2>5. v = Cardinality(all) * (Cardinality(all) * SumOf([c \in all |-> x[c] * x[c]], all) - SumOf(x, all) * SumOf(x, all))
    BY <1>3, <2>3, <2>4
  <2>6. QED
    BY <1>1, <1>2, <1>8, <2>5 DEF MeansReduce
<1>9. CASE op = "norm"
  <2>1. PICK f : f = [i \in 0 .. (n - 1) |-> Apply("abs", x[i], 0)]
    OBVIOUS
  <2>2. v = SumF32(f, n)
    BY <1>1, <1>9, <2>1 DEF Reduced
  <2>3. \A i \in 0 .. (n - 1) : f[i] \in Int
    BY <1>2, <2>1 DEF Apply
  <2>4. v = SumOf(f, all)
    BY <1>1, <2>2, <2>3, SumF32Is
  <2>5. f = [i \in all |-> Apply("abs", x[i], 0)]
    BY <1>1, <2>1
  <2>6. QED
    BY <1>1, <1>2, <1>9, <2>4, <2>5 DEF MeansReduce
<1>10. CASE op = "argmax"
  <2>1. v = ArgMax(x, n)
    BY <1>1, <1>10 DEF Reduced
  <2>2. FirstOfLargest(x, n, v)
    BY <1>2, <2>1, ArgIs
  <2>3. (\A i \in all : x[i] <= x[v]) /\ \A i \in all : i < v => x[i] < x[v]
    BY <1>1, <2>2 DEF FirstOfLargest
  <2>4. QED
    BY <1>1, <1>2, <1>10, <2>3 DEF MeansReduce
<1>11. QED
  BY <1>4, <1>5, <1>6, <1>7, <1>8, <1>9, <1>10 DEF WholeReductions

-----------------------------------------------------------------------------
(* The GEMM task                                                           *)

\* A cell of a square matrix is in memory.
LEMMA CellIn ==
    ASSUME NEW n \in Nat \ {0}, NEW c \in 0 .. (n - 1), NEW r \in 0 .. (n - 1)
    PROVE  r + c * n \in 0 .. (n * n - 1)
<1>1. PICK N, j : N = n * n /\ j = r + c * n
  OBVIOUS
<1>2. N \in Int /\ j \in Int
  BY <1>1
<1>3. Split(j, n, c, r)
  BY <1>1 DEF Split
<1>4. Below(j, n, c, n)
  BY <1>2, <1>3, SplitBelow
<1>5. j >= 0
  <2>1. PICK t : t = c * n
    OBVIOUS
  <2>2. t \in Nat
    BY <2>1
  <2>3. QED
    BY <1>1, <2>1, <2>2
<1>6. j < N
  BY <1>1, <1>2, <1>4 DEF Below
<1>7. QED
  BY <1>1, <1>2, <1>5, <1>6

\* A flat index is a cell.
LEMMA CellParts ==
    ASSUME NEW n \in Nat \ {0}, NEW i \in 0 .. (n * n - 1)
    PROVE  i % n \in 0 .. (n - 1) /\ i \div n \in 0 .. (n - 1) /\ i = (i % n) + (i \div n) * n
<1>1. PICK r, c, b : r = i \div n /\ c = i % n /\ b = (i \div n) * n
  OBVIOUS
<1>2. CellAt(i, n, n, r, c, b)
  BY <1>1 DEF CellAt
<1>3. r \in 0 .. (n - 1) /\ c \in 0 .. (n - 1) /\ b = r * n /\ b + c = i /\ b \in Int
  BY <1>2, RowPlace
<1>4. i = c + b
  BY <1>3
<1>5. QED
  BY <1>1, <1>3, <1>4

\* The terms of element i of the product of matrices B and A, and the elements.
GemmTerms(A, B, n, ta, tb, i) == [p \in 0 .. (n - 1) |-> B[ReadB(i % n, p, tb, n)] * A[ReadA(p, i \div n, ta, n)]]

GemmCells(n) == {r + c * n : r \in 0 .. (n - 1), c \in 0 .. (n - 1)}

\* The GEMM task on square matrices.
LEMMA GemmMeans ==
    ASSUME NEW n \in Nat \ {0}, NEW ta \in BOOLEAN, NEW tb \in BOOLEAN
    PROVE  /\ GemmTask(n, n, n, ta, tb).ok
           /\ \A i \in 0 .. (n * n - 1) : GemmTask(n, n, n, ta, tb).out[i] = MeansGemm(n, n, n, ta, tb, i)
<1>1. PICK N : N = n * n
  OBVIOUS
<1>2. PICK A, B, S, D : /\ A = [i \in 0 .. (N - 1) |-> i + 1] /\ B = [i \in 0 .. (N - 1) |-> 3 * i + 2]
                        /\ S = 0 .. (n - 1) /\ D = GemmCells(n)
  OBVIOUS
<1>3. N \in Int /\ \A r \in S, c \in S : r + c * n \in 0 .. (N - 1) /\ ~(r + c * n >= N)
  <2>1. N \in Int
    BY <1>1
  <2>2. ASSUME NEW r \in S, NEW c \in S PROVE r + c * n \in 0 .. (N - 1) /\ ~(r + c * n >= N)
    <3>1. PICK j : j = r + c * n
      OBVIOUS
    <3>2. j \in 0 .. (N - 1)
      BY <1>1, <1>2, <3>1, CellIn
    <3>3. QED
      BY <2>1, <3>1, <3>2
  <2>3. QED
    BY <2>1, <2>2
<1>4. \A r \in S, p \in S : ReadB(r, p, tb, n) \in 0 .. (N - 1)
  BY <1>3 DEF ReadB
<1>5. \A c \in S, p \in S : ReadA(p, c, ta, n) \in 0 .. (N - 1)
  BY <1>3 DEF ReadA
<1>6. GemmTask(n, n, n, ta, tb) = Ok([i \in D |-> SumOf(GemmTerms(A, B, n, ta, tb, i), S)])
  <2>1. ~(\E r \in 0 .. (n - 1), c \in 0 .. (n - 1), p \in 0 .. (n - 1) :
            ReadB(r, p, tb, n) \notin DOMAIN B \/ ReadA(p, c, ta, n) \notin DOMAIN A \/ r + c * n >= N)
    BY <1>2, <1>3, <1>4, <1>5
  <2>2. ~(n < n)
    OBVIOUS
  <2>3. GemmTask(n, n, n, ta, tb)
          = Ok([i \in {r + c * n : r \in 0 .. (n - 1), c \in 0 .. (n - 1)} |->
                  SumOf([p \in 0 .. (n - 1) |-> B[ReadB(i % n, p, tb, n)] * A[ReadA(p, i \div n, ta, n)]], 0 .. (n - 1))])
    BY <1>1, <1>2, <2>1, <2>2 DEF GemmTask
  <2>4. QED
    BY <1>2, <2>3 DEF GemmTerms, GemmCells
<1>7. ASSUME NEW i \in 0 .. (n * n - 1)
      PROVE  GemmTask(n, n, n, ta, tb).out[i] = MeansGemm(n, n, n, ta, tb, i)
  <2>1. PICK r, c, h : r = i % n /\ c = i \div n /\ h = GemmTerms(A, B, n, ta, tb, i)
    OBVIOUS
  <2>2. r \in S /\ c \in S /\ i = r + c * n
    BY <1>2, <2>1, CellParts
  <2>3. i \in D
    <3>1. \E y \in S, z \in S : i = y + z * n
      BY <2>2
    <3>2. i \in {y + z * n : y \in S, z \in S}
      BY <3>1
    <3>3. D = {y + z * n : y \in S, z \in S}
      BY <1>2 DEF GemmCells
    <3>4. QED
      BY <3>2, <3>3
  <2>4. PICK u, w : /\ u = [p \in S |-> IF ta THEN p * n + c + 1 ELSE c * n + p + 1]
                    /\ w = [p \in S |-> 3 * (IF tb THEN r * n + p ELSE p * n + r) + 2]
    OBVIOUS
  <2>5. ASSUME NEW p \in S PROVE h[p] = u[p] * w[p]
    <3>1. PICK y, z : y = ReadB(r, p, tb, n) /\ z = ReadA(p, c, ta, n)
      OBVIOUS
    <3>2. h[p] = B[y] * A[z]
      BY <1>2, <2>1, <3>1 DEF GemmTerms
    <3>3. y \in 0 .. (N - 1) /\ z \in 0 .. (N - 1) /\ y \in Int /\ z \in Int
      BY <1>4, <1>5, <2>2, <3>1
    <3>4. B[y] = 3 * y + 2 /\ A[z] = z + 1
      BY <1>2, <3>3
    <3>5. p \in Int /\ r \in Int /\ c \in Int
      BY <1>2, <2>2
    <3>6. r * n \in Int /\ c * n \in Int /\ p * n \in Int
      BY <3>5
    <3>7. y = IF tb THEN r * n + p ELSE p * n + r
      BY <3>1, <3>5, <3>6 DEF ReadB
    <3>8. z + 1 = IF ta THEN p * n + c + 1 ELSE c * n + p + 1
      BY <3>1, <3>5, <3>6 DEF ReadA
    <3>9. u[p] = z + 1 /\ w[p] = 3 * y + 2
      BY <2>4, <3>7, <3>8
    <3>10. u[p] \in Int /\ w[p] \in Int /\ h[p] = w[p] * u[p]
      BY <3>2, <3>3, <3>4, <3>9
    <3>11. QED
      BY <3>10
  <2>6. h = [p \in S |-> u[p] * w[p]]
    BY <1>2, <2>1, <2>5 DEF GemmTerms
  <2>7. MeansGemm(n, n, n, ta, tb, i) = SumOf([p \in S |-> u[p] * w[p]], S)
    <3>1. [p \in S |-> u[p] * w[p]]
            = [p \in S |-> (IF ta THEN p * n + c + 1 ELSE c * n + p + 1) * (3 * (IF tb THEN r * n + p ELSE p * n + r) + 2)]
      BY <2>4
    <3>2. MeansGemm(n, n, n, ta, tb, i)
            = SumOf([p \in S |-> (IF ta THEN p * n + c + 1 ELSE c * n + p + 1) * (3 * (IF tb THEN r * n + p ELSE p * n + r) + 2)], S)
      BY <1>2, <2>1 DEF MeansGemm
    <3>3. QED
      BY <3>1, <3>2
  <2>8. GemmTask(n, n, n, ta, tb).out[i] = SumOf(h, S)
    BY <1>6, <2>1, <2>3 DEF Ok
  <2>9. QED
    BY <2>6, <2>7, <2>8
<1>8. QED
  BY <1>6, <1>7 DEF Ok

\* Rows of a, and b of them, hold a * a elements only when a is b.
LEMMA RowsFit ==
    ASSUME NEW a \in Nat \ {0}, NEW b \in Nat \ {0}, a >= b, (b - 1) + (a - 1) * a < b * a
    PROVE  a = b
<1>1. PICK u, w : u = (a - 1) * a /\ w = b * a
  OBVIOUS
<1>2. u \in Int /\ w \in Int
  BY <1>1
<1>3. u < w
  BY <1>1, <1>2
<1>4. a - 1 < b
  <2>1. SUFFICES ASSUME a - 1 >= b PROVE FALSE
    OBVIOUS
  <2>2. PICK t : t = (a - 1) - b
    OBVIOUS
  <2>3. t \in Nat /\ a - 1 = b + t
    BY <2>1, <2>2
  <2>4. u = b * a + t * a
    BY <1>1, <2>3
  <2>5. t * a \in Nat
    BY <2>3
  <2>6. u >= w
    BY <1>1, <1>2, <2>4, <2>5
  <2>7. QED
    BY <1>2, <1>3, <2>6
<1>5. QED
  BY <1>4

\* The GEMM task answers for square matrices only: the leading dimensions it passes
\* are refused for others, or lead out of the matrices.
LEMMA GemmStays ==
    ASSUME NEW m \in Nat \ {0}, NEW n \in Nat \ {0}, NEW k \in Nat \ {0}, NEW ta \in BOOLEAN, NEW tb \in BOOLEAN,
           GemmTask(m, n, k, ta, tb).ok
    PROVE  m = n /\ n = k
<1>1. PICK A, B, ldb, lda : /\ A = [i \in 0 .. (m * k - 1) |-> i + 1] /\ B = [i \in 0 .. (k * n - 1) |-> 3 * i + 2]
                            /\ ldb = (IF tb THEN n ELSE k) /\ lda = (IF ta THEN k ELSE m)
  OBVIOUS
<1>2. /\ ~(ldb < (IF tb THEN k ELSE n) \/ lda < (IF ta THEN m ELSE k) \/ m < n)
      /\ ~\E r \in 0 .. (n - 1), c \in 0 .. (m - 1), p \in 0 .. (k - 1) :
            \/ ReadB(r, p, tb, ldb) \notin DOMAIN B
            \/ ReadA(p, c, ta, lda) \notin DOMAIN A
            \/ r + c * m >= m * n
  <2>1. SUFFICES ASSUME \/ ldb < (IF tb THEN k ELSE n) \/ lda < (IF ta THEN m ELSE k) \/ m < n
                        \/ \E r \in 0 .. (n - 1), c \in 0 .. (m - 1), p \in 0 .. (k - 1) :
                              \/ ReadB(r, p, tb, ldb) \notin DOMAIN B
                              \/ ReadA(p, c, ta, lda) \notin DOMAIN A
                              \/ r + c * m >= m * n
                 PROVE  GemmTask(m, n, k, ta, tb) = NotImplemented
    BY DEF NotImplemented
  <2>2. QED
    BY <1>1, <2>1 DEF GemmTask
<1>3. n - 1 \in 0 .. (n - 1) /\ m - 1 \in 0 .. (m - 1) /\ k - 1 \in 0 .. (k - 1)
  OBVIOUS
<1>4. /\ ~((n - 1) + (m - 1) * m >= m * n)
      /\ ReadA(k - 1, m - 1, ta, lda) \in 0 .. (m * k - 1)
  BY <1>1, <1>2, <1>3
<1>5. m * n \in Int /\ m * k \in Int /\ (m - 1) * m \in Int /\ (k - 1) * k \in Int /\ m * n = n * m /\ m * k = k * m
  OBVIOUS
<1>6. m = n
  <2>1. m >= n
    BY <1>2
  <2>2. (n - 1) + (m - 1) * m < n * m
    BY <1>4, <1>5
  <2>3. QED
    BY <2>1, <2>2, RowsFit
<1>7. m = k
  <2>1. CASE ta
    <3>1. k >= m
      BY <1>1, <1>2, <2>1
    <3>2. (m - 1) + (k - 1) * k \in 0 .. (m * k - 1)
      BY <1>1, <1>4, <2>1 DEF ReadA
    <3>3. (m - 1) + (k - 1) * k < m * k
      BY <1>5, <3>2
    <3>4. QED
      BY <3>1, <3>3, RowsFit
  <2>2. CASE ~ta
    <3>1. m >= k
      BY <1>1, <1>2, <2>2
    <3>2. (k - 1) + (m - 1) * m \in 0 .. (m * k - 1)
      BY <1>1, <1>4, <2>2 DEF ReadA
    <3>3. (k - 1) + (m - 1) * m < k * m
      BY <1>5, <3>2
    <3>4. QED
      BY <3>1, <3>3, RowsFit
  <2>3. QED
    BY <2>1, <2>2
<1>8. QED
  BY <1>6, <1>7

-----------------------------------------------------------------------------
(* The invariant: what the call made has left, from the elements before it *)

\* What each call leaves, from the elements before it.
DidElementwise ==
    \E op \in Arithmetic \cup Functions1, b \in {"x", "y"} :
      call = <<op, "x", b>> /\ answer = ElementByElement(op, before["x"], before[b], NumElements)

DidInPlace ==
    \E op \in {"add", "mul"}, a, b, out \in {"x", "y", "z"} :
      /\ op = "mul" => a = b /\ b = out
      /\ call = <<op, a, b, out>> /\ mem = Overwrite(op, a, b, out, NumElements, before)

DidReduce ==
    \E op \in WholeReductions : call = <<op>> /\ answer = Ok([i \in {0} |-> Reduced(op, before["x"], NumElements)])

DidNotReduce == call # NoCall /\ call[1] # "gemm" /\ answer = NotImplemented

DidSoftmax ==
    \E op \in {"softmax", "log_softmax"}, axis \in -1 .. 2 :
      call = <<op, axis>> /\ answer = SoftmaxOf(op, axis, before["x"], shape)

DidHardmax == \E axis \in -1 .. 2 : call = <<"hardmax", axis>> /\ answer = HardmaxOf(axis, before["x"], shape)

DidNorm ==
    \E op \in {"layer_norm", "rms_norm"} :
      call = <<op>> /\ answer = NormRows(op, before, Product(Front(shape)), Cols(shape))

DidFill == call = <<"fill">> /\ answer = Ok(FillLoop(before["x"], NumElements, 5))

DidSlice ==
    \E d \in DOMAIN shape : \E from \in 0 .. (shape[d] - 1) : \E to \in (from + 1) .. shape[d] :
      call = <<"slice", d, from, to>> /\ answer = SliceOf(shape, d, from, to)

DidTranspose == \E i, j \in DOMAIN shape : call = <<"transpose", i, j>> /\ answer = TransposeOf(shape, i, j)

DidReshape == \E s \in Shapes : call = <<"reshape", s>> /\ answer = Ok(ViewOf(s, Strides(s), 0))

DidGemm ==
    \E m, n, k \in GemmSizes, ta, tb \in BOOLEAN :
      call = <<"gemm", m, n, k, ta, tb>> /\ answer = GemmTask(m, n, k, ta, tb)

\* The tensors' elements are integers, as many as the shape says.
Contents(s, m) == m \in [{"x", "y", "z"} -> [0 .. (Product(s) - 1) -> Int]]

OpTypes == shape \in Shapes /\ Contents(shape, before)

OpInv ==
    /\ OpTypes
    /\ call = NoCall => mem = before
    /\ \/ call = NoCall /\ answer = NotImplemented
       \/ DidElementwise \/ DidInPlace \/ DidReduce \/ DidNotReduce \/ DidSoftmax \/ DidHardmax
       \/ DidNorm \/ DidFill \/ DidSlice \/ DidTranspose \/ DidReshape \/ DidGemm

\* What the types say of the contents.
LEMMA OpSizes ==
    ASSUME OpTypes
    PROVE  /\ shape \in Dimensions /\ NumElements \in Nat \ {0} /\ NumElements = Product(shape)
           /\ \A t \in {"x", "y", "z"} : /\ before[t] \in [0 .. (NumElements - 1) -> Int]
                                         /\ DOMAIN before[t] = 0 .. (NumElements - 1)
                                         /\ \A i \in 0 .. (NumElements - 1) : before[t][i] \in Int
           /\ DOMAIN before = {"x", "y", "z"} /\ before = [t \in {"x", "y", "z"} |-> before[t]]
<1>1. shape \in Dimensions
  BY OperatorAssumption DEF OpTypes, Dimensions
<1>2. shape \in Seq(Nat \ {0})
  BY <1>1 DEF Dimensions
<1>3. Product(shape) \in Nat \ {0}
  BY <1>2, ProductPos
<1>4. before \in [{"x", "y", "z"} -> [0 .. (Product(shape) - 1) -> Int]]
  BY DEF OpTypes, Contents
<1>5. PICK N : N = NumElements
  OBVIOUS
<1>6. N = Product(shape)
  BY <1>5 DEF NumElements
<1>7. ASSUME NEW t \in {"x", "y", "z"}
      PROVE  before[t] \in [0 .. (N - 1) -> Int]
  BY <1>4, <1>6
<1>8. QED
  BY <1>1, <1>3, <1>4, <1>5, <1>6, <1>7

\* The whole tensor is one row.
LEMMA OneRow ==
    ASSUME NEW n \in Nat \ {0}, NEW i \in 0 .. (n - 1)
    PROVE  RowSet((i \div n) * n, n) = 0 .. (n - 1) /\ i \in 0 .. (1 * n - 1) /\ 1 * n = n
<1>1. i \div n = 0
  OBVIOUS
<1>2. (i \div n) * n = 0
  BY <1>1
<1>3. RowSet(0, n) = 0 .. (n - 1)
  <2>1. PICK S : S = 0 .. (n - 1)
    OBVIOUS
  <2>2. \A c \in S : 0 + c = c
    BY <2>1
  <2>3. {0 + c : c \in S} = S
    BY <2>2
  <2>4. QED
    BY <2>1, <2>3 DEF RowSet
<1>4. 1 * n = n
  OBVIOUS
<1>5. QED
  BY <1>2, <1>3, <1>4

\* Each call means what it should: elementwise,
LEMMA ElementwiseMeets ==
    ASSUME OpTypes, DidElementwise
    PROVE  MeetsReference
<1>1. PICK op \in Arithmetic \cup Functions1, b \in {"x", "y"} :
        call = <<op, "x", b>> /\ answer = ElementByElement(op, before["x"], before[b], NumElements)
  BY DEF DidElementwise
<1>2. DOMAIN before["x"] = 0 .. (NumElements - 1) /\ NumElements \in Nat
  BY OpSizes
<1>3. \A i \in DOMAIN before["x"] : answer.out[i] = Apply(op, before["x"][i], before[b][i])
  BY <1>1, <1>2, ElementsAre
<1>4. Len(call) = 3 /\ call[1] = op /\ call[3] = b /\ op # "gemm"
  BY <1>1 DEF Arithmetic, Functions1
<1>5. MeansElements
  BY <1>3, <1>4 DEF MeansElements
<1>6. QED
  BY <1>4, <1>5 DEF MeetsReference, Square, Arithmetic, Functions1

\* in memory the arguments share,
LEMMA InPlaceMeets ==
    ASSUME OpTypes, DidInPlace
    PROVE  MeetsReference
<1>1. PICK op \in {"add", "mul"}, a \in {"x", "y", "z"}, b \in {"x", "y", "z"}, out \in {"x", "y", "z"} :
        call = <<op, a, b, out>> /\ mem = Overwrite(op, a, b, out, NumElements, before)
  BY DEF DidInPlace
<1>2. PICK n, D : n = NumElements /\ D = 0 .. (n - 1)
  OBVIOUS
<1>3. /\ DOMAIN before["x"] = D /\ n \in Nat /\ DOMAIN before = {"x", "y", "z"}
      /\ before = [t \in {"x", "y", "z"} |-> before[t]] /\ before[out] \in [D -> Int]
  BY <1>2, OpSizes
<1>4. before = [t \in DOMAIN before |-> before[t]] /\ before[out] = [i \in 0 .. (n - 1) |-> before[out][i]]
  BY <1>2, <1>3
<1>5. mem = Overwritten(n, op, a, b, out, 0 .. (n - 1), before)
  <2>1. a \in DOMAIN before /\ b \in DOMAIN before /\ out \in DOMAIN before
    BY <1>3
  <2>2. Overwrite(op, a, b, out, n, before) = Overwritten(n, op, a, b, out, 0 .. (n - 1), before)
    BY <1>3, <1>4, <2>1, OverwriteIs
  <2>3. QED
    BY <1>1, <1>2, <2>2
<1>6. \A i \in D : mem[out][i] = Apply(op, before[a][i], IF op = "mul" THEN 2 ELSE before[b][i])
  BY <1>2, <1>3, <1>5 DEF Overwritten, Second
<1>7. \A t \in {"x", "y", "z"} \ {out} : mem[t] = before[t]
  BY <1>3, <1>5 DEF Overwritten
<1>8. Len(call) = 4 /\ call[1] = op /\ call[2] = a /\ call[3] = b /\ call[4] = out /\ op # "gemm"
  BY <1>1
<1>9. MeansInPlace
  BY <1>3, <1>6, <1>7, <1>8 DEF MeansInPlace
<1>10. QED
  BY <1>8, <1>9 DEF MeetsReference, Square

\* reductions,
LEMMA ReduceMeets ==
    ASSUME OpTypes, DidReduce
    PROVE  MeetsReference
<1>1. PICK op \in WholeReductions : call = <<op>> /\ answer = Ok([i \in {0} |-> Reduced(op, before["x"], NumElements)])
  BY DEF DidReduce
<1>2. before["x"] \in [0 .. (NumElements - 1) -> Int] /\ NumElements \in Nat \ {0}
  BY OpSizes
<1>3. MeansReduce(before["x"], Reduced(op, before["x"], NumElements))
  BY <1>1, <1>2, ReducedMeans
<1>4. answer.out[0] = Reduced(op, before["x"], NumElements)
  BY <1>1 DEF Ok
<1>5. Len(call) = 1 /\ call[1] = op
  BY <1>1
<1>6. /\ op \notin {"softmax", "log_softmax", "layer_norm", "rms_norm", "hardmax", "fill", "slice", "transpose", "reshape", "gemm"}
  BY DEF WholeReductions
<1>7. MeansReduce(before["x"], answer.out[0])
  BY <1>3, <1>4
<1>8. QED
  BY <1>5, <1>6, <1>7 DEF MeetsReference, Square

\* calls that are refused,
LEMMA NotReduceMeets ==
    ASSUME DidNotReduce
    PROVE  MeetsReference
BY DEF DidNotReduce, NotImplemented, MeetsReference, Square

\* fill,
LEMMA FillMeets ==
    ASSUME OpTypes, DidFill
    PROVE  MeetsReference
<1>1. call[1] = "fill" /\ Len(call) = 1 /\ answer.out = FillLoop(before["x"], NumElements, 5)
  BY DEF DidFill, Ok
<1>2. /\ DOMAIN before["x"] = 0 .. (NumElements - 1) /\ NumElements \in Nat \ {0}
      /\ before["x"] \in [0 .. (NumElements - 1) -> Int]
  BY OpSizes
<1>3. before["x"] = [i \in DOMAIN before["x"] |-> before["x"][i]]
  BY <1>2
<1>4. \A i \in DOMAIN before["x"] : answer.out[i] = 5
  BY <1>1, <1>2, <1>3, FillIs
<1>5. QED
  BY <1>1, <1>4 DEF MeetsReference, Square, Arithmetic, Functions1

\* the GEMM task,
LEMMA GemmMeets ==
    ASSUME DidGemm
    PROVE  MeetsReference
<1>1. PICK m \in GemmSizes, n \in GemmSizes, k \in GemmSizes, ta \in BOOLEAN, tb \in BOOLEAN :
        call = <<"gemm", m, n, k, ta, tb>> /\ answer = GemmTask(m, n, k, ta, tb)
  BY DEF DidGemm
<1>2. call[1] = "gemm" /\ call[2] = m /\ call[3] = n /\ call[4] = k /\ call[5] = ta /\ call[6] = tb
  BY <1>1
<1>3. ASSUME m = n, n = k
      PROVE  /\ answer.ok
             /\ \A i \in 0 .. (m * n - 1) : answer.out[i] = MeansGemm(m, n, k, ta, tb, i)
  <2>1. n \in Nat \ {0}
    BY OperatorAssumption
  <2>2. answer = GemmTask(n, n, n, ta, tb)
    BY <1>1, <1>3
  <2>3. QED
    BY <1>3, <2>1, <2>2, GemmMeans
<1>4. ASSUME answer.ok PROVE m = n /\ n = k
  <2>1. m \in Nat \ {0} /\ n \in Nat \ {0} /\ k \in Nat \ {0}
    BY OperatorAssumption
  <2>2. GemmTask(m, n, k, ta, tb).ok
    BY <1>1, <1>4
  <2>3. QED
    BY <2>1, <2>2, GemmStays
<1>5. answer.ok => Square /\ MeansProduct
  BY <1>2, <1>3, <1>4 DEF MeansProduct, Square
<1>6. Len(call) = 6
  BY <1>1
<1>7. QED
  BY <1>2, <1>3, <1>5, <1>6 DEF MeetsReference, Square, Arithmetic, Functions1

\* Softmax of a vector and of a matrix means row by row.
LEMMA SoftmaxMeets ==
    ASSUME OpTypes, DidSoftmax
    PROVE  MeetsReference
<1>1. PICK op \in {"softmax", "log_softmax"}, axis \in -1 .. 2 :
        call = <<op, axis>> /\ answer = SoftmaxOf(op, axis, before["x"], shape)
  BY DEF DidSoftmax
<1>2. PICK x, N : x = before["x"] /\ N = NumElements
  OBVIOUS
<1>3. /\ shape \in Dimensions /\ N \in Nat \ {0} /\ N = Product(shape)
      /\ x \in [0 .. (N - 1) -> Int] /\ DOMAIN x = 0 .. (N - 1)
  BY <1>2, OpSizes
<1>4. call[1] = op /\ Len(call) = 2
  BY <1>1
<1>5. ASSUME NEW i, NEW S, S = Group(i)
      PROVE  MeansRow(x, i) = SoftmaxCell(op, x, i, S)
  BY <1>4, <1>5 DEF MeansRow, ExpsSum, SoftmaxCell
<1>6. CASE ~LastAxis(axis, shape)
  <2>1. ~answer.ok
    BY <1>1, <1>6 DEF SoftmaxOf, NotImplemented
  <2>2. QED
    BY <1>4, <2>1 DEF MeetsReference, Square
<1>7. ASSUME NEW rows \in Nat, NEW n \in Nat \ {0}, rows * n = N, answer = SoftmaxRows(op, x, rows, n),
             \A i \in 0 .. (N - 1) : Group(i) = RowSet((i \div n) * n, n)
      PROVE  MeetsReference
  <2>1. ASSUME NEW i \in DOMAIN x PROVE answer.out[i] = MeansRow(x, i)
    <3>1. PICK S : S = RowSet((i \div n) * n, n)
      OBVIOUS
    <3>2. S = Group(i) /\ InRow(x, i, rows, n, S)
      BY <1>3, <1>7, <3>1 DEF InRow
    <3>3. SoftmaxRows(op, x, rows, n).out[i] = SoftmaxCell(op, x, i, S)
      BY <3>2, SoftmaxRowsAre
    <3>4. QED
      BY <1>5, <1>7, <3>2, <3>3
  <2>2. MeansRows
    BY <1>2, <2>1 DEF MeansRows
  <2>3. QED
    BY <1>4, <2>2 DEF MeetsReference, Square, Arithmetic, Functions1
<1>8. CASE LastAxis(axis, shape) /\ Len(shape) = 2
  <2>1. shape[1] \in Nat \ {0} /\ shape[2] \in Nat \ {0} /\ N = shape[1] * shape[2]
    <3>1. shape \in Seq(Nat \ {0})
      BY <1>3 DEF Dimensions
    <3>2. QED
      BY <1>3, <1>8, <3>1, ProductOne
  <2>2. answer = SoftmaxRows(op, x, shape[1], shape[2])
    BY <1>1, <1>2, <1>8 DEF SoftmaxOf
  <2>3. \A i \in 0 .. (N - 1) : Group(i) = RowSet((i \div shape[2]) * shape[2], shape[2])
    BY <1>2, <1>8 DEF Group, Cols, RowSet
  <2>4. QED
    BY <1>7, <2>1, <2>2, <2>3
<1>9. CASE LastAxis(axis, shape) /\ Len(shape) = 1
  <2>1. answer = SoftmaxRows(op, x, 1, N)
    BY <1>1, <1>2, <1>3, <1>9 DEF SoftmaxOf
  <2>2. \A i \in 0 .. (N - 1) : Group(i) = RowSet((i \div N) * N, N)
    <3>1. Cols(shape) = N
      <4>1. shape \in Seq(Nat \ {0})
        BY <1>3 DEF Dimensions
      <4>2. QED
        BY <1>3, <1>9, <4>1, ProductOne DEF Cols
    <3>2. QED
      BY <3>1 DEF Group, RowSet
  <2>3. 1 * N = N /\ 1 \in Nat
    BY <1>3
  <2>4. QED
    BY <1>3, <1>7, <2>1, <2>2, <2>3
<1>10. CASE Len(shape) \notin {1, 2}
  <2>1. Len(shape) > 2
    BY <1>3, <1>10 DEF Dimensions
  <2>2. Flattened
    BY <1>4, <2>1 DEF Flattened
  <2>3. QED
    BY <1>4, <2>2 DEF MeetsReference, Square
<1>11. QED
  BY <1>6, <1>8, <1>9, <1>10

\* An element of a row is one of the tensor.
LEMMA RowCell ==
    ASSUME NEW rows \in Nat, NEW n \in Nat \ {0}, NEW r \in 0 .. (rows - 1), NEW c \in 0 .. (n - 1)
    PROVE  r * n + c \in 0 .. (rows * n - 1)
<1>1. PICK N, j : N = rows * n /\ j = r * n + c
  OBVIOUS
<1>2. N \in Int /\ j \in Int
  BY <1>1
<1>3. Split(j, n, r, c)
  BY <1>1 DEF Split
<1>4. Below(j, n, r, rows)
  BY <1>2, <1>3, SplitBelow
<1>5. j >= 0
  <2>1. PICK t : t = r * n
    OBVIOUS
  <2>2. t \in Nat
    BY <2>1
  <2>3. QED
    BY <1>1, <2>1, <2>2
<1>6. j < N
  BY <1>1, <1>2, <1>4 DEF Below
<1>7. QED
  BY <1>1, <1>2, <1>5, <1>6

\* Hardmax of a matrix: a one in every row.  Of any other tensor, and along any other
\* axis, it is all zeros, and so no one-hot vector.
LEMMA HardmaxMeets ==
    ASSUME OpTypes, DidHardmax
    PROVE  MeetsReference
<1>1. PICK axis \in -1 .. 2 : call = <<"hardmax", axis>> /\ answer = HardmaxOf(axis, before["x"], shape)
  BY DEF DidHardmax
<1>2. PICK x, N, zero : x = before["x"] /\ N = NumElements /\ zero = [i \in 0 .. (N - 1) |-> 0]
  OBVIOUS
<1>3. /\ shape \in Dimensions /\ N \in Nat \ {0} /\ N = Product(shape)
      /\ x \in [0 .. (N - 1) -> Int] /\ DOMAIN x = 0 .. (N - 1)
  BY <1>2, OpSizes
<1>4. call[1] = "hardmax" /\ call[2] = axis /\ Len(call) = 2
  BY <1>1
<1>5. CASE LastAxis(axis, shape) /\ Len(shape) = 2
  <2>1. PICK rows, n : rows = shape[1] /\ n = shape[2]
    OBVIOUS
  <2>2. rows \in Nat /\ n \in Nat \ {0} /\ N = rows * n
    <3>1. shape \in Seq(Nat \ {0})
      BY <1>3 DEF Dimensions
    <3>2. QED
      BY <1>3, <1>5, <2>1, <3>1, ProductOne
  <2>3. PICK D : D = 0 .. (N - 1)
    OBVIOUS
  <2>4. ASSUME NEW r \in 0 .. (rows - 1) PROVE ArgMax(Row(x, r, n), n) \in 0 .. (n - 1)
    <3>1. PICK d : d = Row(x, r, n)
      OBVIOUS
    <3>2. \A c \in 0 .. (n - 1) : d[c] \in Int
      <4>1. TAKE c \in 0 .. (n - 1)
      <4>2. PICK i : i = r * n + c
        OBVIOUS
      <4>3. i \in 0 .. (N - 1)
        BY <2>2, <4>2, RowCell
      <4>4. QED
        BY <1>3, <3>1, <4>2, <4>3 DEF Row
    <3>3. FirstOfLargest(d, n, ArgMax(d, n))
      BY <2>2, <3>2, ArgIs
    <3>4. QED
      BY <3>1, <3>3 DEF FirstOfLargest
  <2>5. answer.out = Ones(rows, n, x, D)
    <3>1. answer.out = OneHot(x, rows, n, [i \in D |-> 0])
      BY <1>1, <1>2, <1>3, <1>5, <2>1, <2>3 DEF HardmaxOf, Ok
    <3>2. OneHot(x, rows, n, [i \in D |-> 0]) = Ones(rows, n, x, D)
      BY <2>2, <2>4, HardmaxIs
    <3>3. QED
      BY <3>1, <3>2
  <2>6. ASSUME NEW i \in DOMAIN x
        PROVE  answer.out[i] = IF i = FirstLargest(x, Group(i)) THEN 1 ELSE 0
    <3>1. PICK S : S = RowSet((i \div n) * n, n)
      OBVIOUS
    <3>2. Group(i) = S
      BY <1>5, <2>1, <3>1 DEF Group, Cols, RowSet
    <3>3. InRow(x, i, rows, n, S) /\ D = 0 .. (rows * n - 1)
      BY <1>3, <2>2, <2>3, <3>1 DEF InRow
    <3>4. Ones(rows, n, x, 0 .. (rows * n - 1))[i] = IF i = FirstLargest(x, S) THEN 1 ELSE 0
      BY <3>3, HardmaxAre
    <3>5. QED
      BY <2>5, <3>2, <3>3, <3>4
  <2>7. MeansOneHot
    BY <1>2, <1>4, <1>5, <2>6 DEF MeansOneHot
  <2>8. QED
    BY <1>4, <1>5, <2>7 DEF MeetsReference, Square, Arithmetic, Functions1
<1>6. CASE ~(LastAxis(axis, shape) /\ Len(shape) = 2)
  <2>1. answer.out = zero
    BY <1>1, <1>2, <1>3, <1>6 DEF HardmaxOf, Ok
  <2>2. PICK rows, n : rows = Product(Front(shape)) /\ n = Cols(shape)
    OBVIOUS
  <2>3. rows \in Nat \ {0} /\ n \in Nat \ {0} /\ N = rows * n
    BY <1>3, <2>2, ProductFront DEF Cols
  <2>4. PICK S, top : S = RowSet((0 \div n) * n, n) /\ top = FirstLargest(x, S)
    OBVIOUS
  <2>5. S = 0 .. (n - 1)
    <3>1. 0 \in 0 .. (n - 1)
      BY <2>3
    <3>2. QED
      BY <2>3, <2>4, <3>1, OneRow
  <2>6. InRow(x, 0, rows, n, S)
    <3>1. 0 \in 0 .. (N - 1)
      BY <1>3
    <3>2. QED
      BY <1>3, <2>3, <2>4, <3>1 DEF InRow
  <2>7. top \in 0 .. (n - 1)
    BY <2>4, <2>5, <2>6, HardmaxAre
  <2>8. Group(top) = S
    <3>1. RowSet((top \div n) * n, n) = 0 .. (n - 1)
      BY <2>3, <2>7, OneRow
    <3>2. QED
      BY <2>2, <2>5, <3>1 DEF Group, RowSet
  <2>9. top \in 0 .. (N - 1)
    <3>1. 0 \in 0 .. (rows - 1)
      BY <2>3
    <3>2. 0 * n + top \in 0 .. (rows * n - 1)
      BY <2>3, <2>7, <3>1, RowCell
    <3>3. 0 * n + top = top
      BY <2>3, <2>7
    <3>4. QED
      BY <2>3, <3>2, <3>3
  <2>10. answer.out[top] = 0
    BY <1>2, <2>1, <2>9
  <2>11. ~MeansOneHot
    BY <1>2, <1>3, <2>4, <2>8, <2>9, <2>10 DEF MeansOneHot
  <2>12. QED
    BY <1>4, <1>6, <2>11 DEF MeetsReference, Square, Arithmetic, Functions1
<1>7. QED
  BY <1>5, <1>6

\* Normalisation: over the last dimension.
LEMMA NormMeets ==
    ASSUME OpTypes, DidNorm
    PROVE  MeetsReference
<1>1. PICK op \in {"layer_norm", "rms_norm"} :
        call = <<op>> /\ answer = NormRows(op, before, Product(Front(shape)), Cols(shape))
  BY DEF DidNorm
<1>2. PICK x, N, rows, n : x = before["x"] /\ N = NumElements /\ rows = Product(Front(shape)) /\ n = Cols(shape)
  OBVIOUS
<1>3. /\ shape \in Dimensions /\ N = Product(shape)
      /\ x \in [0 .. (N - 1) -> Int] /\ DOMAIN x = 0 .. (N - 1)
  BY <1>2, OpSizes
<1>4. rows \in Nat /\ n \in Nat \ {0} /\ N = rows * n
  BY <1>2, <1>3, ProductFront DEF Cols
<1>5. call[1] = op /\ Len(call) = 1
  BY <1>1
<1>6. ASSUME NEW i \in DOMAIN x PROVE answer.out[i] = MeansRow(x, i)
  <2>1. PICK S, c : S = RowSet((i \div n) * n, n) /\ c = i % n
    OBVIOUS
  <2>2. InRow(x, i, rows, n, S)
    BY <1>3, <1>4, <2>1 DEF InRow
  <2>3. NormRows(op, before, rows, n).out[i] = NormCell(op, before, x, i, c, n, S)
    BY <1>2, <2>1, <2>2, NormRowsAre
  <2>4. Group(i) = S
    BY <1>2, <2>1 DEF Group, RowSet
  <2>5. CASE op = "layer_norm"
    <3>1. MeansRow(x, i) = <<n * x[i] - SumOf(x, S), n * (n * Squared(x, S) - SumOf(x, S) * SumOf(x, S)),
                             before["y"][c], before["z"][c]>>
      BY <1>2, <1>5, <2>1, <2>4, <2>5 DEF MeansRow, Squared
    <3>2. QED
      BY <1>1, <1>2, <2>3, <2>5, <3>1 DEF NormCell
  <2>6. CASE op = "rms_norm"
    <3>1. MeansRow(x, i) = <<x[i], Squared(x, S), before["y"][c]>>
      BY <1>2, <1>5, <2>1, <2>4, <2>6 DEF MeansRow, Squared
    <3>2. QED
      BY <1>1, <1>2, <2>3, <2>6, <3>1 DEF NormCell
  <2>7. QED
    BY <2>5, <2>6
<1>7. MeansRows
  BY <1>2, <1>6 DEF MeansRows
<1>8. QED
  BY <1>5, <1>7 DEF MeetsReference, Square, Arithmetic, Functions1

\* The views: a slice, which is right when it is whole or outermost and wrong otherwise,
LEMMA SliceMeets ==
    ASSUME OpTypes, DidSlice
    PROVE  MeetsReference
<1>1. PICK d \in DOMAIN shape : \E from \in 0 .. (shape[d] - 1) : \E to \in (from + 1) .. shape[d] :
        call = <<"slice", d, from, to>> /\ answer = SliceOf(shape, d, from, to)
  BY DEF DidSlice
<1>2. PICK from \in 0 .. (shape[d] - 1) : \E to \in (from + 1) .. shape[d] :
        call = <<"slice", d, from, to>> /\ answer = SliceOf(shape, d, from, to)
  BY <1>1
<1>3. PICK to \in (from + 1) .. shape[d] :
        call = <<"slice", d, from, to>> /\ answer = SliceOf(shape, d, from, to)
  BY <1>2
<1>4. shape \in Dimensions
  BY OpSizes
<1>5. call[1] = "slice" /\ call[2] = d /\ call[3] = from /\ call[4] = to /\ Len(call) = 4
  BY <1>3
<1>6. PICK new, st, first : /\ new = Cut(shape, d, from, to) /\ st = Strides(new)
                            /\ first = from * Strides(shape)[d]
  OBVIOUS
<1>7. answer.out = ViewOf(new, st, first)
  BY <1>3, <1>6 DEF SliceOf, Cut, Ok
<1>8. DOMAIN answer.out = Indices(new)
  BY <1>7 DEF ViewOf
<1>9. ASSUME Sliceable, NEW ix \in Indices(new) PROVE answer.out[ix] = MeansView(ix)
  <2>1. to - from = shape[d] \/ \A e \in 1 .. (d - 1) : shape[e] = 1
    BY <1>5, <1>9 DEF Sliceable
  <2>2. \A jx \in Indices(Cut(shape, d, from, to)) :
           ViewOf(Cut(shape, d, from, to), Strides(Cut(shape, d, from, to)), from * Strides(shape)[d])[jx]
             = Address([jx EXCEPT ![d] = @ + from], shape)
    BY <1>4, <2>1, SliceIs
  <2>3. answer.out[ix] = Address([ix EXCEPT ![d] = @ + from], shape)
    BY <1>6, <1>7, <1>9, <2>2
  <2>4. MeansView(ix) = Address([ix EXCEPT ![d] = @ + from], shape)
    BY <1>5 DEF MeansView
  <2>5. QED
    BY <2>3, <2>4
<1>10. Sliceable => MeansViews
  BY <1>8, <1>9 DEF MeansViews
<1>11. ASSUME ~Sliceable PROVE ~MeansViews
  <2>1. to - from # shape[d]
    BY <1>5, <1>11 DEF Sliceable
  <2>2. PICK e \in 1 .. (d - 1) : shape[e] # 1
    BY <1>5, <1>11 DEF Sliceable
  <2>3. PICK ix \in Indices(new) : answer.out[ix] # Address([ix EXCEPT ![d] = @ + from], shape)
    BY <1>4, <1>6, <1>7, <2>1, <2>2, SliceIsNot
  <2>4. MeansView(ix) = Address([ix EXCEPT ![d] = @ + from], shape)
    BY <1>5 DEF MeansView
  <2>5. QED
    BY <1>8, <2>3, <2>4 DEF MeansViews
<1>12. QED
  BY <1>5, <1>10, <1>11 DEF MeetsReference, Square, Arithmetic, Functions1

\* any transposition,
LEMMA TransposeMeets ==
    ASSUME OpTypes, DidTranspose
    PROVE  MeetsReference
<1>1. PICK i \in DOMAIN shape, j \in DOMAIN shape : call = <<"transpose", i, j>> /\ answer = TransposeOf(shape, i, j)
  BY DEF DidTranspose
<1>2. shape \in Dimensions
  BY OpSizes
<1>3. call[1] = "transpose" /\ call[2] = i /\ call[3] = j /\ Len(call) = 3
  BY <1>1
<1>4. PICK new, st : new = Swap(shape, i, j) /\ st = Swap(Strides(shape), i, j)
  OBVIOUS
<1>5. answer.out = ViewOf(new, st, 0)
  BY <1>1, <1>4 DEF TransposeOf, Ok
<1>6. DOMAIN answer.out = Indices(new)
  BY <1>5 DEF ViewOf
<1>7. ASSUME NEW ix \in Indices(new) PROVE answer.out[ix] = MeansView(ix)
  <2>1. \A jx \in Indices(Swap(shape, i, j)) :
          ViewOf(Swap(shape, i, j), Swap(Strides(shape), i, j), 0)[jx] = Address(Swap(jx, i, j), shape)
    BY <1>2, TransposeIs
  <2>2. MeansView(ix) = Address(Swap(ix, i, j), shape)
    BY <1>3 DEF MeansView
  <2>3. QED
    BY <1>4, <1>5, <1>7, <2>1, <2>2
<1>8. MeansViews
  BY <1>3, <1>6, <1>7 DEF MeansViews
<1>9. QED
  BY <1>3, <1>8 DEF MeetsReference, Square, Arithmetic, Functions1

\* and any reshaping.
LEMMA ReshapeMeets ==
    ASSUME DidReshape
    PROVE  MeetsReference
<1>1. PICK s \in Shapes : call = <<"reshape", s>> /\ answer = Ok(ViewOf(s, Strides(s), 0))
  BY DEF DidReshape
<1>2. s \in Dimensions
  BY OperatorAssumption DEF Dimensions
<1>3. call[1] = "reshape" /\ call[2] = s /\ Len(call) = 2
  BY <1>1
<1>4. answer.out = ViewOf(s, Strides(s), 0)
  BY <1>1 DEF Ok
<1>5. DOMAIN answer.out = Indices(s)
  BY <1>4 DEF ViewOf
<1>6. ASSUME NEW ix \in Indices(s) PROVE answer.out[ix] = MeansView(ix)
  <2>1. MeansView(ix) = Address(ix, s)
    BY <1>3 DEF MeansView
  <2>2. QED
    BY <1>2, <1>4, <2>1, ReshapeIs
<1>7. MeansViews
  BY <1>3, <1>5, <1>6 DEF MeansViews
<1>8. QED
  BY <1>3, <1>7 DEF MeetsReference, Square, Arithmetic, Functions1

\* The invariant says that every call means what it should.
LEMMA OpSound ==
    ASSUME OpInv
    PROVE  MeetsReference
<1>1. OpTypes
  BY DEF OpInv
<1>2. CASE call = NoCall /\ answer = NotImplemented
  BY <1>2 DEF NoCall, NotImplemented, MeetsReference, Square
<1>3. QED
  BY <1>1, <1>2, ElementwiseMeets, InPlaceMeets, ReduceMeets, NotReduceMeets, SoftmaxMeets, HardmaxMeets,
     NormMeets, FillMeets, SliceMeets, TransposeMeets, ReshapeMeets, GemmMeets DEF OpInv

\* It holds before the call,
LEMMA OpInitKept ==
    ASSUME OpInit
    PROVE  OpInv
<1>1. shape \in Shapes /\ before = mem /\ call = NoCall /\ answer = NotImplemented
  BY DEF OpInit
<1>2. PICK N : N = Product(shape)
  OBVIOUS
<1>3. N \in Nat \ {0}
  <2>1. shape \in Seq(Nat \ {0})
    BY <1>1, OperatorAssumption
  <2>2. QED
    BY <1>2, <2>1, ProductPos
<1>4. PICK x \in [0 .. (N - 1) -> Values] :
        mem = [t \in {"x", "y", "z"} |-> [i \in DOMAIN x |->
                 CASE t = "x" -> x[i] [] t = "y" -> i - 1 [] OTHER -> 2 - i]]
  BY <1>2 DEF OpInit, NumElements
<1>5. ASSUME NEW t \in {"x", "y", "z"} PROVE mem[t] \in [0 .. (N - 1) -> Int]
  <2>1. mem[t] = [i \in 0 .. (N - 1) |-> CASE t = "x" -> x[i] [] t = "y" -> i - 1 [] OTHER -> 2 - i]
    BY <1>4
  <2>2. ASSUME NEW i \in 0 .. (N - 1) PROVE mem[t][i] \in Int
    <3>1. x[i] \in Int /\ i - 1 \in Int /\ 2 - i \in Int
      BY <1>3, <1>4, OperatorAssumption
    <3>2. mem[t][i] = CASE t = "x" -> x[i] [] t = "y" -> i - 1 [] OTHER -> 2 - i
      BY <2>1
    <3>3. QED
      BY <3>1, <3>2
  <2>3. QED
    BY <2>1, <2>2
<1>6. mem \in [{"x", "y", "z"} -> [0 .. (N - 1) -> Int]]
  BY <1>4, <1>5
<1>7. QED
  BY <1>1, <1>2, <1>6 DEF OpInv, OpTypes, Contents

\* A call is made once, on the elements before it.
LEMMA OpStep ==
    ASSUME OpInv, [OpNext]_opVars
    PROVE  OpInv'
<1>1. CASE UNCHANGED opVars
  BY <1>1 DEF OpInv, OpTypes, Contents, opVars, NumElements, DidElementwise, DidInPlace, DidReduce, DidNotReduce,
     DidSoftmax, DidHardmax, DidNorm, DidFill, DidSlice, DidTranspose, DidReshape, DidGemm
<1>2. CASE OpNext
  <2>1. call = NoCall => mem = before /\ OpTypes
    BY DEF OpInv
  <2>2. ASSUME NEW c, NEW r, Returns(c, r)
        PROVE  /\ mem = before /\ OpTypes' /\ (call = NoCall => mem = before)' /\ call' = c /\ answer' = r
               /\ UNCHANGED <<shape, before>>
    BY <2>1, <2>2 DEF Returns, OpTypes, Contents
  <2>3. CASE Elementwise \/ ElementwiseUnary
    <3>1. PICK op \in Arithmetic \cup Functions1, b \in {"x", "y"} :
            Returns(<<op, "x", b>>, ElementByElement(op, mem["x"], mem[b], NumElements))
      BY <2>3 DEF Elementwise, ElementwiseUnary
    <3>2. DidElementwise'
      BY <2>2, <3>1 DEF DidElementwise, NumElements
    <3>3. QED
      BY <2>2, <3>1, <3>2 DEF OpInv
  <2>4. CASE InPlace
    <3>1. PICK op \in {"add", "mul"}, a \in {"x", "y", "z"}, b \in {"x", "y", "z"}, out \in {"x", "y", "z"} :
            /\ call = NoCall
            /\ op = "mul" => a = b /\ b = out
            /\ mem' = Overwrite(op, a, b, out, NumElements, mem)
            /\ call' = <<op, a, b, out>>
            /\ answer' = Ok(<<>>)
            /\ UNCHANGED <<shape, before>>
      BY <2>4 DEF InPlace
    <3>2. DidInPlace'
      BY <2>1, <3>1 DEF DidInPlace, NumElements
    <3>3. OpTypes'
      BY <2>1, <3>1 DEF OpTypes, Contents
    <3>4. call' # NoCall
      BY <3>1 DEF NoCall
    <3>5. QED
      BY <3>2, <3>3, <3>4 DEF OpInv, NoCall
  <2>5. CASE Reduce
    <3>1. PICK op \in WholeReductions : Returns(<<op>>, Ok([i \in {0} |-> Reduced(op, mem["x"], NumElements)]))
      BY <2>5 DEF Reduce
    <3>2. PICK v : v = Reduced(op, mem["x"], NumElements)
      OBVIOUS
    <3>3. v = Reduced(op, before["x"], NumElements)'
      BY <2>2, <3>1, <3>2 DEF NumElements
    <3>4. call' = <<op>> /\ answer' = Ok([i \in {0} |-> v])
      BY <2>2, <3>1, <3>2
    <3>5. DidReduce'
      BY <3>3, <3>4 DEF DidReduce
    <3>6. QED
      BY <2>2, <3>1, <3>5 DEF OpInv
  <2>6. CASE ReduceAxis
    <3>1. PICK op \in {"sum", "mean", "max", "argmax", "argmin", "batch_norm"} : Returns(<<op, "axis">>, NotImplemented)
      BY <2>6 DEF ReduceAxis
    <3>2. DidNotReduce'
      BY <2>2, <3>1 DEF DidNotReduce, NoCall, NotImplemented
    <3>3. QED
      BY <2>2, <3>1, <3>2 DEF OpInv
  <2>7. CASE Softmax
    <3>1. PICK op \in {"softmax", "log_softmax"}, axis \in -1 .. 2 :
            Returns(<<op, axis>>, SoftmaxOf(op, axis, mem["x"], shape))
      BY <2>7 DEF Softmax
    <3>2. DidSoftmax'
      BY <2>2, <3>1 DEF DidSoftmax
    <3>3. QED
      BY <2>2, <3>1, <3>2 DEF OpInv
  <2>8. CASE Hardmax
    <3>1. PICK axis \in -1 .. 2 : Returns(<<"hardmax", axis>>, HardmaxOf(axis, mem["x"], shape))
      BY <2>8 DEF Hardmax
    <3>2. DidHardmax'
      BY <2>2, <3>1 DEF DidHardmax
    <3>3. QED
      BY <2>2, <3>1, <3>2 DEF OpInv
  <2>9. CASE LayerNorm \/ RmsNorm
    <3>1. PICK op \in {"layer_norm", "rms_norm"} :
            Returns(<<op>>, NormRows(op, mem, Product(Front(shape)), Cols(shape)))
      BY <2>9 DEF LayerNorm, RmsNorm
    <3>2. DidNorm'
      BY <2>2, <3>1 DEF DidNorm
    <3>3. QED
      BY <2>2, <3>1, <3>2 DEF OpInv
  <2>10. CASE Fill
    <3>1. Returns(<<"fill">>, Ok(FillLoop(mem["x"], NumElements, 5)))
      BY <2>10 DEF Fill
    <3>2. DidFill'
      BY <2>2, <3>1 DEF DidFill, NumElements
    <3>3. QED
      BY <2>2, <3>1, <3>2 DEF OpInv
  <2>11. CASE Slice
    <3>1. \E d \in DOMAIN shape : \E from \in 0 .. (shape[d] - 1) : \E to \in (from + 1) .. shape[d] :
            Returns(<<"slice", d, from, to>>, SliceOf(shape, d, from, to))
      BY <2>11 DEF Slice
    <3>2. DidSlice'
      BY <2>2, <3>1 DEF DidSlice
    <3>3. \E c, r : Returns(c, r)
      BY <3>1
    <3>4. QED
      BY <2>2, <3>2, <3>3 DEF OpInv
  <2>12. CASE Transpose
    <3>1. PICK i \in DOMAIN shape, j \in DOMAIN shape : Returns(<<"transpose", i, j>>, TransposeOf(shape, i, j))
      BY <2>12 DEF Transpose
    <3>2. DidTranspose'
      BY <2>2, <3>1 DEF DidTranspose
    <3>3. QED
      BY <2>2, <3>1, <3>2 DEF OpInv
  <2>13. CASE Reshape
    <3>1. PICK s \in Shapes : Returns(<<"reshape", s>>, Ok(ViewOf(s, Strides(s), 0)))
      BY <2>13 DEF Reshape
    <3>2. DidReshape'
      BY <2>2, <3>1 DEF DidReshape
    <3>3. QED
      BY <2>2, <3>1, <3>2 DEF OpInv
  <2>14. CASE Gemm
    <3>1. PICK m \in GemmSizes, n \in GemmSizes, k \in GemmSizes, ta \in BOOLEAN, tb \in BOOLEAN :
            Returns(<<"gemm", m, n, k, ta, tb>>, GemmTask(m, n, k, ta, tb))
      BY <2>14 DEF Gemm
    <3>2. DidGemm'
      BY <2>2, <3>1 DEF DidGemm
    <3>3. QED
      BY <2>2, <3>1, <3>2 DEF OpInv
  <2>15. QED
    BY <1>2, <2>3, <2>4, <2>5, <2>6, <2>7, <2>8, <2>9, <2>10, <2>11, <2>12, <2>13, <2>14 DEF OpNext
<1>3. QED
  BY <1>1, <1>2

\* The invariant within MCWork.
LEMMA OpInvStep == (part = "operators" => OpInv) /\ [Next]_vars => (part = "operators" => OpInv)'
<1> SUFFICES ASSUME part = "operators" => OpInv, [Next]_vars, part' = "operators" PROVE OpInv'
  OBVIOUS
<1>1. part = "operators"
  BY DEF Next, RestOf, vars
<1>2. [OpNext]_opVars
  BY <1>1 DEF Next, RestOf, vars
<1>3. QED
  BY <1>1, <1>2, OpStep

\* The math operators, fill, the views and the GEMM task, for every shape, content
\* and size: elementwise calls also in memory their arguments share, reductions,
\* softmax, hardmax and normalisation row by row with exactly the elements of the
\* row, fill by copies of copies, and every element a view's strides lead to.  Where the
\* code departs from the reference is part of it: hardmax is one-hot exactly for a matrix
\* along its last axis, a slice leads to its elements exactly when Sliceable says so, and
\* the GEMM task answers for square matrices only.  Left out is the softmax of a tensor
\* of three dimensions, which is taken over all of it.
THEOREM WorkOperatorsKept == Spec => []OperatorsKept
<1>1. Init => (part = "operators" => OpInv)
  BY OpInitKept DEF Init
<1>2. (part = "operators" => OpInv) => OperatorsKept
  BY OpSound DEF OperatorsKept
<1>3. QED
  BY <1>1, <1>2, OpInvStep, PTL DEF Spec
=============================================================================
