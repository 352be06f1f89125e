---------------------------- MODULE FoldTheorems ----------------------------
(***************************************************************************)
(* Induction and folds, as lemmas without operator parameters: sets of     *)
(* numbers and of subsets have minimal elements, so that the least         *)
(* counterexample of a statement can be named; and what the folds of the   *)
(* community modules compute.                                              *)
(***************************************************************************)
EXTENDS Integers, Sequences, FiniteSets, SequencesExt, FiniteSetsExt, FiniteSetTheorems, WellFoundedInduction, TLAPS

-----------------------------------------------------------------------------
(* Least elements                                                          *)

\* A set of natural numbers that is not empty has a least element.
LEMMA LeastNumber ==
    ASSUME NEW T \in SUBSET Nat, T # {}
    PROVE  \E n \in T : \A m \in T : n <= m
<1> DEFINE R == OpToRel(<, Nat)
<1>1. IsWellFoundedOn(R, Nat)
  BY NatLessThanWellFounded DEF OpToRel
<1>2. PICK n \in T : \A m \in T : ~(<<m, n>> \in R)
  <2> HIDE DEF R
  <2> QED BY <1>1, WFMin
<1>3. \A m \in T : ~(m < n)
  BY <1>2 DEF OpToRel
<1> QED BY <1>3

\* A set of positions that is not empty has a last one.
LEMMA LastIn ==
    ASSUME NEW n \in Nat, NEW s \in SUBSET (1..n), s # {}
    PROVE  Max(s) \in s /\ \A y \in s : Max(s) >= y
<1> DEFINE T == {n - x : x \in s}
<1>0. \A x \in s : x \in 1..n /\ n - x \in Nat
  OBVIOUS
<1>1. T \in SUBSET Nat /\ T # {}
  <2>1. PICK z \in s : TRUE
    OBVIOUS
  <2>2. \A t \in T : \E x \in s : t = n - x
    OBVIOUS
  <2>3. n - z \in T
    BY <2>1
  <2> HIDE DEF T
  <2> QED BY <1>0, <2>2, <2>3
<1>2. PICK m \in T : \A k \in T : m <= k
  <2> HIDE DEF T
  <2> QED BY <1>1, LeastNumber
<1>3. PICK x \in s : m = n - x
  BY <1>2
<1>4. ASSUME NEW y \in s PROVE x >= y
  <2>1. n - y \in T
    OBVIOUS
  <2>2. m <= n - y
    BY <1>2, <2>1
  <2> HIDE DEF T
  <2> QED BY <1>0, <1>3, <2>2
<1> QED BY <1>4 DEF Max

\* A set of natural numbers with 0 and with the successors of its members
\* holds them all.
LEMMA AllNumbers ==
    ASSUME NEW T, 0 \in T, \A n \in Nat : n \in T => n + 1 \in T
    PROVE  \A n \in Nat : n \in T
<1> SUFFICES ASSUME Nat \ T # {} PROVE FALSE
  OBVIOUS
<1>1. PICK n \in Nat \ T : \A m \in Nat \ T : n <= m
  BY LeastNumber
<1>2. n # 0 /\ n - 1 \in Nat /\ n - 1 \in T
  BY <1>1
<1> QED BY <1>2

\* Of the subsets of a finite set, a collection that is not empty has one that
\* includes no other.
LEMMA LeastSubset ==
    ASSUME NEW S, IsFiniteSet(S), NEW C, C \subseteq SUBSET S, C # {}
    PROVE  \E T \in C : \A U \in C : U \subseteq T => U = T
<1> DEFINE R == StrictSubsetOrdering(S)
<1>1. IsWellFoundedOn(R, SUBSET S)
  BY FS_StrictSubsetOrderingWellFounded, FS_FiniteSubsetsOfFinite
<1>2. PICK T \in C : \A U \in C : ~(<<U, T>> \in R)
  <2> HIDE DEF R
  <2> QED BY <1>1, WFMin
<1> QED BY <1>2 DEF StrictSubsetOrdering

-----------------------------------------------------------------------------
(* Functions defined by recursion on a number                              *)

\* h takes a member of S and a value to a value.
Operates(h, S, V) == \A x \in S, v \in V : h[<<x, v>>] \in V

\* k follows the recursion up to n: from base, by h.
Goes(k, n, base, h) == k[0] = base /\ \A i \in 0..n - 1 : k[i + 1] = h[<<i + 1, k[i]>>]

Iterated(g, V, base, h) ==
    /\ g \in [Nat -> V] /\ g[0] = base
    /\ \A n \in Nat : g[n + 1] = h[<<n + 1, g[n]>>]

\* The recursion has a solution for all numbers.
LEMMA Iterates ==
    ASSUME NEW V, NEW base \in V, NEW h, Operates(h, Nat, V)
    PROVE  \E g : Iterated(g, V, base, h)
<1> DEFINE T == {n \in Nat : \E k \in [0..n -> V] : Goes(k, n, base, h)}
           On(n) == CHOOSE k \in [0..n -> V] : Goes(k, n, base, h)
<1>1. 0 \in T
  <2>1. [i \in 0..0 |-> base] \in [0..0 -> V] /\ Goes([i \in 0..0 |-> base], 0, base, h)
    BY DEF Goes
  <2> QED BY <2>1
<1>2. ASSUME NEW n \in Nat, n \in T PROVE n + 1 \in T
  <2>1. PICK k \in [0..n -> V] : Goes(k, n, base, h)
    BY <1>2
  <2> DEFINE l == [i \in 0..n + 1 |-> IF i = n + 1 THEN h[<<n + 1, k[n]>>] ELSE k[i]]
  <2>2. k[n] \in V /\ h[<<n + 1, k[n]>>] \in V
    <3>1. k[n] \in V
      OBVIOUS
    <3> QED BY <3>1 DEF Operates
  <2>3. l \in [0..n + 1 -> V]
    BY <2>2
  <2>4. l[0] = base
    BY <2>1 DEF Goes
  <2>5. ASSUME NEW i \in 0..n PROVE l[i + 1] = h[<<i + 1, l[i]>>]
    <3>1. CASE i = n
      <4>1. l[n + 1] = h[<<n + 1, k[n]>>] /\ l[n] = k[n]
        OBVIOUS
      <4> HIDE DEF l
      <4> QED BY <3>1, <4>1
    <3>2. CASE i \in 0..n - 1
      <4>1. i + 1 \in 0..n + 1 /\ i + 1 # n + 1 /\ i \in 0..n + 1 /\ i # n + 1
        BY <3>2
      <4>2. l[i + 1] = k[i + 1] /\ l[i] = k[i]
        BY <4>1
      <4>3. k[i + 1] = h[<<i + 1, k[i]>>]
        BY <2>1, <3>2 DEF Goes
      <4> QED BY <4>2, <4>3
    <3> QED BY <3>1, <3>2
  <2> HIDE DEF l
  <2>6. Goes(l, n + 1, base, h)
    BY <2>4, <2>5 DEF Goes
  <2> QED BY <2>3, <2>6
<1>3. \A n \in Nat : n \in T
  <2> HIDE DEF T
  <2> QED BY <1>1, <1>2, AllNumbers
<1>4. \A n \in Nat : On(n) \in [0..n -> V] /\ Goes(On(n), n, base, h)
  <2> SUFFICES ASSUME NEW n \in Nat PROVE On(n) \in [0..n -> V] /\ Goes(On(n), n, base, h)
    OBVIOUS
  <2>1. \E k \in [0..n -> V] : Goes(k, n, base, h)
    BY <1>3
  <2> QED BY <2>1
<1> HIDE DEF T, On
<1>5. ASSUME NEW n \in Nat PROVE On(n + 1)[n] = On(n)[n]
  <2> DEFINE U == {i \in Nat : i <= n => On(n + 1)[i] = On(n)[i]}
  <2>1. 0 \in U
    BY <1>4 DEF Goes
  <2>2. ASSUME NEW i \in Nat, i \in U PROVE i + 1 \in U
    <3> SUFFICES ASSUME i + 1 <= n PROVE On(n + 1)[i + 1] = On(n)[i + 1]
      OBVIOUS
    <3>1. i \in 0..n - 1 /\ i \in 0..(n + 1) - 1 /\ n + 1 \in Nat
      OBVIOUS
    <3>2. On(n)[i + 1] = h[<<i + 1, On(n)[i]>>]
      BY <1>4, <3>1 DEF Goes
    <3>3. On(n + 1)[i + 1] = h[<<i + 1, On(n + 1)[i]>>]
      BY <1>4, <3>1 DEF Goes
    <3> QED BY <2>2, <3>2, <3>3
  <2>3. \A i \in Nat : i \in U
    <3> HIDE DEF U
    <3> QED BY <2>1, <2>2, AllNumbers
  <2> QED BY <2>3
<1> DEFINE g == [n \in Nat |-> On(n)[n]]
<1>6. g \in [Nat -> V]
  <2>1. \A n \in Nat : On(n)[n] \in V
    BY <1>4
  <2> QED BY <2>1
<1>7. g[0] = base
  BY <1>4 DEF Goes
<1>8. ASSUME NEW n \in Nat PROVE g[n + 1] = h[<<n + 1, g[n]>>]
  <2>1. n + 1 \in Nat /\ n \in 0..(n + 1) - 1
    OBVIOUS
  <2>2. On(n + 1)[n + 1] = h[<<n + 1, On(n + 1)[n]>>]
    BY <1>4, <2>1 DEF Goes
  <2> QED BY <1>5, <2>2
<1> HIDE DEF g
<1> QED BY <1>6, <1>7, <1>8 DEF Iterated

\* FlattenSeq concatenates one sequence after the other.
LEMMA FlattenSteps ==
    ASSUME NEW S, NEW seqs \in Seq(Seq(S)), Len(seqs) # 0
    PROVE  \E g \in [1..Len(seqs) -> Seq(S)] :
              /\ g[1] = seqs[1]
              /\ \A i \in 1..Len(seqs) - 1 : g[i + 1] = g[i] \o seqs[i + 1]
              /\ FlattenSeq(seqs) = g[Len(seqs)]
<1> DEFINE V == Seq(S)
           N == Len(seqs)
           base == seqs[1]
           h == [p \in Nat \X V |-> IF p[1] + 1 \in 1..N THEN p[2] \o seqs[p[1] + 1] ELSE p[2]]
<1>1. N \in Nat \ {0} /\ \A i \in 1..N : seqs[i] \in V
  OBVIOUS
<1>2. base \in V
  BY <1>1
<1>3. ASSUME NEW n \in Nat, NEW v \in V
      PROVE  h[<<n, v>>] \in V /\ (n + 1 \in 1..N => h[<<n, v>>] = v \o seqs[n + 1])
  <2>1. h[<<n, v>>] = IF n + 1 \in 1..N THEN v \o seqs[n + 1] ELSE v
    BY <1>3
  <2>2. n + 1 \in 1..N => seqs[n + 1] \in V
    BY <1>1
  <2> HIDE DEF h, N
  <2> QED BY <2>1, <2>2
<1> HIDE DEF h
<1>4. PICK g : Iterated(g, V, base, h)
  <2>1. Operates(h, Nat, V)
    BY <1>3 DEF Operates
  <2> HIDE DEF V, base, N
  <2> QED BY <1>2, <2>1, Iterates
<1> DEFINE Eq(k) == k = [i \in 1..N |-> IF i = 1 THEN seqs[i] ELSE k[i - 1] \o seqs[i]]
           flatten == CHOOSE k : Eq(k)
           f == [i \in 1..N |-> g[i - 1]]
<1> HIDE DEF V, N
<1>5. ASSUME NEW i \in 1..N, i # 1 PROVE f[i] = f[i - 1] \o seqs[i]
  <2>1. i - 2 \in Nat /\ i - 1 \in Nat /\ (i - 2) + 1 = i - 1 /\ (i - 1) + 1 = i /\ i - 1 \in 1..N /\ (i - 1) - 1 = i - 2
    BY <1>1, <1>5
  <2>2. g[i - 2] \in V
    BY <1>4, <2>1 DEF Iterated
  <2>3. g[i - 1] = h[<<i - 1, g[i - 2]>>]
    BY <1>4, <2>1 DEF Iterated
  <2>4. g[i - 1] = g[i - 2] \o seqs[i]
    BY <1>3, <2>1, <2>2, <2>3
  <2>5. f[i] = g[i - 1] /\ f[i - 1] = g[i - 2]
    BY <2>1
  <2> QED BY <2>4, <2>5
<1>6. Eq(f)
  <2>1. 1 \in 1..N => f[1] = seqs[1]
    BY <1>4 DEF base, Iterated
  <2>2. \A i \in 1..N : f[i] = IF i = 1 THEN seqs[i] ELSE f[i - 1] \o seqs[i]
    <3> HIDE DEF f
    <3> QED BY <1>5, <2>1
  <2>3. f = [i \in 1..N |-> f[i]]
    OBVIOUS
  <2> HIDE DEF f
  <2> QED BY <2>2, <2>3
<1>7. Eq(flatten)
  <2> HIDE DEF Eq
  <2> QED BY <1>6
<1>8. FlattenSeq(seqs) = flatten[N]
  BY DEF FlattenSeq, N
<1> HIDE DEF flatten
<1>9. flatten[1] = seqs[1] /\ \A i \in 1..N - 1 : flatten[i + 1] = flatten[i] \o seqs[i + 1]
  <2>1. 1 \in 1..N
    BY <1>1
  <2>2. ASSUME NEW i \in 1..N - 1 PROVE flatten[i + 1] = flatten[i] \o seqs[i + 1]
    <3>1. i + 1 \in 1..N /\ i + 1 # 1 /\ (i + 1) - 1 = i
      BY <1>1
    <3> QED BY <1>7, <3>1
  <2> QED BY <1>7, <2>1, <2>2
<1>10. \A i \in 1..N : flatten[i] \in V
  <2> DEFINE T == {n \in Nat : n + 1 \in 1..N => flatten[n + 1] \in V}
  <2>1. 0 \in T
    BY <1>1, <1>9
  <2>2. ASSUME NEW n \in Nat, n \in T PROVE n + 1 \in T
    <3> SUFFICES ASSUME (n + 1) + 1 \in 1..N PROVE flatten[(n + 1) + 1] \in V
      OBVIOUS
    <3>1. n + 1 \in 1..N /\ n + 1 \in 1..N - 1
      BY <1>1
    <3>2. flatten[n + 1] \in V /\ seqs[(n + 1) + 1] \in V
      BY <1>1, <2>2, <3>1
    <3>3. flatten[(n + 1) + 1] = flatten[n + 1] \o seqs[(n + 1) + 1]
      BY <1>9, <3>1
    <3> QED BY <3>2, <3>3 DEF V
  <2>3. \A n \in Nat : n \in T
    <3> HIDE DEF T
    <3> QED BY <2>1, <2>2, AllNumbers
  <2> SUFFICES ASSUME NEW i \in 1..N PROVE flatten[i] \in V
    OBVIOUS
  <2>4. i - 1 \in Nat /\ (i - 1) + 1 = i
    BY <1>1
  <2> QED BY <2>3, <2>4
<1>11. flatten = [i \in 1..N |-> flatten[i]]
  BY <1>7
<1> QED BY <1>8, <1>9, <1>10, <1>11 DEF N, V

\* Concatenating sequences over a set gives a sequence over it.
LEMMA FlattenType ==
    ASSUME NEW S, NEW seqs \in Seq(Seq(S))
    PROVE  FlattenSeq(seqs) \in Seq(S)
<1>1. CASE Len(seqs) = 0
  BY <1>1 DEF FlattenSeq
<1>2. CASE Len(seqs) # 0
  <2>1. Len(seqs) \in 1..Len(seqs)
    BY <1>2
  <2>2. PICK g \in [1..Len(seqs) -> Seq(S)] : FlattenSeq(seqs) = g[Len(seqs)]
    BY <1>2, FlattenSteps
  <2> DEFINE n == Len(seqs)
  <2>3. g[n] \in Seq(S)
    <3> HIDE DEF n
    <3> QED BY <2>1, <2>2 DEF n
  <2> QED BY <2>2, <2>3
<1> QED BY <1>1, <1>2

-----------------------------------------------------------------------------
(* The recursion of MapThenFoldSet, with the operation as a function       *)

First(s) == CHOOSE x \in s : TRUE

\* g follows the recursion on the subsets of S: from base, by h.
Folds(g, S, base, h) ==
    \A s \in SUBSET S : g[s] = IF s = {} THEN base ELSE h[<<First(s), g[s \ {First(s)}]>>]

Folding(g, S, V, base, h) == g \in [SUBSET S -> V] /\ Folds(g, S, base, h)

\* The element a fold over a set takes first is one of the set.
LEMMA FirstIn == ASSUME NEW s, s # {} PROVE First(s) \in s
BY DEF First

\* What FoldsAgree and FoldTakesAny ask of an operation.
Alike(h, m, S, V) == \A x \in S, v \in V : h[<<x, v>>] = m[<<x, v>>]
TakesAny(g, S, h) == \A s \in SUBSET S : \A x \in s : g[s] = h[<<x, g[s \ {x}]>>]
Commutes(h, S, V) ==
    \A x, y \in S, v \in V : h[<<x, h[<<y, v>>]>>] = h[<<y, h[<<x, v>>]>>]

\* Two functions that follow the recursion agree on a set, if their operations
\* do on its members.
LEMMA FoldsAgree ==
    ASSUME NEW S, NEW T, IsFiniteSet(S), NEW V, NEW base, NEW h, NEW m,
           NEW g, NEW k, Folding(g, S, V, base, h), Folding(k, T, V, base, m),
           NEW s, s \subseteq S, s \subseteq T, Alike(h, m, s, V)
    PROVE  g[s] = k[s]
<1> USE DEF Folding
<1> DEFINE C == {u \in SUBSET S : u \subseteq s /\ g[u] # k[u]}
<1> SUFFICES ASSUME C # {} PROVE FALSE
  OBVIOUS
<1>1. PICK u \in C : \A w \in C : w \subseteq u => w = u
  <2>1. C \subseteq SUBSET S
    OBVIOUS
  <2> HIDE DEF C
  <2> QED BY <2>1, LeastSubset
<1>2. u # {}
  BY <1>1 DEF Folds
<1>3. First(u) \in u
  BY <1>2, FirstIn
<1> DEFINE w == u \ {First(u)}
<1>4. w \notin C /\ w \subseteq u /\ w \in SUBSET S /\ w \in SUBSET T /\ u \in SUBSET S /\ u \in SUBSET T
  BY <1>1, <1>3
<1>5. g[w] = k[w] /\ g[w] \in V
  BY <1>4
<1>6. g[u] = h[<<First(u), g[w]>>] /\ k[u] = m[<<First(u), k[w]>>]
  BY <1>2, <1>4 DEF Folds
<1>7. First(u) \in s
  BY <1>3, <1>4
<1> QED BY <1>1, <1>5, <1>6, <1>7 DEF Alike

\* The recursion has a solution on a finite set.
LEMMA FoldsExist ==
    ASSUME NEW S, IsFiniteSet(S), NEW V, NEW base \in V, NEW h, Operates(h, S, V)
    PROVE  \E g \in [SUBSET S -> V] : Folds(g, S, base, h)
<1> DEFINE Solved(u) == \E g \in [SUBSET u -> V] : Folds(g, u, base, h)
           On(u) == CHOOSE g \in [SUBSET u -> V] : Folds(g, u, base, h)
           C == {u \in SUBSET S : ~Solved(u)}
<1> SUFFICES ASSUME C # {} PROVE FALSE
  <2>1. C = {} => Solved(S)
    OBVIOUS
  <2> QED BY <2>1
<1>1. PICK u \in C : \A w \in C : w \subseteq u => w = u
  <2>1. C \subseteq SUBSET S
    OBVIOUS
  <2> HIDE DEF C
  <2> QED BY <2>1, LeastSubset
<1>2. ASSUME NEW w \in SUBSET u, w # u
      PROVE  On(w) \in [SUBSET w -> V] /\ Folds(On(w), w, base, h)
  <2>1. Solved(w)
    BY <1>1, <1>2
  <2> QED BY <2>1
<1>3. \A w \in SUBSET u : IsFiniteSet(w)
  BY <1>1, FS_Subset
<1> HIDE DEF Solved, On, C
<1>4. ASSUME NEW w \in SUBSET u, w # {}
      PROVE  First(w) \in w /\ w \ {First(w)} \in SUBSET u /\ w \ {First(w)} # u
             /\ w \ {First(w)} \in SUBSET w /\ w \ {First(w)} # w
  BY <1>4, FirstIn
<1> DEFINE rest(w) == w \ {First(w)}
           g == [w \in SUBSET u |-> IF w = {} THEN base ELSE h[<<First(w), On(rest(w))[rest(w)]>>]]
<1>5. g \in [SUBSET u -> V]
  <2>1. ASSUME NEW w \in SUBSET u, w # {} PROVE h[<<First(w), On(rest(w))[rest(w)]>>] \in V
    <3>0. rest(w) \in SUBSET u /\ rest(w) # u /\ rest(w) \in SUBSET rest(w)
      BY <1>4, <2>1
    <3>1. On(rest(w))[rest(w)] \in V
      <4> HIDE DEF rest, g
      <4>1. On(rest(w)) \in [SUBSET rest(w) -> V]
        BY <1>2, <3>0
      <4> QED BY <3>0, <4>1
    <3>2. First(w) \in S
      BY <1>1, <1>4, <2>1 DEF C
    <3> QED BY <3>1, <3>2 DEF Operates
  <2> QED BY <2>1
<1>6. ASSUME NEW w \in SUBSET u, w # u PROVE g[w] = On(w)[w]
  <2>1. CASE w = {}
    <3>1. On(w)[w] = base
      BY <1>2, <1>6, <2>1 DEF Folds
    <3> QED BY <2>1, <3>1
  <2>2. CASE w # {}
    <3>1. On(w)[w] = h[<<First(w), On(w)[rest(w)]>>]
      BY <1>2, <1>6, <2>2 DEF Folds
    <3>2. /\ Folds(On(w), w, base, h) /\ Folds(On(rest(w)), rest(w), base, h) /\ IsFiniteSet(w)
          /\ On(w) \in [SUBSET w -> V] /\ On(rest(w)) \in [SUBSET rest(w) -> V]
      <4> HIDE DEF rest, g
      <4>1. w \in SUBSET u /\ w # u /\ rest(w) \in SUBSET u /\ rest(w) # u
        BY <1>4, <1>6, <2>2 DEF rest
      <4> QED BY <1>2, <1>3, <4>1
    <3>3. On(w)[rest(w)] = On(rest(w))[rest(w)]
      <4>1. rest(w) \subseteq w /\ rest(w) \subseteq rest(w) /\ Alike(h, h, rest(w), V)
        BY DEF Alike
      <4> DEFINE r == rest(w)
                 a == On(w)
                 b == On(r)
      <4>2. /\ r \subseteq w /\ r \subseteq r /\ IsFiniteSet(w) /\ Alike(h, h, r, V)
            /\ Folding(a, w, V, base, h) /\ Folding(b, r, V, base, h)
        BY <3>2, <4>1 DEF Folding
      <4>3. a[r] = b[r]
        <5> HIDE DEF a, b, r
        <5> QED BY <4>2, FoldsAgree
      <4> QED BY <4>3
    <3> QED BY <2>2, <3>1, <3>3
  <2> QED BY <2>1, <2>2
<1>7. ASSUME NEW w \in SUBSET u
      PROVE g[w] = IF w = {} THEN base ELSE h[<<First(w), g[rest(w)]>>]
  <2>1. w # {} => g[rest(w)] = On(rest(w))[rest(w)]
    BY <1>4, <1>6
  <2> QED BY <2>1
<1>8. Folds(g, u, base, h)
  BY <1>7 DEF Folds
<1>9. Solved(u)
  <2> HIDE DEF g
  <2> QED BY <1>5, <1>8 DEF Solved
<1> QED BY <1>1, <1>9 DEF C

\* Of a commutative operation any element may come first.
LEMMA FoldTakesAny ==
    ASSUME NEW S, IsFiniteSet(S), NEW V, NEW base, NEW h, Operates(h, S, V), Commutes(h, S, V),
           NEW g, Folding(g, S, V, base, h)
    PROVE  TakesAny(g, S, h)
<1> USE DEF Folding, TakesAny
<1> DEFINE C == {s \in SUBSET S : \E x \in s : g[s] # h[<<x, g[s \ {x}]>>]}
<1> SUFFICES ASSUME C # {} PROVE FALSE
  OBVIOUS
<1>1. PICK s \in C : \A w \in C : w \subseteq s => w = s
  <2>1. C \subseteq SUBSET S
    OBVIOUS
  <2> HIDE DEF C
  <2> QED BY <2>1, LeastSubset
<1>2. PICK x \in s : g[s] # h[<<x, g[s \ {x}]>>]
  BY <1>1
<1> DEFINE y == First(s)
           both == (s \ {x}) \ {y}
<1>3. y \in s /\ s \in SUBSET S
  BY <1>1, FirstIn
<1>4. g[s] = h[<<y, g[s \ {y}]>>]
  BY <1>3 DEF Folds
<1>5. x # y
  BY <1>2, <1>4
<1>6. g[s \ {y}] = h[<<x, g[both]>>]
  <2>1. s \ {y} \notin C /\ x \in s \ {y} /\ s \ {y} \in SUBSET S
    BY <1>1, <1>3, <1>5
  <2>2. (s \ {y}) \ {x} = both
    OBVIOUS
  <2> QED BY <2>1, <2>2
<1>7. g[s \ {x}] = h[<<y, g[both]>>]
  <2>1. s \ {x} \notin C /\ y \in s \ {x} /\ s \ {x} \in SUBSET S
    BY <1>1, <1>2, <1>3, <1>5
  <2> QED BY <2>1
<1>8. both \in SUBSET S /\ g[both] \in V /\ x \in S /\ y \in S
  BY <1>3
<1>9. h[<<y, h[<<x, g[both]>>]>>] = h[<<x, h[<<y, g[both]>>]>>]
  <2> HIDE DEF both, y
  <2> QED BY <1>8 DEF Commutes
<1> QED BY <1>2, <1>4, <1>6, <1>7, <1>9

-----------------------------------------------------------------------------
(* Sums of integers: MapThenSumSet                                         *)

Total(S, f) == MapThenSumSet(LAMBDA x : f[x], S)
Adds(f, S) == [p \in S \X Int |-> f[p[1]] + p[2]]

\* MapThenSumSet follows the recursion.
LEMMA TotalIsFold ==
    ASSUME NEW S, IsFiniteSet(S), NEW f, \A x \in S : f[x] \in Int
    PROVE  \E g \in [SUBSET S -> Int] : Folds(g, S, 0, Adds(f, S)) /\ Total(S, f) = g[S]
<1>1. Operates(Adds(f, S), S, Int)
  BY DEF Operates, Adds
<1>2. PICK g \in [SUBSET S -> Int] : Folds(g, S, 0, Adds(f, S))
  <2> DEFINE V == Int
             base == 0
             h == Adds(f, S)
  <2>1. base \in V /\ Operates(h, S, V)
    BY <1>1
  <2> HIDE DEF V, base, h
  <2>2. \E g \in [SUBSET S -> V] : Folds(g, S, base, h)
    BY <2>1, FoldsExist
  <2> QED BY <2>2 DEF V, base, h
<1> DEFINE Eq(k) == k = [s \in SUBSET S |-> IF s = {} THEN 0
                                           ELSE f[CHOOSE x \in s : TRUE] + k[s \ {CHOOSE x \in s : TRUE}]]
           iter == CHOOSE k : Eq(k)
<1>3. Eq(g)
  <2>1. ASSUME NEW s \in SUBSET S, s # {}
        PROVE g[s] = f[CHOOSE x \in s : TRUE] + g[s \ {CHOOSE x \in s : TRUE}]
    <3>1. First(s) \in S /\ g[s \ {First(s)}] \in Int
      BY <2>1, FirstIn
    <3>2. g[s] = Adds(f, S)[<<First(s), g[s \ {First(s)}]>>]
      BY <1>2, <2>1 DEF Folds
    <3>3. g[s] = f[First(s)] + g[s \ {First(s)}]
      BY <3>1, <3>2 DEF Adds
    <3> QED BY <3>3 DEF First
  <2>2. g[{}] = 0
    BY <1>2 DEF Folds
  <2> QED BY <2>1, <2>2
<1>4. Eq(iter)
  <2> HIDE DEF Eq
  <2> QED BY <1>3
<1>5. Total(S, f) = iter[S]
  BY DEF Total, MapThenSumSet, MapThenFoldSet
<1> HIDE DEF iter
<1>6. iter = g
  <2> DEFINE C == {s \in SUBSET S : iter[s] # g[s]}
  <2> SUFFICES ASSUME C # {} PROVE FALSE
    BY <1>3, <1>4
  <2>1. PICK u \in C : \A w \in C : w \subseteq u => w = u
    <3>1. C \subseteq SUBSET S
      OBVIOUS
    <3> HIDE DEF C
    <3> QED BY <3>1, LeastSubset
  <2>2. u # {}
    BY <1>3, <1>4, <2>1
  <2>3. First(u) \in u
    BY <2>2, FirstIn
  <2>4. u \ {First(u)} \in SUBSET S /\ u \ {First(u)} \notin C
    BY <2>1, <2>3
  <2>5. iter[u \ {First(u)}] = g[u \ {First(u)}]
    BY <2>4
  <2> QED BY <1>3, <1>4, <2>1, <2>2, <2>5 DEF First
<1> QED BY <1>2, <1>5, <1>6

\* A sum over the empty set.
LEMMA TotalEmpty == ASSUME NEW f PROVE Total({}, f) = 0
<1>1. IsFiniteSet({})
  BY FS_EmptySet
<1>2. PICK g \in [SUBSET {} -> Int] : Folds(g, {}, 0, Adds(f, {})) /\ Total({}, f) = g[{}]
  BY <1>1, TotalIsFold
<1> QED BY <1>2 DEF Folds

\* A total of integers is an integer.
LEMMA TotalInt ==
    ASSUME NEW S, IsFiniteSet(S), NEW f, \A x \in S : f[x] \in Int
    PROVE  Total(S, f) \in Int
<1>1. PICK g \in [SUBSET S -> Int] : Total(S, f) = g[S]
  BY TotalIsFold
<1> QED BY <1>1

\* A sum is any one of its terms and the sum of the rest.
LEMMA TotalTake ==
    ASSUME NEW S, IsFiniteSet(S), NEW f, \A x \in S : f[x] \in Int, NEW x \in S
    PROVE  Total(S, f) = f[x] + Total(S \ {x}, f)
<1> DEFINE R == S \ {x}
           h == Adds(f, S)
           m == Adds(f, R)
<1>1. PICK g \in [SUBSET S -> Int] : Folds(g, S, 0, h) /\ Total(S, f) = g[S]
  BY TotalIsFold
<1>2. IsFiniteSet(R) /\ R \subseteq S /\ R \subseteq R
  BY FS_Subset
<1>3. PICK k \in [SUBSET R -> Int] : Folds(k, R, 0, m) /\ Total(R, f) = k[R]
  <2>1. \A y \in R : f[y] \in Int
    OBVIOUS
  <2> HIDE DEF R
  <2> QED BY <1>2, <2>1, TotalIsFold
<1>4. Operates(h, S, Int) /\ Commutes(h, S, Int)
  BY DEF Operates, Commutes, Adds
<1>5. Folding(g, S, Int, 0, h) /\ Folding(k, R, Int, 0, m)
  BY <1>1, <1>3 DEF Folding
<1>6. Alike(h, m, R, Int)
  BY DEF Alike, Adds
<1>7. g[R] = k[R]
  <2> HIDE DEF R, h, m
  <2> QED BY <1>2, <1>5, <1>6, FoldsAgree
<1>8. g[S] = h[<<x, g[R]>>]
  <2>1. TakesAny(g, S, h)
    <3> DEFINE V == Int
               base == 0
    <3>1. /\ Operates(h, S, V) /\ Commutes(h, S, V) /\ Folding(g, S, V, base, h)
      BY <1>4, <1>5
    <3> HIDE DEF h, V, base
    <3> QED BY <3>1, FoldTakesAny
  <2>2. S \in SUBSET S
    OBVIOUS
  <2> HIDE DEF h
  <2> QED BY <2>1, <2>2 DEF TakesAny
<1>9. g[R] \in Int
  OBVIOUS
<1> QED BY <1>1, <1>3, <1>7, <1>8, <1>9 DEF Adds

\* A sum depends on its terms only.
LEMMA TotalSame ==
    ASSUME NEW S, IsFiniteSet(S), NEW f, NEW k, \A x \in S : f[x] \in Int /\ k[x] = f[x]
    PROVE  Total(S, k) = Total(S, f)
<1>1. PICK a \in [SUBSET S -> Int] : Folds(a, S, 0, Adds(f, S)) /\ Total(S, f) = a[S]
  BY TotalIsFold
<1>2. PICK b \in [SUBSET S -> Int] : Folds(b, S, 0, Adds(k, S)) /\ Total(S, k) = b[S]
  BY TotalIsFold
<1> DEFINE h == Adds(f, S)
           m == Adds(k, S)
<1>3. Folding(a, S, Int, 0, h) /\ Folding(b, S, Int, 0, m) /\ Alike(h, m, S, Int) /\ S \subseteq S
  BY <1>1, <1>2 DEF Folding, Alike, Adds
<1>4. a[S] = b[S]
  <2> HIDE DEF h, m
  <2> QED BY <1>3, FoldsAgree
<1> QED BY <1>1, <1>2, <1>4

\* A sum without terms other than 0 is 0.
LEMMA TotalZero ==
    ASSUME NEW S, IsFiniteSet(S), NEW f, \A x \in S : f[x] = 0
    PROVE  Total(S, f) = 0
<1> DEFINE C == {s \in SUBSET S : Total(s, f) # 0}
<1> SUFFICES ASSUME C # {} PROVE FALSE
  OBVIOUS
<1>1. PICK s \in C : \A w \in C : w \subseteq s => w = s
  <2>1. C \subseteq SUBSET S
    OBVIOUS
  <2> HIDE DEF C
  <2> QED BY <2>1, LeastSubset
<1>2. s # {}
  BY <1>1, TotalEmpty
<1>3. PICK x \in s : TRUE
  BY <1>2
<1>4. s \ {x} \notin C /\ s \ {x} \in SUBSET S /\ IsFiniteSet(s) /\ f[x] = 0
  BY <1>1, FS_Subset
<1>5. \A y \in s : f[y] \in Int
  BY <1>1
<1>6. Total(s, f) = f[x] + Total(s \ {x}, f)
  <2>1. IsFiniteSet(s) /\ x \in s
    BY <1>3, <1>4
  <2> HIDE DEF C
  <2> QED BY <2>1, <1>5, TotalTake
<1> QED BY <1>1, <1>4, <1>6

\* When one term changes, the sum changes by as much.
LEMMA TotalChange ==
    ASSUME NEW S, IsFiniteSet(S), NEW f, NEW k, NEW x \in S,
           \A y \in S : f[y] \in Int /\ k[y] \in Int,
           \A y \in S \ {x} : k[y] = f[y]
    PROVE  Total(S, k) - Total(S, f) = k[x] - f[x]
<1> DEFINE R == S \ {x}
<1>1. IsFiniteSet(R) /\ \A y \in R : f[y] \in Int /\ k[y] = f[y]
  BY FS_Subset
<1>2. Total(R, k) = Total(R, f) /\ Total(R, f) \in Int
  <2> HIDE DEF R
  <2> QED BY <1>1, TotalSame, TotalInt
<1>3. Total(S, f) = f[x] + Total(R, f) /\ Total(S, k) = k[x] + Total(R, k)
  BY TotalTake
<1> QED BY <1>2, <1>3
=============================================================================
