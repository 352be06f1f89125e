------------------------------ MODULE LeftFolds ------------------------------
(***************************************************************************)
(* Induction along a sequence, for the left folds of the community         *)
(* modules: what the base of a fold has and each step keeps, its result    *)
(* has.  The operations and the properties are constants of this module;   *)
(* p tells those of one instance apart.                                    *)
(***************************************************************************)
EXTENDS FoldTheorems

CONSTANTS Op(_, _, _), Good(_, _)

\* The position a left fold takes last.
LastOf(T) == CHOOSE m \in T : \A y \in T : m >= y

\* k follows the recursion of FoldLeft on the sets of positions in D.
Recurs(k, D, p, b, s) ==
    k = [T \in SUBSET D |-> IF T = {} THEN b ELSE Op(p, k[T \ {LastOf(T)}], s[LastOf(T)])]

\* The last position of a set is one of its own.
LEMMA LastOfIn ==
    ASSUME NEW n \in Nat, NEW T \in SUBSET (1..n), T # {}
    PROVE  LastOf(T) \in T
<1>1. Max(T) \in T /\ \A y \in T : Max(T) >= y
  BY LastIn
<1> QED BY <1>1 DEF LastOf

\* Finitely many positions, each set of which has a last one.
Placed(D) == IsFiniteSet(D) /\ \A u \in SUBSET D : u # {} => LastOf(u) \in u

LEMMA PositionsPlaced == ASSUME NEW n \in Nat, NEW D \in SUBSET (1..n) PROVE Placed(D)
<1>1. IsFiniteSet(1..n)
  BY FS_Interval
<1>2. IsFiniteSet(D)
  BY <1>1, FS_Subset
<1>3. ASSUME NEW u \in SUBSET D, u # {} PROVE LastOf(u) \in u
  <2>1. u \in SUBSET (1..n)
    BY <1>3
  <2> QED BY <1>3, <2>1, LastOfIn
<1> QED BY <1>2, <1>3 DEF Placed

\* Two functions that follow it agree on the set of positions of the smaller one.
LEMMA RecursionsAgree ==
    ASSUME NEW D, Placed(D), NEW T \in SUBSET D, NEW p, NEW b, NEW s, NEW k, NEW l,
           Recurs(k, D, p, b, s), Recurs(l, T, p, b, s)
    PROVE  k[T] = l[T]
<1> DEFINE C == {u \in SUBSET D : u \subseteq T /\ k[u] # l[u]}
<1> SUFFICES ASSUME C # {} PROVE FALSE
  OBVIOUS
<1>1. PICK u \in C : \A w \in C : w \subseteq u => w = u
  <2>1. C \subseteq SUBSET D /\ IsFiniteSet(D)
    BY DEF Placed
  <2> HIDE DEF C
  <2> QED BY <2>1, LeastSubset
<1>2. u \in SUBSET D /\ u \in SUBSET T
  BY <1>1
<1>3. u # {}
  BY <1>1, <1>2 DEF Recurs
<1>4. LastOf(u) \in u
  BY <1>2, <1>3 DEF Placed
<1> DEFINE w == u \ {LastOf(u)}
<1>5. w \notin C /\ w \in SUBSET D /\ w \subseteq T
  BY <1>1, <1>4
<1>6. k[w] = l[w]
  BY <1>5
<1>7. k[u] = Op(p, k[w], s[LastOf(u)]) /\ l[u] = Op(p, l[w], s[LastOf(u)])
  BY <1>2, <1>3 DEF Recurs
<1> QED BY <1>1, <1>6, <1>7

\* The recursion has a solution.
LEMMA RecursionExists ==
    \A p, b, s : DOMAIN s = 1..Len(s) /\ Len(s) \in Nat => \E k : Recurs(k, DOMAIN s, p, b, s)
<1> SUFFICES ASSUME NEW n \in Nat, NEW p, NEW b, NEW s
             PROVE  \E k : Recurs(k, 1..n, p, b, s)
  OBVIOUS
<1> DEFINE D == 1..n
           Solved(u) == \E k : Recurs(k, u, p, b, s)
           On(u) == CHOOSE k : Recurs(k, u, p, b, s)
           C == {u \in SUBSET D : ~Solved(u)}
           rest(w) == w \ {LastOf(w)}
<1> SUFFICES ASSUME C # {} PROVE FALSE
  <2>1. C = {} => Solved(D)
    OBVIOUS
  <2> QED BY <2>1
<1>1. PICK u \in C : \A w \in C : w \subseteq u => w = u
  <2>1. C \subseteq SUBSET D /\ IsFiniteSet(D)
    BY FS_Interval
  <2> HIDE DEF C, D
  <2> QED BY <2>1, LeastSubset
<1>2. ASSUME NEW w \in SUBSET u, w # u PROVE Recurs(On(w), w, p, b, s)
  <2>1. Solved(w)
    BY <1>1, <1>2
  <2> QED BY <2>1
<1>3. u \in SUBSET D
  BY <1>1
<1> HIDE DEF Solved, On, C
<1>4. ASSUME NEW w \in SUBSET u, w # {}
      PROVE  LastOf(w) \in w /\ rest(w) \in SUBSET u /\ rest(w) # u /\ rest(w) \in SUBSET w
  BY <1>3, <1>4, LastOfIn
<1> DEFINE g == [w \in SUBSET u |-> IF w = {} THEN b ELSE Op(p, On(rest(w))[rest(w)], s[LastOf(w)])]
<1>5. ASSUME NEW w \in SUBSET u, w # u PROVE g[w] = On(w)[w]
  <2>1. CASE w = {}
    BY <1>2, <1>5, <2>1 DEF Recurs
  <2>2. CASE w # {}
    <3>1. On(w)[w] = Op(p, On(w)[rest(w)], s[LastOf(w)])
      BY <1>2, <1>5, <2>2 DEF Recurs
    <3>2. On(w)[rest(w)] = On(rest(w))[rest(w)]
      <4>1. /\ Recurs(On(w), w, p, b, s) /\ Recurs(On(rest(w)), rest(w), p, b, s)
            /\ w \in SUBSET D /\ rest(w) \in SUBSET D /\ rest(w) \in SUBSET w
        BY <1>2, <1>3, <1>4, <1>5, <2>2
      <4> DEFINE r == rest(w)
                 x == On(w)
                 y == On(r)
      <4>2. Recurs(x, w, p, b, s) /\ Recurs(y, r, p, b, s) /\ r \in SUBSET w
        BY <4>1
      <4>3. Placed(w)
        BY <4>1, PositionsPlaced
      <4>4. x[r] = y[r]
        <5> HIDE DEF x, y, r
        <5> QED BY <4>2, <4>3, RecursionsAgree
      <4> QED BY <4>4
    <3>3. g[w] = Op(p, On(rest(w))[rest(w)], s[LastOf(w)])
      BY <2>2
    <3> HIDE DEF g
    <3> QED BY <3>1, <3>2, <3>3
  <2> QED BY <2>1, <2>2
<1>6. ASSUME NEW w \in SUBSET u
      PROVE  g[w] = IF w = {} THEN b ELSE Op(p, g[rest(w)], s[LastOf(w)])
  <2>1. w # {} => g[rest(w)] = On(rest(w))[rest(w)]
    BY <1>4, <1>5
  <2> QED BY <2>1
<1>7. g = [w \in SUBSET u |-> g[w]]
  OBVIOUS
<1>8. Recurs(g, u, p, b, s)
  <2> HIDE DEF g
  <2> QED BY <1>6, <1>7 DEF Recurs
<1>9. Solved(u)
  BY <1>8 DEF Solved
<1> QED BY <1>1, <1>9 DEF C

\* The recursion goes through a sequence from its first element to its last.
LEMMA FoldSteps ==
    \A n \in Nat : \A p, b, s, k :
        Recurs(k, 1..n, p, b, s) =>
            k[1..0] = b /\ \A j \in 1..n : k[1..j] = Op(p, k[1..(j - 1)], s[j])
<1> SUFFICES ASSUME NEW n \in Nat, NEW p, NEW b, NEW s, NEW k, Recurs(k, 1..n, p, b, s)
             PROVE  k[1..0] = b /\ \A j \in 1..n : k[1..j] = Op(p, k[1..(j - 1)], s[j])
  OBVIOUS
<1>1. ASSUME NEW T \in SUBSET (1..n)
      PROVE  k[T] = IF T = {} THEN b ELSE Op(p, k[T \ {LastOf(T)}], s[LastOf(T)])
  BY DEF Recurs
<1>2. k[1..0] = b
  <2>1. 1..0 = {} /\ {} \in SUBSET (1..n)
    OBVIOUS
  <2> QED BY <1>1, <2>1
<1>3. ASSUME NEW j \in 1..n PROVE k[1..j] = Op(p, k[1..(j - 1)], s[j])
  <2> DEFINE T == 1..j
             before == 1..(j - 1)
  <2>1. T \in SUBSET (1..n) /\ T # {} /\ j \in T /\ T \ {j} = before /\ \A y \in T : y <= j
    OBVIOUS
  <2>2. LastOf(T) = j
    <3>1. LastOf(T) \in T /\ LastOf(T) >= j
      BY <2>1 DEF LastOf
    <3>2. j \in Int /\ \A y \in T : y \in Int
      OBVIOUS
    <3> HIDE DEF T
    <3> QED BY <2>1, <3>1, <3>2
  <2> HIDE DEF T, before
  <2>3. k[T] = Op(p, k[before], s[j])
    BY <1>1, <2>1, <2>2
  <2> QED BY <2>3 DEF T, before
<1> QED BY <1>2, <1>3

\* One more element, one more step.
LEMMA FoldOneMore ==
    \A n \in Nat : \A p, b, s, t, k, l :
        /\ Recurs(k, 1..n, p, b, s) /\ Recurs(l, 1..(n + 1), p, b, t)
        /\ \A i \in 1..n : t[i] = s[i]
        => l[1..(n + 1)] = Op(p, k[1..n], t[n + 1])
<1> SUFFICES ASSUME NEW n \in Nat, NEW p, NEW b, NEW s, NEW t, NEW k, NEW l,
                    Recurs(k, 1..n, p, b, s), Recurs(l, 1..(n + 1), p, b, t),
                    \A i \in 1..n : t[i] = s[i]
             PROVE  l[1..(n + 1)] = Op(p, k[1..n], t[n + 1])
  OBVIOUS
<1> DEFINE D == 1..n
           E == 1..(n + 1)
           Value(f, q, T) == IF T = {} THEN b ELSE Op(p, f[T \ {LastOf(T)}], q[LastOf(T)])
<1>1. \A T \in SUBSET D : Value(k, s, T) = Value(k, t, T)
  <2>1. \A T \in SUBSET D : T # {} => LastOf(T) \in D
    <3>1. \A T \in SUBSET D : T # {} => LastOf(T) \in T
      BY LastOfIn
    <3> HIDE DEF D
    <3> QED BY <3>1
  <2> QED BY <2>1
<1>2. Recurs(k, D, p, b, t)
  <2>1. k = [T \in SUBSET D |-> Value(k, s, T)]
    BY DEF Recurs
  <2>2. k = [T \in SUBSET D |-> Value(k, t, T)]
    <3> HIDE DEF Value, D
    <3> QED BY <1>1, <2>1
  <2> QED BY <2>2 DEF Recurs
<1>3. n + 1 \in Nat /\ D \in SUBSET E
  OBVIOUS
<1>4. Placed(E)
  BY <1>3, PositionsPlaced
<1>5. l[D] = k[D]
  <2>1. Recurs(l, E, p, b, t)
    OBVIOUS
  <2> HIDE DEF D, E
  <2> QED BY <1>2, <1>3, <1>4, <2>1, RecursionsAgree
<1>6. l[1..(n + 1)] = Op(p, l[1..(n + 1 - 1)], t[n + 1])
  <2>1. n + 1 \in 1..(n + 1)
    OBVIOUS
  <2> QED BY <1>3, <2>1, FoldSteps
<1>7. 1..(n + 1 - 1) = D
  OBVIOUS
<1> HIDE DEF D
<1> QED BY <1>5, <1>6, <1>7 DEF D

\* What the base has and every step keeps, the result has.
LEMMA FoldKeeps ==
    \A p, b, s, k :
        /\ DOMAIN s = 1..Len(s) /\ Len(s) \in Nat
        /\ Recurs(k, DOMAIN s, p, b, s)
        /\ Good(p, b)
        /\ \A x : \A i \in DOMAIN s : Good(p, x) => Good(p, Op(p, x, s[i]))
        => Good(p, k[DOMAIN s])
<1> SUFFICES ASSUME NEW n \in Nat, NEW p, NEW b, NEW s, NEW k, Good(p, b),
                    Recurs(k, 1..n, p, b, s),
                    \A x : \A i \in 1..n : Good(p, x) => Good(p, Op(p, x, s[i]))
             PROVE  Good(p, k[1..n])
  OBVIOUS
<1> DEFINE C == {u \in SUBSET (1..n) : ~Good(p, k[u])}
<1>1. Recurs(k, 1..n, p, b, s)
  OBVIOUS
<1> SUFFICES ASSUME C # {} PROVE FALSE
  OBVIOUS
<1>2. PICK u \in C : \A w \in C : w \subseteq u => w = u
  <2> DEFINE all == 1..n
  <2>1. C \subseteq SUBSET all /\ IsFiniteSet(all)
    BY FS_Interval
  <2> HIDE DEF C, all
  <2> QED BY <2>1, LeastSubset
<1>3. u # {}
  BY <1>1, <1>2 DEF Recurs
<1>4. LastOf(u) \in u /\ u \in SUBSET (1..n)
  BY <1>2, <1>3, LastOfIn
<1> DEFINE w == u \ {LastOf(u)}
<1>5. Good(p, k[w])
  <2>1. w \in SUBSET (1..n) /\ w \subseteq u /\ w # u
    BY <1>4
  <2>2. w \notin C
    <3> HIDE DEF w, C
    <3> QED BY <1>2, <2>1
  <2> HIDE DEF w
  <2> QED BY <2>1, <2>2
<1>6. k[u] = Op(p, k[w], s[LastOf(u)])
  BY <1>1, <1>3, <1>4 DEF Recurs
<1>7. Good(p, Op(p, k[w], s[LastOf(u)]))
  <2>1. LastOf(u) \in 1..n
    BY <1>4
  <2> HIDE DEF w
  <2> QED BY <1>5, <2>1
<1> QED BY <1>2, <1>6, <1>7

\* The same where what is kept depends on how far the fold has come.
LEMMA FoldReaches ==
    \A n \in Nat : \A p, b, s, k :
        /\ Recurs(k, 1..n, p, b, s)
        /\ Good(<<p, 0>>, b)
        /\ \A j \in 1..n : \A x : Good(<<p, j - 1>>, x) => Good(<<p, j>>, Op(p, x, s[j]))
        => Good(<<p, n>>, k[1..n])
<1> SUFFICES ASSUME NEW n \in Nat, NEW p, NEW b, NEW s, NEW k, Good(<<p, 0>>, b),
                    Recurs(k, 1..n, p, b, s),
                    \A j \in 1..n : \A x : Good(<<p, j - 1>>, x) => Good(<<p, j>>, Op(p, x, s[j]))
             PROVE  Good(<<p, n>>, k[1..n])
  OBVIOUS
<1>1. k[1..0] = b /\ \A j \in 1..n : k[1..j] = Op(p, k[1..(j - 1)], s[j])
  BY FoldSteps
<1> DEFINE C == {j \in 0..n : ~Good(<<p, j>>, k[1..j])}
<1> SUFFICES ASSUME C # {} PROVE FALSE
  <2>1. n \in 0..n
    OBVIOUS
  <2> QED BY <2>1
<1>2. PICK j \in C : \A m \in C : j <= m
  <2>1. C \in SUBSET Nat
    OBVIOUS
  <2> HIDE DEF C
  <2> QED BY <2>1, LeastNumber
<1>3. j \in 1..n
  BY <1>1, <1>2
<1>4. Good(<<p, j - 1>>, k[1..(j - 1)])
  <2>1. j - 1 \in 0..n /\ ~(j <= j - 1)
    BY <1>3
  <2>2. j - 1 \notin C
    <3> HIDE DEF C
    <3> QED BY <1>2, <2>1
  <2> QED BY <2>1, <2>2
<1>5. Good(<<p, j>>, Op(p, k[1..(j - 1)], s[j]))
  BY <1>3, <1>4
<1> QED BY <1>1, <1>2, <1>3, <1>5

=============================================================================
