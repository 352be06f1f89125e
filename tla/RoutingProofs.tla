---------------------------- MODULE RoutingProofs ----------------------------
(***************************************************************************)
(* Theorems about the way of a request.  Of RouteSelection: selection,     *)
(* rotation and the sticky session lose no target and double none, for     *)
(* catalogs of any kind and size.  Of Failover, for any keys, targets,     *)
(* replicas, requests, answers and budgets: calls are bounded, a disabled  *)
(* key stays out of use and no key is passed over.                         *)
(***************************************************************************)
EXTENDS Failover, RouteSelection, FoldTheorems, SequenceTheorems

-----------------------------------------------------------------------------
(* Selection, rotation and the sticky session                              *)

\* A set of places that is not empty has a least one.
LEMMA LeastPlace ==
    ASSUME NEW S \in SUBSET Nat, S # {}
    PROVE  Min(S) \in S /\ \A n \in S : Min(S) <= n
BY LeastNumber DEF Min

\* The places of "was" that "is" has, each once: "is" is "was" in another order.
Reorders(f, is, was) ==
    /\ f \in [DOMAIN is -> DOMAIN was]
    /\ \A i, j \in DOMAIN is : f[i] = f[j] => i = j
    /\ \A i \in DOMAIN is : is[i] = was[f[i]]

Permutes(is, was) == Len(is) = Len(was) /\ \E f : Reorders(f, is, was)

\* RotateTo permutes the rows, whichever of them comes first.
LEMMA RotateToPermutes ==
    ASSUME NEW S, NEW rows \in Seq(S), NEW n \in DOMAIN rows
    PROVE  /\ RotateTo(rows, n) \in Seq(S) /\ Permutes(RotateTo(rows, n), rows)
           /\ RotateTo(rows, n)[1] = rows[n]
<1> DEFINE L == Len(rows)
           out == RotateTo(rows, n)
           f == [i \in 1..L |-> IF i <= L - n + 1 THEN i + n - 1 ELSE i - (L - n + 1)]
<1>1. L \in Nat /\ n \in 1..L /\ DOMAIN rows = 1..L
  OBVIOUS
<1>2. SubSeq(rows, n, L) \in Seq(S) /\ Len(SubSeq(rows, n, L)) = L - n + 1
      /\ \A i \in 1..(L - n + 1) : SubSeq(rows, n, L)[i] = rows[i + n - 1]
  BY <1>1
<1>3. SubSeq(rows, 1, n - 1) \in Seq(S) /\ Len(SubSeq(rows, 1, n - 1)) = n - 1
      /\ \A i \in 1..(n - 1) : SubSeq(rows, 1, n - 1)[i] = rows[i]
  BY <1>1
<1>4. /\ out \in Seq(S) /\ Len(out) = L
      /\ \A i \in 1..L : out[i] = IF i <= L - n + 1 THEN SubSeq(rows, n, L)[i]
                                  ELSE SubSeq(rows, 1, n - 1)[i - (L - n + 1)]
  <2> DEFINE a == SubSeq(rows, n, L)
             b == SubSeq(rows, 1, n - 1)
  <2>1. a \in Seq(S) /\ b \in Seq(S) /\ Len(a) = L - n + 1 /\ Len(b) = n - 1
    BY <1>2, <1>3
  <2>2. out = a \o b
    BY DEF RotateTo
  <2> HIDE DEF a, b, out
  <2>3. /\ a \o b \in Seq(S) /\ Len(a \o b) = Len(a) + Len(b)
        /\ \A i \in 1..(Len(a) + Len(b)) :
              (a \o b)[i] = IF i <= Len(a) THEN a[i] ELSE b[i - Len(a)]
    BY <2>1, ConcatProperties, Zenon
  <2>4. Len(a) + Len(b) = L
    BY <1>1, <2>1
  <2>5. /\ out \in Seq(S) /\ Len(out) = L
        /\ \A i \in 1..L : out[i] = IF i <= L - n + 1 THEN a[i] ELSE b[i - (L - n + 1)]
    BY <2>1, <2>2, <2>3, <2>4
  <2> QED BY <2>5 DEF a, b
<1>5. DOMAIN out = 1..L
  BY <1>1, <1>4
<1>6. Reorders(f, out, rows)
  <2>1. f \in [1..L -> 1..L]
    BY <1>1
  <2>2. \A i, j \in 1..L : f[i] = f[j] => i = j
    BY <1>1
  <2>3. ASSUME NEW i \in 1..L PROVE out[i] = rows[f[i]]
    <3>1. CASE i <= L - n + 1
      <4>1. i \in 1..(L - n + 1)
        BY <3>1, <1>1
      <4>2. out[i] = SubSeq(rows, n, L)[i]
        BY <3>1, <1>4
      <4>3. f[i] = i + n - 1
        BY <3>1
      <4> QED
        BY <4>1, <4>2, <4>3, <1>2
    <3>2. CASE ~(i <= L - n + 1)
      <4>1. i - (L - n + 1) \in 1..(n - 1)
        BY <3>2, <1>1
      <4>2. out[i] = SubSeq(rows, 1, n - 1)[i - (L - n + 1)]
        BY <3>2, <1>4
      <4>3. f[i] = i - (L - n + 1)
        BY <3>2
      <4> QED
        BY <4>1, <4>2, <4>3, <1>3
    <3> QED
      BY <3>1, <3>2
  <2> QED
    BY <1>1, <1>5, <2>1, <2>2, <2>3 DEF Reorders
<1>7. out[1] = rows[n]
  <2>1. 1 \in 1..L /\ 1 <= L - n + 1 /\ 1 + n - 1 = n /\ 1 \in 1..(L - n + 1)
    BY <1>1
  <2>2. out[1] = SubSeq(rows, n, L)[1] /\ SubSeq(rows, n, L)[1] = rows[1 + n - 1]
    BY <2>1, <1>2, <1>4
  <2> QED
    BY <2>1, <2>2
<1> QED
  BY <1>1, <1>4, <1>6, <1>7 DEF Permutes

\* MoveFirst permutes the rows, whichever of them is preferred.
LEMMA MoveFirstPermutes ==
    ASSUME NEW S, NEW rows \in Seq(S), NEW n \in DOMAIN rows
    PROVE  /\ MoveFirst(rows, n) \in Seq(S) /\ Permutes(MoveFirst(rows, n), rows)
           /\ MoveFirst(rows, n)[1] = rows[n]
<1> DEFINE L == Len(rows)
           before == SubSeq(rows, 1, n - 1)
           behind == SubSeq(rows, n + 1, L)
           out == MoveFirst(rows, n)
           f == [i \in 1..L |-> IF i = 1 THEN n ELSE IF i <= n THEN i - 1 ELSE i]
<1>1. L \in Nat /\ n \in 1..L /\ DOMAIN rows = 1..L /\ rows[n] \in S
  OBVIOUS
<1>2. before \in Seq(S) /\ Len(before) = n - 1 /\ \A i \in 1..(n - 1) : before[i] = rows[i]
  BY <1>1
<1>3. behind \in Seq(S) /\ Len(behind) = L - n /\ \A i \in 1..(L - n) : behind[i] = rows[i + n]
  BY <1>1
<1>4. <<rows[n]>> \o before \in Seq(S) /\ Len(<<rows[n]>> \o before) = n
      /\ \A i \in 1..n : (<<rows[n]>> \o before)[i] = IF i = 1 THEN rows[n] ELSE before[i - 1]
  BY <1>1, <1>2
<1> DEFINE front == <<rows[n]>> \o before
<1>5. out = front \o behind
  BY DEF MoveFirst
<1> HIDE DEF before, behind, out, front
<1>6. front \in Seq(S) /\ Len(front) = n
  BY <1>4 DEF front
<1>7. /\ out \in Seq(S) /\ Len(out) = L
      /\ \A i \in 1..L : out[i] = IF i <= n THEN front[i] ELSE behind[i - n]
  <2>1. /\ front \o behind \in Seq(S)
        /\ Len(front \o behind) = Len(front) + Len(behind)
        /\ \A i \in 1..(Len(front) + Len(behind)) :
              (front \o behind)[i] = IF i <= Len(front) THEN front[i] ELSE behind[i - Len(front)]
    <3>1. front \in Seq(S) /\ behind \in Seq(S)
      BY <1>3, <1>6
    <3> QED
      BY <3>1, ConcatProperties, Zenon
  <2>2. Len(front) + Len(behind) = L
    BY <1>1, <1>3, <1>6
  <2> QED
    BY <2>1, <2>2, <1>5, <1>6
<1>8. DOMAIN out = 1..L
  BY <1>1, <1>7
<1>9. Reorders(f, out, rows)
  <2>1. f \in [1..L -> 1..L]
    BY <1>1
  <2>2. \A i, j \in 1..L : f[i] = f[j] => i = j
    BY <1>1
  <2>3. ASSUME NEW i \in 1..L PROVE out[i] = rows[f[i]]
    <3>1. CASE i = 1
      <4>1. i <= n /\ i \in 1..n
        BY <3>1, <1>1
      <4>2. out[i] = front[i]
        BY <4>1, <1>7
      <4>3. front[i] = rows[n]
        BY <4>1, <3>1, <1>4 DEF front
      <4> QED
        BY <4>2, <4>3, <3>1
    <3>2. CASE i # 1 /\ i <= n
      <4>1. i - 1 \in 1..(n - 1) /\ i \in 1..n
        BY <3>2, <1>1
      <4>2. out[i] = before[i - 1]
        BY <4>1, <3>2, <1>4, <1>7 DEF front
      <4> QED
        BY <4>1, <4>2, <3>2, <1>2
    <3>3. CASE i > n
      <4>1. i - n \in 1..(L - n) /\ (i - n) + n = i /\ i # 1 /\ ~(i <= n)
        BY <3>3, <1>1
      <4>2. out[i] = behind[i - n]
        BY <4>1, <1>7
      <4> QED
        BY <4>1, <4>2, <1>3
    <3> QED
      BY <3>1, <3>2, <3>3, <1>1
  <2> QED
    BY <1>1, <1>8, <2>1, <2>2, <2>3 DEF Reorders
<1>10. out[1] = rows[n]
  <2>1. 1 \in 1..L /\ 1 \in 1..n /\ 1 <= n
    BY <1>1
  <2> QED
    BY <2>1, <1>4, <1>7 DEF front
<1> QED
  BY <1>1, <1>7, <1>9, <1>10 DEF Permutes, out

\* A permutation of a permutation is one.
LEMMA PermutesTransitive ==
    ASSUME NEW A, NEW a \in Seq(A), NEW b \in Seq(A), NEW c \in Seq(A),
           Permutes(a, b), Permutes(b, c)
    PROVE  Permutes(a, c)
<1>1. PICK f : Reorders(f, a, b)
  BY DEF Permutes
<1>2. PICK g : Reorders(g, b, c)
  BY DEF Permutes
<1> DEFINE h == [i \in DOMAIN a |-> g[f[i]]]
<1>3. Reorders(h, a, c)
  BY <1>1, <1>2 DEF Reorders
<1> QED
  BY <1>3 DEF Permutes

\* What preferRouteSessionTarget returns has every target it was given exactly
\* once, and that of the session first if it is among them.
THEOREM PreferKeepsTargets ==
    ASSUME NEW S, NEW rows \in Seq(S), NEW session
    PROVE  /\ Prefer(session, rows) \in Seq(S) /\ Permutes(Prefer(session, rows), rows)
           /\ Len(rows) > 1 /\ (\E n \in DOMAIN rows : rows[n].route = session) =>
                 Prefer(session, rows)[1].route = session
<1> DEFINE places == {n \in DOMAIN rows : rows[n].route = session}
<1>1. CASE Len(rows) <= 1 \/ places = {}
  <2>1. Prefer(session, rows) = rows
    BY <1>1 DEF Prefer
  <2>2. Reorders([i \in DOMAIN rows |-> i], rows, rows)
    BY DEF Reorders
  <2> QED
    BY <1>1, <2>1, <2>2 DEF Permutes
<1>2. CASE ~(Len(rows) <= 1 \/ places = {})
  <2>1. Prefer(session, rows) = MoveFirst(rows, Min(places))
    BY <1>2 DEF Prefer
  <2>2. places \in SUBSET Nat /\ places # {}
    BY <1>2
  <2>3. Min(places) \in places
    BY <2>2, LeastPlace
  <2> QED
    BY <2>1, <2>3, MoveFirstPermutes
<1> QED
  BY <1>1, <1>2

-----------------------------------------------------------------------------
(* The slots of weighted rotation                                          *)

Weighed(rows) == \A n \in DOMAIN rows : rows[n].weight \in Int

\* A weight counts at least once.
LEMMA WeightCounts == ASSUME NEW row, row.weight \in Int PROVE Weight(row) \in Nat \ {0}
BY SelectionAssumption DEF Weight

\* The places at which x occurs in a sequence.
PlacesOf(s, x) == {j \in DOMAIN s : s[j] = x}

Block(x, w) == [j \in 1..w |-> x]
Joined(s, t) == s \o t

\* A block behind a sequence that it has nothing in common with.
LEMMA BlockBehind ==
    ASSUME NEW S, NEW s \in Seq(S), NEW x \in S, NEW w \in Nat \ {0},
           PlacesOf(s, x) = {}, NEW t, t = Joined(s, Block(x, w))
    PROVE  /\ t \in Seq(S) /\ Len(t) > 0
           /\ Cardinality(PlacesOf(t, x)) = w
           /\ \A y \in S \ {x} : PlacesOf(t, y) = PlacesOf(s, y)
<1> DEFINE block == Block(x, w)
           L == Len(s)
<1>1. block \in Seq(S) /\ Len(block) = w /\ \A j \in 1..w : block[j] = x
  BY DEF Block
<1> HIDE DEF block
<1>2. /\ t \in Seq(S) /\ Len(t) = L + w /\ DOMAIN t = 1..L + w /\ L \in Nat /\ DOMAIN s = 1..L
      /\ \A j \in 1..L + w : t[j] = IF j <= L THEN s[j] ELSE x
  <2>1. t = s \o block
    BY DEF block, Joined
  <2>2. s \o block \in Seq(S) /\ Len(s \o block) = Len(s) + w
    BY <1>1
  <2>3. \A j \in 1..Len(s) + w : (s \o block)[j] = IF j <= Len(s) THEN s[j] ELSE block[j - Len(s)]
    BY <1>1
  <2>4. \A j \in 1..Len(s) + w : j <= Len(s) \/ j - Len(s) \in 1..w
    OBVIOUS
  <2> HIDE DEF block
  <2> QED BY <1>1, <2>1, <2>2, <2>3, <2>4
<1> HIDE DEF L
<1>3. PlacesOf(t, x) = (L + 1)..(L + w)
  BY <1>2 DEF PlacesOf
<1>4. Cardinality((L + 1)..(L + w)) = w
  <2> DEFINE a == L + 1
             b == L + w
  <2>1. a \in Int /\ b \in Int /\ a <= b /\ b - a + 1 = w
    BY <1>2
  <2> HIDE DEF a, b
  <2>2. Cardinality(a..b) = b - a + 1
    BY <2>1, FS_Interval
  <2> QED BY <2>1, <2>2 DEF a, b
<1>5. ASSUME NEW y \in S \ {x} PROVE PlacesOf(t, y) = PlacesOf(s, y)
  BY <1>2 DEF PlacesOf
<1>6. t \in Seq(S) /\ Len(t) > 0
  BY <1>2
<1> QED BY <1>3, <1>4, <1>5, <1>6

\* The slots are places of targets, each as often as its weight says.
LEMMA SlotsByWeight ==
    ASSUME NEW S, NEW rows \in Seq(S), Weighed(rows), Len(rows) > 0
    PROVE  /\ Slots(rows) \in Seq(DOMAIN rows) /\ Len(Slots(rows)) > 0
           /\ \A n \in DOMAIN rows : Cardinality(PlacesOf(Slots(rows), n)) = Weight(rows[n])
<1> DEFINE D == DOMAIN rows
           N == Len(rows)
           slot(n) == Block(n, Weight(rows[n]))
           all == [n \in D |-> slot(n)]
<1>1. D = 1..N /\ N \in Nat /\ N > 0
  OBVIOUS
<1>2. ASSUME NEW n \in D PROVE Weight(rows[n]) \in Nat \ {0} /\ slot(n) \in Seq(D)
  <2>1. Weight(rows[n]) \in Nat \ {0}
    BY WeightCounts DEF Weighed
  <2> QED BY <2>1 DEF Block
<1>3. all \in Seq(Seq(D)) /\ Len(all) = N /\ \A n \in D : all[n] = slot(n)
  <2> HIDE DEF slot, D, N
  <2> QED BY <1>1, <1>2
<1>4. Slots(rows) = FlattenSeq(all)
  BY DEF Slots, Block
<1> HIDE DEF all, D, N
<1>5. \E g \in [1..N -> Seq(D)] :
        /\ g[1] = all[1]
        /\ \A i \in 1..N - 1 : g[i + 1] = g[i] \o all[i + 1]
        /\ FlattenSeq(all) = g[N]
  <2>1. Len(all) # 0
    BY <1>1, <1>3
  <2> QED BY <1>3, <2>1, FlattenSteps
<1>6. PICK g \in [1..N -> Seq(D)] :
        /\ g[1] = all[1]
        /\ \A i \in 1..N - 1 : g[i + 1] = g[i] \o all[i + 1]
        /\ FlattenSeq(all) = g[N]
  BY <1>5
<1> DEFINE Right(i) == /\ Len(g[i]) > 0
                       /\ \A n \in 1..i : Cardinality(PlacesOf(g[i], n)) = Weight(rows[n])
                       /\ \A n \in D : n > i => PlacesOf(g[i], n) = {}
           T == {m \in Nat : m + 1 <= N => Right(m + 1)}
<1>7. ASSUME NEW i \in D, NEW s \in Seq(D), PlacesOf(s, i) = {}, NEW t, t = Joined(s, slot(i))
      PROVE  /\ Len(t) > 0 /\ Cardinality(PlacesOf(t, i)) = Weight(rows[i])
             /\ \A y \in D \ {i} : PlacesOf(t, y) = PlacesOf(s, y)
  <2> DEFINE w == Weight(rows[i])
  <2>1. w \in Nat \ {0}
    BY <1>2
  <2> HIDE DEF w
  <2>2. t = Joined(s, Block(i, w))
    BY <1>7 DEF w
  <2>3. /\ Len(t) > 0 /\ Cardinality(PlacesOf(t, i)) = w
        /\ \A y \in D \ {i} : PlacesOf(t, y) = PlacesOf(s, y)
    BY <1>7, <2>1, <2>2, BlockBehind
  <2> QED BY <2>3 DEF w
<1>8. 0 \in T
  <2>1. 1 \in D /\ 1 \in 1..N /\ g[1] = slot(1) /\ slot(1) \in Seq(D)
    BY <1>1, <1>2, <1>3, <1>6
  <2>2. <<>> \in Seq(D) /\ PlacesOf(<<>>, 1) = {} /\ \A y \in D : PlacesOf(<<>>, y) = {}
    BY DEF PlacesOf
  <2>3. Joined(<<>>, slot(1)) = slot(1)
    <3> HIDE DEF slot
    <3> QED BY <2>1 DEF Joined
  <2>4. /\ Len(slot(1)) > 0 /\ Cardinality(PlacesOf(slot(1), 1)) = Weight(rows[1])
        /\ \A y \in D \ {1} : PlacesOf(slot(1), y) = {}
    <3> HIDE DEF slot
    <3>1. /\ Len(slot(1)) > 0
          /\ Cardinality(PlacesOf(slot(1), 1)) = Weight(rows[1])
          /\ \A y \in D \ {1} : PlacesOf(slot(1), y) = PlacesOf(<<>>, y)
      <4> DEFINE t == slot(1)
                 none == <<>>
      <4>1. 1 \in D /\ none \in Seq(D) /\ PlacesOf(none, 1) = {} /\ t = Joined(none, slot(1))
        BY <2>1, <2>2, <2>3
      <4>2. /\ Len(t) > 0
            /\ Cardinality(PlacesOf(t, 1)) = Weight(rows[1])
            /\ \A y \in D \ {1} : PlacesOf(t, y) = PlacesOf(none, y)
        <5> HIDE DEF t, none
        <5> QED BY <1>7, <4>1
      <4> QED BY <4>2
    <3> QED BY <2>2, <3>1
  <2>5. Right(1)
    <3> HIDE DEF slot
    <3> QED BY <1>1, <2>1, <2>4
  <2> QED BY <2>5
<1>9. ASSUME NEW m \in Nat, m \in T PROVE m + 1 \in T
  <2> SUFFICES ASSUME m + 2 <= N PROVE Right(m + 2)
    OBVIOUS
  <2> DEFINE i == m + 1
             j == m + 2
  <2>1. /\ i \in 1..N - 1 /\ i \in 1..N /\ j \in 1..N /\ j \in D /\ i + 1 = j /\ i \in Int
        /\ Right(i)
    BY <1>1, <1>9
  <2> HIDE DEF i, j, slot
  <2>2. g[j] = Joined(g[i], slot(j)) /\ g[i] \in Seq(D)
    BY <1>3, <1>6, <2>1 DEF Joined
  <2>3. PlacesOf(g[i], j) = {}
    BY <2>1
  <2>4. /\ Len(g[j]) > 0 /\ Cardinality(PlacesOf(g[j], j)) = Weight(rows[j])
        /\ \A y \in D \ {j} : PlacesOf(g[j], y) = PlacesOf(g[i], y)
    BY <1>7, <2>1, <2>2, <2>3
  <2>5. \A n \in 1..j : n # j => n \in 1..i /\ n \in D \ {j}
    BY <1>1, <2>1
  <2>6. \A n \in D : n > j => n > i /\ n \in D \ {j}
    BY <1>1, <2>1
  <2>7. Right(j)
    BY <2>1, <2>4, <2>5, <2>6
  <2> QED BY <2>7 DEF j
<1>10. \A m \in Nat : m \in T
  <2> HIDE DEF T
  <2> QED BY <1>8, <1>9, AllNumbers
<1>11. Right(N)
  <2>1. N - 1 \in T /\ N - 1 + 1 = N
    <3> HIDE DEF T
    <3> QED BY <1>1, <1>10
  <2> QED BY <1>1, <2>1
<1>12. N \in 1..N /\ g[N] \in Seq(D)
  BY <1>1, <1>6
<1> HIDE DEF slot
<1> QED BY <1>1, <1>4, <1>6, <1>11, <1>12 DEF D

\* The orders of rotateRouteTargets and of rotateWeightedRouteTargets have every
\* target exactly once, wherever the cursor was left.
LEMMA TurnPermutes ==
    ASSUME NEW S, NEW rows \in Seq(S), NEW next \in Nat, Weighed(rows)
    PROVE  Turn(next, rows).order \in Seq(S) /\ Permutes(Turn(next, rows).order, rows)
<1> DEFINE slots == IF Len(rows) > 1 /\ rows[1].policy = "weighted" THEN Slots(rows)
                    ELSE [n \in DOMAIN rows |-> n]
           start == next % Len(slots)
<1>1. CASE Len(rows) <= 1
  <2>1. Turn(next, rows).order = rows
    BY <1>1 DEF Turn
  <2>2. Reorders([i \in DOMAIN rows |-> i], rows, rows)
    BY DEF Reorders
  <2> QED
    BY <2>1, <2>2 DEF Permutes
<1>2. CASE Len(rows) > 1
  <2>1. slots \in Seq(DOMAIN rows) /\ Len(slots) \in Nat \ {0}
    <3>1. CASE rows[1].policy = "weighted"
      <4>1. Len(rows) > 0
        BY <1>2
      <4> QED BY <1>2, <3>1, <4>1, SlotsByWeight
    <3>2. CASE rows[1].policy # "weighted"
      <4>1. slots = [n \in 1..Len(rows) |-> n] /\ Len(rows) \in Nat
        BY <3>2
      <4> QED
        BY <4>1, <1>2
    <3> QED
      BY <3>1, <3>2
  <2>2. Turn(next, rows).order = RotateTo(rows, slots[start + 1])
    BY <1>2 DEF Turn
  <2> HIDE DEF slots
  <2>3. start \in 0..(Len(slots) - 1)
    BY <2>1
  <2>4. slots[start + 1] \in DOMAIN rows
    BY <2>1, <2>3
  <2> QED
    BY <2>2, <2>4, RotateToPermutes
<1>3. Len(rows) \in Nat
  OBVIOUS
<1> QED
  BY <1>1, <1>2, <1>3

\* A request is given every target that selection found exactly once, whatever
\* the cursor, the weights and the session: failover leaves out no provider and
\* calls none for two turns of one request (selectRouteTargets to
\* doProviderTargetLoop).
THEOREM OrderKeepsTargets ==
    ASSUME NEW S, NEW rows \in Seq(S), NEW next \in Nat, NEW session, Weighed(rows)
    PROVE  Permutes(Prefer(session, Turn(next, rows).order), rows)
<1>1. Turn(next, rows).order \in Seq(S) /\ Permutes(Turn(next, rows).order, rows)
  BY TurnPermutes
<1>2. /\ Prefer(session, Turn(next, rows).order) \in Seq(S)
      /\ Permutes(Prefer(session, Turn(next, rows).order), Turn(next, rows).order)
  BY <1>1, PreferKeepsTargets
<1> QED
  BY <1>1, <1>2, PermutesTransitive

-----------------------------------------------------------------------------
(* Selection                                                               *)

\* Nothing is asked of what has been chosen on the way: selection is followed
\* row by row.
Anything(preference, chosen) == TRUE

Along == INSTANCE LeftFolds WITH Op <- Choose, Good <- Anything

\* A preference that names each protocol once.
Ranked(preference) ==
    /\ preference \in Seq(ToSet(preference))
    /\ \A m, n \in DOMAIN preference : preference[m] = preference[n] => m = n
Supported(preference, row) == row.protocol \in ToSet(preference)

\* The values of a function on a finite set are finitely many.
LEMMA FiniteValues ==
    ASSUME NEW S, IsFiniteSet(S), NEW f, f = [x \in S |-> f[x]]
    PROVE  IsFiniteSet({f[x] : x \in S})
<1> DEFINE T == {f[x] : x \in S}
<1>1. f \in Surjection(S, T)
  <2>1. f \in [S -> T] /\ \A t \in T : \E x \in S : f[x] = t
    OBVIOUS
  <2> HIDE DEF T
  <2> QED BY <2>1 DEF Surjection
<1> HIDE DEF T
<1>2. IsFiniteSet(T)
  BY <1>1, FS_Surjection
<1> QED BY <1>2 DEF T

\* The rows of a catalog, in an order of the database's.
LEMMA RowsOfCatalog ==
    ASSUME NEW catalog \in Catalogs, NEW rows \in ResolveModelRoutes(catalog)
    PROVE  /\ rows \in Seq(Offered(catalog)) /\ Len(rows) \in Nat /\ DOMAIN rows = 1..Len(rows)
           /\ \A i, j \in DOMAIN rows : rows[i] = rows[j] => i = j
           /\ \A o \in Offered(catalog) : \E i \in DOMAIN rows : rows[i] = o
<1> DEFINE O == Offered(catalog)
           may(r) == {e \in catalog.endpoints : MayUse(r, e)}
           of(r) == {RowOf(r, e, catalog.policy) : e \in may(r)}
           n == Cardinality(O)
<1>1. IsFiniteSet(O)
  <2>1. IsFiniteSet(catalog.routes) /\ IsFiniteSet(catalog.endpoints)
    BY CatalogAssumption
  <2>2. ASSUME NEW r \in catalog.routes PROVE IsFiniteSet(of(r))
    <3>1. IsFiniteSet(may(r))
      BY <2>1, FS_Subset
    <3> DEFINE f == [e \in may(r) |-> RowOf(r, e, catalog.policy)]
    <3>2. of(r) = {f[e] : e \in may(r)}
      <4> HIDE DEF may
      <4> QED OBVIOUS
    <3>3. f = [e \in may(r) |-> f[e]]
      <4> HIDE DEF may
      <4> QED OBVIOUS
    <3> HIDE DEF may, f, of
    <3> QED BY <3>1, <3>2, <3>3, FiniteValues
  <2>3. IsFiniteSet({of(r) : r \in catalog.routes})
    <3> DEFINE f == [r \in catalog.routes |-> of(r)]
    <3> HIDE DEF of
    <3>1. {of(r) : r \in catalog.routes} = {f[r] : r \in catalog.routes}
      OBVIOUS
    <3>2. f = [r \in catalog.routes |-> f[r]]
      OBVIOUS
    <3> DEFINE A == {of(r) : r \in catalog.routes}
               B == {f[r] : r \in catalog.routes}
    <3>3. IsFiniteSet(B)
      <4> HIDE DEF f
      <4> QED BY <2>1, <3>2, FiniteValues
    <3>4. A = B
      BY <3>1
    <3>5. IsFiniteSet(A)
      <4> HIDE DEF A, B
      <4> QED BY <3>3, <3>4
    <3> QED BY <3>5
  <2>4. O = UNION {of(r) : r \in catalog.routes}
    BY DEF Offered
  <2> HIDE DEF of, O
  <2>5. \A T \in {of(r) : r \in catalog.routes} : IsFiniteSet(T)
    BY <2>2
  <2> QED BY <2>3, <2>4, <2>5, FS_UNION
<1>2. rows \in [1..n -> O] /\ \A i, j \in 1..n : i # j => rows[i] # rows[j]
  BY DEF ResolveModelRoutes, SetToSeqs
<1> HIDE DEF O
<1>3. n \in Nat
  BY <1>1, FS_CardinalityType
<1>4. rows \in Injection(1..n, O)
  BY <1>2 DEF Injection, IsInjective
<1>5. Cardinality(1..n) = n /\ IsFiniteSet(1..n)
  BY <1>3, FS_Interval
<1>6. rows \in Surjection(1..n, O)
  BY <1>1, <1>4, <1>5, FS_Injection
<1>7. rows \in Seq(O) /\ Len(rows) = n /\ DOMAIN rows = 1..n
  BY <1>2, <1>3
<1>8. \A o \in O : \E i \in 1..n : rows[i] = o
  BY <1>6 DEF Surjection
<1> QED BY <1>2, <1>3, <1>7, <1>8 DEF O

\* Ranks are places of a preference, and tell its protocols apart.
LEMMA RankIsPlace ==
    ASSUME NEW preference, Ranked(preference), NEW row, Supported(preference, row)
    PROVE  /\ Rank(preference, row) \in DOMAIN preference /\ Rank(preference, row) \in Nat
           /\ preference[Rank(preference, row)] = row.protocol
<1>1. \E n \in DOMAIN preference : preference[n] = row.protocol
  BY DEF Supported, ToSet
<1>2. DOMAIN preference = 1..Len(preference) /\ Len(preference) \in Nat
  BY DEF Ranked
<1> QED BY <1>1, <1>2 DEF Rank

\* What is chosen from the first rows: each route of them that is supported
\* once, at no worse a rank than any of its rows among them.
Selected(preference, rows, j, chosen) ==
    /\ chosen \in Seq(ToSet(rows))
    /\ \A m \in DOMAIN chosen : Supported(preference, chosen[m])
    /\ \A m \in DOMAIN chosen : \E i \in 1..j : chosen[m] = rows[i]
    /\ \A m, l \in DOMAIN chosen : chosen[m].route = chosen[l].route => m = l
    /\ \A i \in 1..j : Supported(preference, rows[i]) =>
          \E m \in DOMAIN chosen : /\ chosen[m].route = rows[i].route
                                   /\ Rank(preference, chosen[m]) <= Rank(preference, rows[i])

\* Rows of one route that may use one protocol only are one row.
RowsApart(rows) ==
    \A i, j \in DOMAIN rows : rows[i].route = rows[j].route /\ rows[i].asked # AnyProtocol => i = j

LEMMA ChooseSelects ==
    ASSUME NEW S, NEW rows \in Seq(S), RowsApart(rows), NEW preference, Ranked(preference),
           NEW j \in 1..Len(rows), NEW chosen, Selected(preference, rows, j - 1, chosen)
    PROVE  Selected(preference, rows, j, Choose(preference, chosen, rows[j]))
<1> DEFINE row == rows[j]
           all == ToSet(rows)
           next == Choose(preference, chosen, row)
           known == row.asked = AnyProtocol /\ \E n \in DOMAIN chosen : chosen[n].route = row.route
           Better(c) == c.route = row.route /\ Rank(preference, row) < Rank(preference, c)
<1>1. /\ Len(rows) \in Nat /\ DOMAIN rows = 1..Len(rows) /\ j \in Nat /\ row \in all
      /\ chosen \in Seq(all) /\ 1..(j - 1) \subseteq 1..j /\ j \in 1..j
      /\ \A i \in 1..j : i = j \/ i \in 1..(j - 1)
  BY DEF Selected, ToSet
<1>2. /\ DOMAIN chosen = 1..Len(chosen) /\ Len(chosen) \in Nat
      /\ \A m \in DOMAIN chosen : chosen[m] \in all
  BY <1>1
<1> HIDE DEF all
<1>3. \A m \in DOMAIN chosen : Rank(preference, chosen[m]) \in Nat
  BY RankIsPlace DEF Selected
<1>4. CASE ~Supported(preference, row)
  <2>1. next = chosen
    BY <1>4 DEF Choose, Supported
  <2> QED BY <1>1, <1>4, <2>1 DEF Selected, all
<1>5. CASE Supported(preference, row) /\ known
  <2> DEFINE new == [n \in DOMAIN chosen |-> IF Better(chosen[n]) THEN row ELSE chosen[n]]
  <2>1. next = new
    BY <1>5 DEF Choose, Supported
  <2>2. Rank(preference, row) \in Nat
    BY <1>5, RankIsPlace
  <2>3. /\ DOMAIN new = DOMAIN chosen
        /\ \A n \in DOMAIN chosen : new[n] = IF Better(chosen[n]) THEN row ELSE chosen[n]
    OBVIOUS
  <2>4. new \in Seq(all)
    BY <1>1, <1>2
  <2> HIDE DEF new, next, row
  <2>5. \A n \in DOMAIN chosen :
           /\ new[n].route = chosen[n].route /\ Supported(preference, new[n])
           /\ Rank(preference, new[n]) <= Rank(preference, chosen[n])
           /\ chosen[n].route = row.route => Rank(preference, new[n]) <= Rank(preference, row)
           /\ new[n] = row \/ new[n] = chosen[n]
    BY <1>3, <1>5, <2>2, <2>3 DEF Selected
  <2>6. \A i \in 1..(j - 1) : Supported(preference, rows[i]) =>
           Rank(preference, rows[i]) \in Nat
    BY RankIsPlace
  <2>7. \A m \in DOMAIN new : \E i \in 1..j : new[m] = rows[i]
    BY <1>1, <2>3, <2>5 DEF Selected, row
  <2>8. \A i \in 1..j : Supported(preference, rows[i]) =>
          \E m \in DOMAIN new : /\ new[m].route = rows[i].route
                                /\ Rank(preference, new[m]) <= Rank(preference, rows[i])
    <3> SUFFICES ASSUME NEW i \in 1..j, Supported(preference, rows[i])
                 PROVE  \E m \in DOMAIN new : /\ new[m].route = rows[i].route
                                              /\ Rank(preference, new[m]) <= Rank(preference, rows[i])
      OBVIOUS
    <3>1. CASE i = j
      BY <1>5, <2>3, <2>5, <3>1 DEF row
    <3>2. CASE i \in 1..(j - 1)
      <4>1. PICK m \in DOMAIN chosen : /\ chosen[m].route = rows[i].route
                                       /\ Rank(preference, chosen[m]) <= Rank(preference, rows[i])
        BY <3>2 DEF Selected
      <4>2. Rank(preference, new[m]) \in Nat
        BY <2>3, <2>5, RankIsPlace
      <4> QED BY <1>3, <2>3, <2>5, <2>6, <3>2, <4>1, <4>2
    <3> QED BY <1>1, <3>1, <3>2
  <2>9. \A m, l \in DOMAIN new : new[m].route = new[l].route => m = l
    BY <2>3, <2>5 DEF Selected
  <2> QED BY <2>1, <2>3, <2>4, <2>5, <2>7, <2>8, <2>9 DEF Selected, all, next, row
<1>6. CASE Supported(preference, row) /\ ~known
  <2>1. next = Append(chosen, row)
    BY <1>6 DEF Choose, Supported
  <2>2. /\ next \in Seq(all) /\ DOMAIN next = 1..Len(chosen) + 1 /\ next[Len(chosen) + 1] = row
        /\ \A m \in DOMAIN chosen : m \in DOMAIN next /\ next[m] = chosen[m]
        /\ \A m \in DOMAIN next : m = Len(chosen) + 1 \/ m \in DOMAIN chosen
        /\ Len(chosen) + 1 \in DOMAIN next /\ Len(chosen) + 1 \notin DOMAIN chosen
    BY <1>1, <1>2, <2>1
  <2> DEFINE z == Len(chosen) + 1
  <2>3. \A m \in DOMAIN chosen : chosen[m].route # row.route
    <3> SUFFICES ASSUME NEW m \in DOMAIN chosen, chosen[m].route = row.route PROVE FALSE
      OBVIOUS
    <3>1. row.asked # AnyProtocol
      BY <1>6
    <3>2. PICK i \in 1..(j - 1) : chosen[m] = rows[i]
      BY DEF Selected
    <3>3. i \in DOMAIN rows /\ j \in DOMAIN rows /\ i # j
      BY <1>1
    <3> QED BY <3>1, <3>2, <3>3 DEF RowsApart
  <2>4. Rank(preference, row) \in Nat
    BY <1>6, RankIsPlace
  <2> HIDE DEF next, row, z, known
  <2>5. \A m \in DOMAIN next : Supported(preference, next[m])
    BY <1>6, <2>2 DEF Selected
  <2>6. \A m \in DOMAIN next : \E i \in 1..j : next[m] = rows[i]
    BY <1>1, <2>2 DEF Selected, row
  <2>7. \A m, l \in DOMAIN next : next[m].route = next[l].route => m = l
    BY <2>2, <2>3 DEF Selected
  <2>8. \A i \in 1..j : Supported(preference, rows[i]) =>
          \E m \in DOMAIN next : /\ next[m].route = rows[i].route
                                 /\ Rank(preference, next[m]) <= Rank(preference, rows[i])
    <3> SUFFICES ASSUME NEW i \in 1..j, Supported(preference, rows[i])
                 PROVE  \E m \in DOMAIN next : /\ next[m].route = rows[i].route
                                               /\ Rank(preference, next[m]) <= Rank(preference, rows[i])
      OBVIOUS
    <3>1. CASE i = j
      BY <2>2, <2>4, <3>1 DEF row
    <3>2. CASE i \in 1..(j - 1)
      <4>1. PICK m \in DOMAIN chosen : /\ chosen[m].route = rows[i].route
                                       /\ Rank(preference, chosen[m]) <= Rank(preference, rows[i])
        BY <3>2 DEF Selected
      <4>2. m \in DOMAIN next /\ next[m] = chosen[m]
        BY <2>2
      <4> QED BY <4>1, <4>2
    <3> QED BY <1>1, <3>1, <3>2
  <2> QED BY <2>2, <2>5, <2>6, <2>7, <2>8 DEF Selected, all, next, row
<1> QED BY <1>4, <1>5, <1>6

\* A row is the route and the endpoint it was joined from.
LEMMA RowOrigin ==
    ASSUME NEW catalog, NEW o \in Offered(catalog)
    PROVE  \E r \in catalog.routes, e \in catalog.endpoints :
              /\ MayUse(r, e) /\ o = RowOf(r, e, catalog.policy)
              /\ o.route = r.id /\ o.asked = r.protocol /\ o.protocol = e.protocol /\ o.weight = r.weight
<1>1. PICK r \in catalog.routes :
         o \in {RowOf(r, e, catalog.policy) : e \in {e \in catalog.endpoints : MayUse(r, e)}}
  BY DEF Offered
<1>2. PICK e \in catalog.endpoints : MayUse(r, e) /\ o = RowOf(r, e, catalog.policy)
  BY <1>1
<1> QED BY <1>2 DEF RowOf

\* A route that names its protocol has one row, however many endpoints there are.
LEMMA CatalogRowsApart ==
    ASSUME NEW catalog \in Catalogs, NEW rows \in ResolveModelRoutes(catalog)
    PROVE  RowsApart(rows)
<1> SUFFICES ASSUME NEW i \in DOMAIN rows, NEW j \in DOMAIN rows,
                    rows[i].route = rows[j].route, rows[i].asked # AnyProtocol
             PROVE  i = j
  BY DEF RowsApart
<1>1. rows[i] \in Offered(catalog) /\ rows[j] \in Offered(catalog)
  BY RowsOfCatalog
<1>2. PICK r \in catalog.routes, e \in catalog.endpoints :
         /\ MayUse(r, e) /\ rows[i] = RowOf(r, e, catalog.policy)
         /\ rows[i].route = r.id /\ rows[i].asked = r.protocol
  BY <1>1, RowOrigin
<1>3. PICK s \in catalog.routes, d \in catalog.endpoints :
         /\ MayUse(s, d) /\ rows[j] = RowOf(s, d, catalog.policy)
         /\ rows[j].route = s.id /\ rows[j].asked = s.protocol
  BY <1>1, RowOrigin
<1>4. r = s
  BY <1>2, <1>3, CatalogAssumption
<1>5. e.protocol = r.protocol /\ d.protocol = r.protocol
  BY <1>2, <1>3, <1>4 DEF MayUse
<1>6. rows[i] = rows[j]
  BY <1>2, <1>3, <1>4, <1>5 DEF RowOf
<1> QED BY <1>6, RowsOfCatalog

\* selectRouteTargets goes over the rows one after the other.
LEMMA SelectsAlong ==
    ASSUME NEW S, NEW rows \in Seq(S), NEW preference
    PROVE  \E k : /\ k[1..0] = <<>>
                  /\ \A j \in 1..Len(rows) : k[1..j] = Choose(preference, k[1..(j - 1)], rows[j])
                  /\ selectRouteTargets(preference, rows) = k[1..Len(rows)]
<1> DEFINE D == DOMAIN rows
           Value(k, T) == IF T = {} THEN <<>>
                          ELSE Choose(preference, k[T \ {Along!LastOf(T)}], rows[Along!LastOf(T)])
           k == CHOOSE k : k = [T \in SUBSET D |-> Value(k, T)]
<1>1. D = 1..Len(rows) /\ Len(rows) \in Nat
  OBVIOUS
<1>2. selectRouteTargets(preference, rows) = k[D]
  BY DEF selectRouteTargets, FoldLeft, MapThenFoldSet, Max, Along!LastOf
<1> HIDE DEF D
<1>3. \A l : Along!Recurs(l, D, preference, <<>>, rows) <=> l = [T \in SUBSET D |-> Value(l, T)]
  BY DEF Along!Recurs
<1>4. \E l : Along!Recurs(l, D, preference, <<>>, rows)
  BY <1>1, Along!RecursionExists DEF D
<1>5. Along!Recurs(k, D, preference, <<>>, rows)
  <2> HIDE DEF Value
  <2> QED BY <1>3, <1>4
<1> HIDE DEF k
<1>6. Along!Recurs(k, 1..Len(rows), preference, <<>>, rows)
  BY <1>1, <1>5
<1>7. /\ k[1..0] = <<>>
      /\ \A j \in 1..Len(rows) : k[1..j] = Choose(preference, k[1..(j - 1)], rows[j])
  BY <1>1, <1>6, Along!FoldSteps
<1> QED BY <1>1, <1>2, <1>7

\* It chooses each supported route once.
LEMMA SelectsAll ==
    ASSUME NEW S, NEW rows \in Seq(S), RowsApart(rows), NEW preference, Ranked(preference)
    PROVE  Selected(preference, rows, Len(rows), selectRouteTargets(preference, rows))
<1> DEFINE N == Len(rows)
<1>1. N \in Nat
  OBVIOUS
<1>2. PICK k : /\ k[1..0] = <<>>
               /\ \A j \in 1..N : k[1..j] = Choose(preference, k[1..(j - 1)], rows[j])
               /\ selectRouteTargets(preference, rows) = k[1..N]
  BY SelectsAlong
<1> DEFINE T == {n \in Nat : n <= N => Selected(preference, rows, n, k[1..n])}
<1>3. 0 \in T
  <2>1. <<>> \in Seq(ToSet(rows)) /\ DOMAIN <<>> = {} /\ 1..0 = {}
    OBVIOUS
  <2>2. Selected(preference, rows, 0, <<>>)
    BY <2>1 DEF Selected
  <2> QED BY <1>2, <2>2
<1>4. ASSUME NEW n \in Nat, n \in T PROVE n + 1 \in T
  <2> SUFFICES ASSUME n + 1 <= N PROVE Selected(preference, rows, n + 1, k[1..(n + 1)])
    OBVIOUS
  <2>1. n + 1 \in 1..N /\ (n + 1) - 1 = n /\ Selected(preference, rows, n, k[1..n])
    BY <1>1, <1>4
  <2>2. k[1..(n + 1)] = Choose(preference, k[1..n], rows[n + 1])
    BY <1>2, <2>1
  <2> DEFINE j == n + 1
  <2>3. j \in 1..N /\ Selected(preference, rows, j - 1, k[1..n])
    BY <2>1
  <2> HIDE DEF j
  <2>4. Selected(preference, rows, j, Choose(preference, k[1..n], rows[j]))
    BY <2>3, ChooseSelects
  <2> QED BY <2>2, <2>4 DEF j
<1> HIDE DEF T
<1>5. \A n \in Nat : n \in T
  BY <1>3, <1>4, AllNumbers
<1>6. Selected(preference, rows, N, k[1..N])
  BY <1>1, <1>5 DEF T
<1> QED BY <1>2, <1>6

\* Selection chooses a target for each route that has an endpoint the handler
\* prefers at all, and the best of its endpoints.
LEMMA ChosenReach ==
    ASSUME NEW catalog \in Catalogs, NEW preference \in Preferences, NEW rows \in ResolveModelRoutes(catalog),
           NEW chosen, Selected(preference, rows, Len(rows), chosen)
    PROVE  /\ chosen \in Seq(Offered(catalog))
           /\ \A m \in DOMAIN chosen : \E r \in Reachable(catalog, preference) : chosen[m].route = r.id
           /\ \A r \in Reachable(catalog, preference) : \E m \in DOMAIN chosen :
                 /\ chosen[m].route = r.id
                 /\ chosen[m].protocol = BestOf(EndpointsOf(catalog, r), preference)
<1>1. /\ rows \in Seq(Offered(catalog)) /\ DOMAIN rows = 1..Len(rows)
      /\ \A o \in Offered(catalog) : \E i \in DOMAIN rows : rows[i] = o
  BY RowsOfCatalog
<1>2. Ranked(preference) /\ DOMAIN preference \subseteq Nat
  BY PreferenceAssumption DEF Ranked
<1>3. ASSUME NEW m \in DOMAIN chosen PROVE chosen[m] \in Offered(catalog)
  BY <1>1 DEF Selected
<1>4. chosen \in Seq(Offered(catalog))
  <2>1. chosen \in Seq(ToSet(rows))
    BY DEF Selected
  <2> HIDE DEF Selected
  <2> QED BY <1>3, <2>1
<1>5. ASSUME NEW m \in DOMAIN chosen, NEW r \in catalog.routes, chosen[m].route = r.id
      PROVE  chosen[m].protocol \in EndpointsOf(catalog, r)
  <2>1. PICK s \in catalog.routes, e \in catalog.endpoints :
           MayUse(s, e) /\ chosen[m].route = s.id /\ chosen[m].protocol = e.protocol
    BY <1>3, RowOrigin
  <2>2. s = r
    BY <1>5, <2>1, CatalogAssumption
  <2> QED BY <2>1, <2>2 DEF EndpointsOf
<1>6. ASSUME NEW m \in DOMAIN chosen PROVE \E r \in Reachable(catalog, preference) : chosen[m].route = r.id
  <2>1. PICK r \in catalog.routes : chosen[m].route = r.id
    BY <1>3, RowOrigin
  <2>2. chosen[m].protocol \in EndpointsOf(catalog, r) /\ chosen[m].protocol \in ToSet(preference)
    BY <1>5, <2>1 DEF Selected, Supported
  <2> QED BY <2>1, <2>2 DEF Reachable
<1>7. ASSUME NEW r \in Reachable(catalog, preference)
      PROVE  \E m \in DOMAIN chosen : /\ chosen[m].route = r.id
                                      /\ chosen[m].protocol = BestOf(EndpointsOf(catalog, r), preference)
  <2> DEFINE P == EndpointsOf(catalog, r)
             M == {n \in DOMAIN preference : preference[n] \in P}
             best == Min(M)
  <2>1. r \in catalog.routes /\ M # {} /\ M \in SUBSET Nat
    BY <1>2, <1>7 DEF Reachable, ToSet
  <2> HIDE DEF M
  <2>2. best \in M /\ \A n \in M : best <= n
    BY <2>1, LeastPlace
  <2> HIDE DEF best
  <2>3. best \in DOMAIN preference /\ best \in Nat /\ preference[best] \in P
    BY <1>2, <2>2 DEF M
  <2>4. PICK e \in catalog.endpoints : MayUse(r, e) /\ e.protocol = preference[best]
    BY <2>3 DEF EndpointsOf
  <2>5. RowOf(r, e, catalog.policy) \in Offered(catalog)
    BY <2>1, <2>4 DEF Offered
  <2>6. PICK i \in DOMAIN rows : rows[i] = RowOf(r, e, catalog.policy)
    BY <1>1, <2>5
  <2>7. rows[i].route = r.id /\ rows[i].protocol = preference[best]
    BY <2>4, <2>6 DEF RowOf
  <2>8. Supported(preference, rows[i])
    BY <2>3, <2>7 DEF Supported, ToSet
  <2>9. PICK m \in DOMAIN chosen : /\ chosen[m].route = rows[i].route
                                   /\ Rank(preference, chosen[m]) <= Rank(preference, rows[i])
    BY <1>1, <2>8 DEF Selected
  <2>10. /\ Rank(preference, rows[i]) \in DOMAIN preference
         /\ preference[Rank(preference, rows[i])] = preference[best]
    BY <1>2, <2>7, <2>8, RankIsPlace
  <2>11. Rank(preference, rows[i]) = best
    BY <1>2, <2>3, <2>10 DEF Ranked
  <2>12. Supported(preference, chosen[m])
    BY DEF Selected
  <2>13. /\ Rank(preference, chosen[m]) \in DOMAIN preference /\ Rank(preference, chosen[m]) \in Nat
         /\ preference[Rank(preference, chosen[m])] = chosen[m].protocol
    BY <1>2, <2>12, RankIsPlace
  <2>14. chosen[m].protocol \in P
    BY <1>5, <2>1, <2>7, <2>9
  <2>15. Rank(preference, chosen[m]) \in M
    BY <2>13, <2>14 DEF M
  <2>16. Rank(preference, chosen[m]) = best
    BY <2>2, <2>3, <2>9, <2>11, <2>13, <2>15
  <2>17. BestOf(P, preference) = preference[best]
    BY DEF BestOf, best, M
  <2> QED BY <2>7, <2>9, <2>13, <2>16, <2>17
<1> QED BY <1>4, <1>6, <1>7

\* As many as there are such routes.
LEMMA ChosenCount ==
    ASSUME NEW catalog \in Catalogs, NEW preference \in Preferences, NEW rows \in ResolveModelRoutes(catalog),
           NEW chosen, Selected(preference, rows, Len(rows), chosen)
    PROVE  Len(chosen) = Cardinality(Reachable(catalog, preference))
<1> DEFINE R == Reachable(catalog, preference)
           n == Len(chosen)
           f == [m \in 1..n |-> CHOOSE r \in R : r.id = chosen[m].route]
<1>1. chosen \in Seq(Offered(catalog)) /\ \A m, l \in DOMAIN chosen : chosen[m].route = chosen[l].route => m = l
  BY ChosenReach DEF Selected
<1>2. n \in Nat /\ DOMAIN chosen = 1..n
  BY <1>1
<1>3. \A m \in 1..n : \E r \in R : r.id = chosen[m].route
  BY <1>2, ChosenReach
<1>4. \A r \in R : \E m \in 1..n : r.id = chosen[m].route
  BY <1>2, ChosenReach
<1>5. \A r, s \in R : r.id = s.id => r = s
  BY CatalogAssumption DEF Reachable
<1>6. IsFiniteSet(R)
  <2>1. IsFiniteSet(catalog.routes) /\ R \subseteq catalog.routes
    BY CatalogAssumption DEF Reachable
  <2> QED BY <2>1, FS_Subset
<1> HIDE DEF n, R
<1>7. \A m \in 1..n : f[m] \in R /\ f[m].id = chosen[m].route
  BY <1>3
<1>8. f \in [1..n -> R]
  BY <1>7
<1> HIDE DEF f
<1>9. \A m, l \in 1..n : f[m] = f[l] => m = l
  BY <1>1, <1>2, <1>7
<1>10. \A r \in R : \E m \in 1..n : f[m] = r
  BY <1>4, <1>5, <1>7
<1>11. f \in Injection(1..n, R) /\ f \in Surjection(1..n, R)
  BY <1>8, <1>9, <1>10 DEF Injection, IsInjective, Surjection
<1>12. Cardinality(1..n) = Cardinality(R)
  BY <1>6, <1>11, FS_Injection
<1>13. Cardinality(1..n) = n
  BY <1>2, FS_Interval
<1> QED BY <1>12, <1>13 DEF n, R

\* A permutation has every element.
LEMMA PermutesOnto ==
    ASSUME NEW S, NEW is \in Seq(S), NEW was \in Seq(S), Permutes(is, was), NEW m \in DOMAIN was
    PROVE  \E n \in DOMAIN is : is[n] = was[m]
<1> DEFINE N == Len(was)
<1>1. N \in Nat /\ DOMAIN was = 1..N /\ DOMAIN is = 1..N
  BY DEF Permutes
<1>2. PICK f : Reorders(f, is, was)
  BY DEF Permutes
<1> HIDE DEF N
<1>3. f \in Injection(1..N, 1..N)
  BY <1>1, <1>2 DEF Reorders, Injection, IsInjective
<1>4. IsFiniteSet(1..N)
  BY <1>1, FS_Interval
<1>5. f \in Surjection(1..N, 1..N)
  BY <1>3, <1>4, FS_Injection
<1>6. PICK n \in 1..N : f[n] = m
  BY <1>1, <1>5 DEF Surjection
<1> QED BY <1>1, <1>2, <1>6 DEF Reorders

\* A request tries every route that has an endpoint its handler can use, each
\* once and at the endpoint the handler prefers, whatever the catalog, the order
\* the database returned it in, the cursor and the session: selectRouteTargets,
\* rotateRouteTargets and preferRouteSessionTarget together lose no provider
\* and call none twice.
THEOREM EveryRouteReached == EveryRouteOnce
<1> SUFFICES ASSUME NEW catalog \in Catalogs, NEW preference \in Preferences, NEW next \in Cursors,
                    NEW rows \in ResolveModelRoutes(catalog),
                    NEW session \in {r.id : r \in catalog.routes} \union {NoRoute}
             PROVE  LET order == Prefer(session, Turn(next, selectRouteTargets(preference, rows)).order)
                        reachable == Reachable(catalog, preference)
                    IN /\ Len(order) = Cardinality(reachable)
                       /\ \A r \in reachable : \E n \in DOMAIN order :
                             /\ order[n].route = r.id
                             /\ order[n].protocol = BestOf(EndpointsOf(catalog, r), preference)
  BY DEF EveryRouteOnce
<1> DEFINE chosen == selectRouteTargets(preference, rows)
           order == Prefer(session, Turn(next, chosen).order)
           O == Offered(catalog)
<1>1. Ranked(preference) /\ next \in Nat
  BY PreferenceAssumption, SelectionAssumption DEF Ranked
<1>2. Selected(preference, rows, Len(rows), chosen)
  BY <1>1, RowsOfCatalog, CatalogRowsApart, SelectsAll
<1> HIDE DEF chosen
<1>3. chosen \in Seq(O)
  BY <1>2, ChosenReach
<1>4. Weighed(chosen)
  <2> SUFFICES ASSUME NEW m \in DOMAIN chosen PROVE chosen[m].weight \in Int
    BY DEF Weighed
  <2>1. chosen[m] \in O
    <3> HIDE DEF O
    <3> QED BY <1>3
  <2>2. PICK r \in catalog.routes : chosen[m].weight = r.weight
    BY <2>1, RowOrigin
  <2> QED BY <2>2, CatalogAssumption
<1> HIDE DEF O
<1>5. Turn(next, chosen).order \in Seq(O)
  BY <1>1, <1>3, <1>4, TurnPermutes
<1>6. order \in Seq(O)
  BY <1>5, PreferKeepsTargets
<1>7. Permutes(order, chosen)
  BY <1>1, <1>3, <1>4, OrderKeepsTargets
<1>8. Len(order) = Cardinality(Reachable(catalog, preference))
  BY <1>2, <1>7, ChosenCount DEF Permutes
<1> HIDE DEF order
<1>9. ASSUME NEW r \in Reachable(catalog, preference)
      PROVE  \E n \in DOMAIN order : /\ order[n].route = r.id
                                     /\ order[n].protocol = BestOf(EndpointsOf(catalog, r), preference)
  <2>1. PICK m \in DOMAIN chosen : /\ chosen[m].route = r.id
                                   /\ chosen[m].protocol = BestOf(EndpointsOf(catalog, r), preference)
    BY <1>2, ChosenReach
  <2>2. PICK n \in DOMAIN order : order[n] = chosen[m]
    BY <1>3, <1>6, <1>7, PermutesOnto
  <2> QED BY <2>1, <2>2
<1> QED BY <1>8, <1>9 DEF order, chosen

-----------------------------------------------------------------------------
(* Operators                                                               *)

\* A set of natural numbers that is not empty has a least element.
LEMMA MinNat ==
    ASSUME NEW S \in SUBSET Nat, S # {}
    PROVE  Min(S) \in S
<1>1. \E x \in S : \A y \in S : ~(<<y, x>> \in OpToRel(<, Nat))
  BY NatLessThanWellFounded, WFMin
<1>2. PICK x \in S : \A y \in S : ~(y < x)
  BY <1>1 DEF OpToRel
<1>3. \A y \in S : x =< y
  BY <1>2
<1> QED BY <1>3 DEF Min

\* Taking one element out of a sequence leaves a sequence.
LEMMA RemoveFirstType ==
    ASSUME NEW S, NEW s \in Seq(S), NEW e
    PROVE  RemoveFirst(s, e) \in Seq(S)
<1>1. CASE ~\E i \in 1..Len(s) : s[i] = e
  BY <1>1 DEF RemoveFirst
<1>2. CASE \E i \in 1..Len(s) : s[i] = e
  <2> DEFINE I == {i \in 1..Len(s) : s[i] = e}
             n == SelectInSeq(s, LAMBDA v : v = e)
  <2>1. Min(I) \in I
    <3>1. I \in SUBSET Nat /\ I # {}
      BY <1>2
    <3> HIDE DEF I
    <3> QED BY <3>1, MinNat
  <2>2. n = Min(I)
    BY <1>2 DEF SelectInSeq
  <2>3. n \in 1..Len(s)
    BY <2>1, <2>2
  <2> HIDE DEF n
  <2>4. SubSeq(s, 1, n - 1) \in Seq(S) /\ SubSeq(s, n + 1, Len(s)) \in Seq(S)
    BY <2>3, SubSeqProperties
  <2>5. RemoveAt(s, n) \in Seq(S)
    BY <2>4, ConcatProperties DEF RemoveAt
  <2> QED BY <1>2, <2>5 DEF RemoveFirst, n
<1> QED BY <1>1, <1>2

\* The cursor turns within the keys.
LEMMA Remainder == ASSUME NEW x \in Nat, NEW n \in Nat, n > 0 PROVE x % n \in 0..(n - 1)
OBVIOUS

\* What NextFor gives out is a key of the pool, for a target it was asked for,
\* and the cursor it leaves points into the pool.
LEMMA NextForType ==
    ASSUME NEW p \in Pool, NEW t \in Targets, Stops(p, t) # {}
    PROVE  /\ NextFor(p, t).key \in Keys
           /\ Usable(p, t, NextFor(p, t).key)
           /\ NextFor(p, t).pool \in Pool
<1> DEFINE i == Min(Stops(p, t))
           n == Len(p.keys)
<1>1. n \in Nat /\ p.next \in Nat /\ p.keys \in Seq(Keys)
  BY DEF Pool
<1>2. i \in Stops(p, t)
  <2>1. Stops(p, t) \subseteq Nat
    BY <1>1 DEF Stops
  <2> QED BY <2>1, MinNat
<1>3. i \in 0..(n - 1) /\ Usable(p, t, At(p, i))
  BY <1>2 DEF Stops
<1> HIDE DEF i
<1>4. n > 0 /\ i \in Nat
  BY <1>1, <1>3
<1>5. (p.next + i) % n \in 0..(n - 1) /\ (p.next + i + 1) % n \in 0..(n - 1)
  <2>1. p.next + i \in Nat /\ p.next + i + 1 \in Nat
    BY <1>1, <1>4
  <2> HIDE DEF n
  <2> QED BY <2>1, <1>1, <1>4, Remainder
<1>6. At(p, i) \in Keys
  <2>1. ((p.next + i) % n) + 1 \in 1..n
    BY <1>1, <1>4, <1>5
  <2>2. \A j \in 1..n : p.keys[j] \in Keys
    BY <1>1
  <2> QED BY <2>1, <2>2 DEF At
<1>7. [p EXCEPT !.next = (p.next + i + 1) % n] \in Pool
  BY <1>1, <1>5 DEF Pool
<1> QED BY <1>3, <1>6, <1>7 DEF NextFor, i

LEMMA RemoveKeyType ==
    ASSUME NEW p \in Pool, NEW k \in Keys
    PROVE  RemoveKey(p, k) \in Pool
<1> DEFINE rest == RemoveFirst(p.keys, k)
<1>1. rest \in Seq(Keys) /\ p.next \in Nat /\ p.cooling \subseteq Ids
  BY RemoveFirstType DEF Pool
<1> HIDE DEF rest
<1>2. (IF rest = <<>> THEN 0 ELSE p.next % Len(rest)) \in Nat
  <2>1. CASE rest = <<>>
    BY <2>1
  <2>2. CASE rest # <<>>
    <3>1. Len(rest) \in Nat /\ Len(rest) > 0
      BY <1>1, <2>2
    <3> QED BY <1>1, <2>2, <3>1
  <2> QED BY <2>1, <2>2
<1>3. {id \in p.cooling : id[2] # k.name} \in SUBSET Ids
  BY <1>1
<1> QED BY <1>1, <1>2, <1>3 DEF RemoveKey, Pool, rest

LEMMA CoolType ==
    ASSUME NEW p \in Pool, NEW id \in Ids
    PROVE  Cool(p, id) \in Pool /\ MarkHealthy(p, id) \in Pool
BY DEF Cool, MarkHealthy, Pool

LEMMA ReplaceType ==
    /\ \A keys \in Seq(Keys) : Replace(keys) \in Pool
    /\ \A p \in Pool : Flush(p) \in Pool
BY DEF Replace, Flush, Pool

\* The budget for a target is a part of what is left for the request.
LEMMA BudgetPart ==
    ASSUME NEW remaining \in 1..MaxAttempts, NEW p, NEW t
    PROVE  Budget(remaining, AvailableFor(p, t)) \in 0..remaining
<1>1. AvailableFor(p, t) \in Nat
  <2>1. {k \in Keys : Holds(p, k) /\ keyMatchesTarget(k, t)} \subseteq Keys
    OBVIOUS
  <2> QED BY <2>1, KeyPoolAssumption, FS_Subset, FS_CardinalityType DEF AvailableFor
<1> QED BY <1>1, FailoverAssumption DEF Budget, Smaller

-----------------------------------------------------------------------------
(* The invariant                                                           *)

Working == PCs \ {"idle", "target"}
Keyed   == {"peek", "adopt", "call", "share", "heal", "disable", "remove"}

\* What the place of a request in its code says about the rest of it: where
\* it runs, that it has a target and a key, and that a call is still allowed.
Placed(q) ==
    /\ q.pc # "idle" => q.at \in Replicas
    /\ q.pc \in Working => q.order # <<>>
    /\ q.pc \in Keyed => q.key \in Keys
    /\ q.pc \in {"peek", "call"} => q.left > 0
    /\ q.attempts + q.left <= MaxAttempts

FailInv == TypeOK /\ \A r \in Requests : Placed(req[r])

LEMMA InitFail == Init => FailInv
<1> SUFFICES ASSUME Init PROVE FailInv
  OBVIOUS
<1>1. Idle \in Request /\ Placed(Idle)
  BY FailoverAssumption DEF Idle, Request, Placed, PCs, Working, Keyed
<1>2. Replace(Rows) \in Pool
  BY ReplaceType, FailoverAssumption
<1>3. pool \in [Replicas -> Pool] /\ req \in [Requests -> Request]
  BY <1>1, <1>2 DEF Init
<1>4. \A r \in Requests : Placed(req[r])
  BY <1>1 DEF Init
<1>5. shared \subseteq Ids /\ enabled \in Seq(Keys) /\ events \in 0..MaxEvents
  BY FailoverAssumption DEF Init
<1>7. overtook \in BOOLEAN
  BY DEF Init
<1>6. /\ fetched \in [Replicas -> Seq(Keys) \union {None}]
      /\ tried \in [Requests -> (SUBSET Keys) \union {None}]
      /\ ousted \in [Replicas -> SUBSET Keys]
  BY DEF Init
<1> QED BY <1>3, <1>4, <1>5, <1>6, <1>7 DEF TypeOK, FailInv

\* The facts about a working request that its steps use.
LEMMA WorkingFacts ==
    ASSUME FailInv, NEW r \in Requests
    PROVE  /\ req[r].pc # "idle" => req[r].at \in Replicas /\ Home(r) \in Pool
           /\ req[r].pc \in Working => Target(r) \in Targets
           /\ req[r].pc \in Keyed => req[r].key \in Keys /\ Id(r) \in Ids
           /\ req[r] \in Request /\ Placed(req[r])
<1>1. req[r] \in Request /\ Placed(req[r])
  BY DEF FailInv, TypeOK
<1>2. req[r].pc # "idle" => req[r].at \in Replicas /\ Home(r) \in Pool
  BY <1>1 DEF Placed, Home, FailInv, TypeOK
<1>3. req[r].pc \in Working => Target(r) \in Targets
  <2> SUFFICES ASSUME req[r].pc \in Working PROVE Target(r) \in Targets
    OBVIOUS
  <2>1. req[r].order \in Seq(Targets) /\ req[r].order # <<>>
    BY <1>1 DEF Placed, Request
  <2> QED BY <2>1, HeadTailProperties DEF Target
<1>4. Keyed \subseteq Working
  BY DEF Keyed, Working, PCs
<1>5. req[r].pc \in Keyed => req[r].key \in Keys /\ Id(r) \in Ids
  BY <1>1, <1>3, <1>4 DEF Placed, Id, Ids
<1> QED BY <1>1, <1>2, <1>3, <1>5

\* A step that puts a sound record in the place of one request and keeps the
\* types of everything else.
LEMMA ReplaceRequest ==
    ASSUME FailInv, NEW r \in Requests, NEW q \in Request, Placed(q),
           req' = [req EXCEPT ![r] = q],
           pool' \in [Replicas -> Pool], shared' \subseteq Ids, enabled' \in Seq(Keys),
           fetched' = fetched, events' = events,
           tried' \in [Requests -> (SUBSET Keys) \union {None}],
           ousted' \in [Replicas -> SUBSET Keys], overtook' \in BOOLEAN
    PROVE  FailInv'
<1>1. req' \in [Requests -> Request]
  BY DEF FailInv, TypeOK
<1>2. \A c \in Requests : Placed(req'[c])
  BY DEF FailInv, TypeOK
<1>3. TypeOK'
  BY <1>1 DEF FailInv, TypeOK
<1> QED BY <1>2, <1>3 DEF FailInv, Placed

LEMMA HistoryType ==
    ASSUME FailInv, NEW r \in Requests
    PROVE  /\ \A b, own : Stir(b, own) => tried' \in [Requests -> (SUBSET Keys) \union {None}]
           /\ \A keys \in (SUBSET Keys) \union {None} :
                Note(r, keys) => tried' \in [Requests -> (SUBSET Keys) \union {None}]
           /\ req[r].key \in Keys => Tried(r) \in (SUBSET Keys) \union {None}
<1>1. tried \in [Requests -> (SUBSET Keys) \union {None}]
  BY DEF FailInv, TypeOK
<1>2. ASSUME NEW b, NEW own, Stir(b, own)
      PROVE  tried' \in [Requests -> (SUBSET Keys) \union {None}]
  BY <1>1, <1>2 DEF Stir
<1>3. ASSUME NEW keys \in (SUBSET Keys) \union {None}, Note(r, keys)
      PROVE  tried' \in [Requests -> (SUBSET Keys) \union {None}]
  BY <1>1, <1>3 DEF Note
<1>4. req[r].key \in Keys => Tried(r) \in (SUBSET Keys) \union {None}
  BY <1>1 DEF Tried
<1> QED BY <1>2, <1>3, <1>4

LEMMA PoolType ==
    ASSUME FailInv, NEW b \in Replicas, NEW p \in Pool, SetPool(b, p)
    PROVE  pool' \in [Replicas -> Pool]
BY DEF FailInv, TypeOK, SetPool

LEMMA EndStep ==
    ASSUME FailInv, NEW r \in Requests, End(r), UNCHANGED <<pool, enabled, fetched, events, ousted, overtook>>,
           shared' \subseteq Ids
    PROVE  FailInv'
<1>1. Idle \in Request /\ Placed(Idle)
  BY FailoverAssumption DEF Idle, Request, Placed, PCs, Working, Keyed
<1>2. tried' \in [Requests -> (SUBSET Keys) \union {None}]
  BY HistoryType DEF End
<1>3. req' = [req EXCEPT ![r] = Idle]
  BY DEF End
<1> QED BY <1>1, <1>2, <1>3, ReplaceRequest DEF FailInv, TypeOK

-----------------------------------------------------------------------------
(* The steps of a request                                                  *)

\* Starting, and the steps between targets.
LEMMA StartStep ==
    ASSUME FailInv, NEW r \in Requests, NEW b \in Replicas, NEW order \in Orders, Start(r, b, order)
    PROVE  FailInv'
<1> DEFINE q1 == [Idle EXCEPT !.pc = "target"]
           q2 == [q1 EXCEPT !.at = b]
           q  == [q2 EXCEPT !.order = order]
<1>1. q = [pc |-> "target", at |-> b, order |-> order, attempts |-> 0, left |-> 0, key |-> None]
  <2>1. q1 = [pc |-> "target", at |-> None, order |-> <<>>, attempts |-> 0, left |-> 0, key |-> None]
    BY DEF Idle
  <2> HIDE DEF q1
  <2>2. q2 = [pc |-> "target", at |-> b, order |-> <<>>, attempts |-> 0, left |-> 0, key |-> None]
    BY <2>1
  <2> HIDE DEF q2
  <2> QED BY <2>2
<1>2. req' = [req EXCEPT ![r] = q]
  BY DEF Start
<1> HIDE DEF q
<1>3. q \in Request
  <2>1. order \in Seq(Targets) /\ 0 \in 0..MaxAttempts
    BY FailoverAssumption
  <2> QED BY <1>1, <2>1 DEF Request, PCs
<1>4. Placed(q)
  BY <1>1, FailoverAssumption DEF Placed, Working, PCs, Keyed
<1> QED BY <1>2, <1>3, <1>4, ReplaceRequest DEF Start, world, history, FailInv, TypeOK

LEMMA TargetStep ==
    ASSUME FailInv, NEW r \in Requests,
           EnterTarget(r) \/ SkipTarget(r) \/ GiveUp(r) \/ LeaveTarget(r)
    PROVE  FailInv'
<1>0. req[r] \in Request /\ Placed(req[r]) /\ req \in [Requests -> Request]
  BY WorkingFacts DEF FailInv, TypeOK
<1>1. CASE EnterTarget(r)
  <2> DEFINE remaining == MaxAttempts - req[r].attempts
             left == Budget(remaining, AvailableFor(Home(r), Target(r)))
             q == [req[r] EXCEPT !.pc = "pick", !.left = left]
  <2>1. left \in 0..remaining
    <3>1. remaining \in 1..MaxAttempts
      BY <1>0, <1>1, FailoverAssumption DEF EnterTarget, Request
    <3> QED BY <3>1, BudgetPart
  <2>2. req' = [req EXCEPT ![r] = q]
    BY <1>0, <1>1 DEF EnterTarget
  <2> HIDE DEF left
  <2>3. q \in Request
    <3>1. left \in 0..MaxAttempts
      BY <1>0, <1>1, <2>1, FailoverAssumption DEF Request
    <3> QED BY <1>0, <3>1 DEF Request, PCs
  <2>5. Placed(q)
    BY <1>0, <1>1, <2>1, FailoverAssumption DEF EnterTarget, Request, Placed, PCs, Working, Keyed
  <2>4. tried' \in [Requests -> (SUBSET Keys) \union {None}]
    BY <1>1, HistoryType DEF EnterTarget
  <2> HIDE DEF q
  <2> QED BY <1>1, <2>2, <2>3, <2>4, <2>5, ReplaceRequest DEF EnterTarget, world, FailInv, TypeOK
<1>2. CASE SkipTarget(r)
  <2> DEFINE q == [req[r] EXCEPT !.order = Tail(@)]
  <2>1. req' = [req EXCEPT ![r] = q]
    BY <1>0, <1>2 DEF SkipTarget
  <2>2. Tail(req[r].order) \in Seq(Targets)
    BY <1>0, <1>2, HeadTailProperties DEF SkipTarget, Request
  <2>3. q \in Request /\ Placed(q)
    BY <1>0, <1>2, <2>2 DEF SkipTarget, Request, Placed, PCs, Working, Keyed
  <2> HIDE DEF q
  <2> QED BY <1>2, <2>1, <2>3, ReplaceRequest DEF SkipTarget, world, history, FailInv, TypeOK
<1>3. CASE GiveUp(r)
  BY <1>3, EndStep DEF GiveUp, world, FailInv, TypeOK
<1>4. CASE LeaveTarget(r)
  <2> DEFINE q == [req[r] EXCEPT !.pc = "target", !.order = Tail(@), !.left = 0]
  <2>1. req' = [req EXCEPT ![r] = q]
    BY <1>0, <1>4 DEF LeaveTarget
  <2>2. req[r].order \in Seq(Targets) /\ req[r].order # <<>>
    BY <1>0, <1>4 DEF LeaveTarget, Request, Placed, Working, PCs
  <2>3. Tail(req[r].order) \in Seq(Targets)
    BY <2>2, HeadTailProperties
  <2>4. q \in Request /\ Placed(q)
    BY <1>0, <1>4, <2>3, FailoverAssumption DEF LeaveTarget, Request, Placed, PCs, Working, Keyed
  <2>5. tried' \in [Requests -> (SUBSET Keys) \union {None}]
    BY <1>4, HistoryType DEF LeaveTarget
  <2> HIDE DEF q
  <2> QED BY <1>4, <2>1, <2>4, <2>5, ReplaceRequest DEF LeaveTarget, world, FailInv, TypeOK
<1> QED BY <1>1, <1>2, <1>3, <1>4

\* A step of a request that moves it, and perhaps takes or drops a key, but
\* makes no call.
Move(r, pc, key) == req' = [req EXCEPT ![r].pc = pc, ![r].key = key]

\* After such a step the request is sound if its key and its budget allow the
\* place it has come to.
LEMMA MoveType ==
    ASSUME FailInv, NEW r \in Requests, req[r].pc \in Working,
           NEW pc \in Working, NEW key \in Keys \union {None},
           pc \in Keyed => key \in Keys,
           pc \in {"peek", "call"} => req[r].left > 0,
           Move(r, pc, key)
    PROVE  \E q \in Request : Placed(q) /\ req' = [req EXCEPT ![r] = q]
<1> DEFINE q == [req[r] EXCEPT !.pc = pc, !.key = key]
<1>1. req[r] \in Request /\ Placed(req[r]) /\ req \in [Requests -> Request]
  BY WorkingFacts DEF FailInv, TypeOK
<1>2. req' = [req EXCEPT ![r] = q]
  BY <1>1 DEF Move
<1>3. q \in Request
  BY <1>1 DEF Request, Working
<1>4. Placed(q)
  BY <1>1 DEF Request, Placed, Working, PCs
<1> QED BY <1>2, <1>3, <1>4

\* The same for a step that counts a call.
LEMMA CountType ==
    ASSUME FailInv, NEW r \in Requests, NEW pc \in {"pick", "share", "disable"},
           NEW key \in Keys \union {None}, pc \in Keyed => key \in Keys, Count(r, pc, key)
    PROVE  \E q \in Request : Placed(q) /\ req' = [req EXCEPT ![r] = q]
<1> DEFINE q == [req[r] EXCEPT !.pc = pc, !.attempts = @ + 1, !.left = @ - 1, !.key = key]
<1>1. req[r] \in Request /\ Placed(req[r]) /\ req \in [Requests -> Request]
  BY WorkingFacts DEF FailInv, TypeOK
<1>2. req' = [req EXCEPT ![r] = q]
  BY <1>1 DEF Count
<1>3. /\ req[r].pc = "call"
      /\ req[r].left - 1 \in 0..MaxAttempts
      /\ req[r].attempts + 1 \in 0..MaxAttempts
      /\ (req[r].attempts + 1) + (req[r].left - 1) <= MaxAttempts
  BY <1>1, FailoverAssumption DEF Count, Request, Placed
<1>4. q \in Request
  BY <1>1, <1>3 DEF Request, PCs
<1>5. Placed(q)
  BY <1>1, <1>3 DEF Request, Placed, Working, PCs, Keyed
<1> QED BY <1>2, <1>4, <1>5

\* Taking a key and asking Redis about it.
LEMMA PickStep ==
    ASSUME FailInv, NEW r \in Requests,
           Pick(r) \/ PeekCooling(r) \/ PeekClear(r) \/ Adopt(r)
    PROVE  FailInv'
<1>1. CASE Pick(r)
  <2> DEFINE given == NextFor(Home(r), Target(r))
  <2>1. req[r].pc \in Working /\ req[r].at \in Replicas /\ Home(r) \in Pool /\ Target(r) \in Targets
    BY <1>1, WorkingFacts DEF Pick, Working, PCs
  <2>2. given.key \in Keys /\ given.pool \in Pool
    BY <1>1, <2>1, NextForType DEF Pick
  <2> HIDE DEF given
  <2>6. Move(r, "peek", given.key) /\ req[r].left > 0 /\ "peek" \in Working
    BY <1>1 DEF Move, Pick, given, Working, PCs
  <2>3. \E q \in Request : Placed(q) /\ req' = [req EXCEPT ![r] = q]
    BY <2>1, <2>2, <2>6, MoveType
  <2>4. pool' \in [Replicas -> Pool]
    BY <1>1, <2>1, <2>2, PoolType DEF Pick, given
  <2>5. tried' \in [Requests -> (SUBSET Keys) \union {None}]
    BY <1>1, HistoryType DEF Pick
  <2> QED BY <1>1, <2>3, <2>4, <2>5, ReplaceRequest DEF Pick, world, FailInv, TypeOK
<1>2. CASE PeekCooling(r)
  <2>1. Move(r, "adopt", req[r].key)
    BY <1>2, WorkingFacts DEF Move, PeekCooling, FailInv, TypeOK, Request
  <2>2. \E q \in Request : Placed(q) /\ req' = [req EXCEPT ![r] = q]
    <3>1. req[r].pc \in Working /\ req[r].key \in Keys /\ "adopt" \in Working
      BY <1>2, WorkingFacts DEF PeekCooling, Working, PCs, Keyed
    <3> QED BY <2>1, <3>1, MoveType
  <2> QED BY <1>2, <2>2, ReplaceRequest DEF PeekCooling, world, history, FailInv, TypeOK
<1>3. CASE PeekClear(r)
  <2>1. Move(r, "call", req[r].key)
    BY <1>3, WorkingFacts DEF Move, PeekClear, FailInv, TypeOK, Request
  <2>2. req[r].left > 0
    BY <1>3, WorkingFacts DEF PeekClear, Placed
  <2>3. \E q \in Request : Placed(q) /\ req' = [req EXCEPT ![r] = q]
    <3>1. req[r].pc \in Working /\ req[r].key \in Keys /\ "call" \in Working
      BY <1>3, WorkingFacts DEF PeekClear, Working, PCs, Keyed
    <3> QED BY <2>1, <2>2, <3>1, MoveType
  <2> QED BY <1>3, <2>3, ReplaceRequest DEF PeekClear, world, history, FailInv, TypeOK
<1>4. CASE Adopt(r)
  <2>1. req[r].pc \in Working /\ req[r].at \in Replicas /\ Home(r) \in Pool /\ Id(r) \in Ids
    BY <1>4, WorkingFacts DEF Adopt, Working, PCs, Keyed
  <2>9. Move(r, "pick", None) /\ "pick" \in Working /\ "pick" \notin Keyed
    BY <1>4 DEF Move, Adopt, Working, PCs, Keyed
  <2>2. \E q \in Request : Placed(q) /\ req' = [req EXCEPT ![r] = q]
    BY <2>1, <2>9, MoveType
  <2>3. pool' \in [Replicas -> Pool]
    BY <1>4, <2>1, CoolType, PoolType DEF Adopt
  <2>4. tried' \in [Requests -> (SUBSET Keys) \union {None}]
    BY <1>4, HistoryType DEF Adopt
  <2> QED BY <1>4, <2>2, <2>3, <2>4, ReplaceRequest DEF Adopt, world, FailInv, TypeOK
<1> QED BY <1>1, <1>2, <1>3, <1>4

\* The answers of the upstream that fail, and what follows from a 429.
LEMMA FailedCallStep ==
    ASSUME FailInv, NEW r \in Requests,
           CallError(r) \/ CallLimited(r) \/ Share(r) \/ CallInvalid(r)
    PROVE  FailInv'
<1>0. /\ req[r].pc \in Keyed => req[r].pc \in Working
      /\ req[r].pc \in Working => req[r].at \in Replicas /\ Home(r) \in Pool
      /\ req[r].pc \in Keyed => req[r].key \in Keys /\ Id(r) \in Ids
  BY WorkingFacts DEF Keyed, Working, PCs
<1>1. CASE CallError(r)
  <2>1. \E q \in Request : Placed(q) /\ req' = [req EXCEPT ![r] = q]
    BY <1>1, CountType DEF CallError, Keyed
  <2>2. tried' \in [Requests -> (SUBSET Keys) \union {None}]
    BY <1>0, <1>1, HistoryType DEF CallError, Count, Keyed
  <2> QED BY <1>1, <2>1, <2>2, ReplaceRequest DEF CallError, world, FailInv, TypeOK
<1>2. CASE CallLimited(r)
  <2>1. req[r].key \in Keys /\ req[r].at \in Replicas /\ Home(r) \in Pool /\ Id(r) \in Ids
    BY <1>0, <1>2 DEF CallLimited, Count, Keyed
  <2>2. \E q \in Request : Placed(q) /\ req' = [req EXCEPT ![r] = q]
    BY <1>2, <2>1, CountType DEF CallLimited
  <2>3. pool' \in [Replicas -> Pool]
    BY <1>2, <2>1, CoolType, PoolType DEF CallLimited
  <2>4. tried' \in [Requests -> (SUBSET Keys) \union {None}]
    BY <1>2, HistoryType DEF CallLimited
  <2> QED BY <1>2, <2>2, <2>3, <2>4, ReplaceRequest DEF CallLimited, world, FailInv, TypeOK
<1>3. CASE Share(r)
  <2>1. req[r].key \in Keys /\ req[r].pc \in Working /\ Id(r) \in Ids /\ "adopt" \in Working
    BY <1>0, <1>3 DEF Share, Keyed, Working, PCs
  <2>2. Move(r, "adopt", req[r].key)
    BY <1>3, WorkingFacts DEF Move, Share, FailInv, TypeOK, Request
  <2>3. \E q \in Request : Placed(q) /\ req' = [req EXCEPT ![r] = q]
    BY <2>1, <2>2, MoveType
  <2>4. shared' \subseteq Ids
    BY <1>3, <2>1 DEF Share, RedisWrite, FailInv, TypeOK
  <2>5. tried' \in [Requests -> (SUBSET Keys) \union {None}]
    BY <1>3, <2>1, HistoryType DEF Share
  <2> QED BY <1>3, <2>3, <2>4, <2>5, ReplaceRequest DEF Share, FailInv, TypeOK
<1>4. CASE CallInvalid(r)
  <2>1. req[r].key \in Keys
    BY <1>0, <1>4 DEF CallInvalid, Count, Keyed
  <2>2. \E q \in Request : Placed(q) /\ req' = [req EXCEPT ![r] = q]
    BY <1>4, <2>1, CountType DEF CallInvalid
  <2>3. tried' \in [Requests -> (SUBSET Keys) \union {None}]
    BY <1>4, <2>1, HistoryType DEF CallInvalid
  <2> QED BY <1>4, <2>2, <2>3, ReplaceRequest DEF CallInvalid, world, FailInv, TypeOK
<1> QED BY <1>1, <1>2, <1>3, <1>4

\* Taking a key out of service.
LEMMA DisableStep ==
    ASSUME FailInv, NEW r \in Requests, Disable(r) \/ DisableFails(r) \/ RemoveDisabled(r)
    PROVE  FailInv'
<1>0. /\ req[r].pc \in Working /\ req[r].at \in Replicas /\ req[r].key \in Keys
      /\ Home(r) \in Pool
  BY WorkingFacts DEF Disable, DisableFails, RemoveDisabled, Keyed, Working, PCs
<1>1. CASE Disable(r)
  <2>1. Move(r, "remove", req[r].key)
    BY <1>1, WorkingFacts DEF Move, Disable, FailInv, TypeOK, Request
  <2>2. \E q \in Request : Placed(q) /\ req' = [req EXCEPT ![r] = q]
    <3>1. "remove" \in Working
      BY DEF Working, PCs
    <3> QED BY <1>0, <2>1, <3>1, MoveType
  <2>3. enabled' \in Seq(Keys)
    BY <1>1, RemoveFirstType DEF Disable, FailInv, TypeOK
  <2>4. ousted' \in [Replicas -> SUBSET Keys]
    BY <1>0, <1>1 DEF Disable, FailInv, TypeOK
  <2>5. overtook' \in BOOLEAN
    BY <1>1 DEF Disable
  <2> QED BY <1>1, <2>2, <2>3, <2>4, <2>5, ReplaceRequest DEF Disable, FailInv, TypeOK
<1>2. CASE DisableFails(r)
  <2>9. Move(r, "pick", None) /\ "pick" \in Working /\ "pick" \notin Keyed
    BY <1>2 DEF Move, DisableFails, Working, PCs, Keyed
  <2>1. \E q \in Request : Placed(q) /\ req' = [req EXCEPT ![r] = q]
    BY <1>0, <2>9, MoveType
  <2> QED BY <1>2, <2>1, ReplaceRequest DEF DisableFails, world, history, FailInv, TypeOK
<1>3. CASE RemoveDisabled(r)
  <2>9. Move(r, "pick", None) /\ "pick" \in Working /\ "pick" \notin Keyed
    BY <1>3 DEF Move, RemoveDisabled, Working, PCs, Keyed
  <2>1. \E q \in Request : Placed(q) /\ req' = [req EXCEPT ![r] = q]
    BY <1>0, <2>9, MoveType
  <2>2. pool' \in [Replicas -> Pool]
    BY <1>0, <1>3, RemoveKeyType, PoolType DEF RemoveDisabled
  <2>3. tried' \in [Requests -> (SUBSET Keys) \union {None}]
    BY <1>3, HistoryType DEF RemoveDisabled
  <2> QED BY <1>3, <2>1, <2>2, <2>3, ReplaceRequest DEF RemoveDisabled, world, FailInv, TypeOK
<1> QED BY <1>1, <1>2, <1>3

\* The answers that end a request.
LEMMA AnswerStep ==
    ASSUME FailInv, NEW r \in Requests, CallRefused(r) \/ CallOk(r) \/ Heal(r)
    PROVE  FailInv'
<1>0. /\ req[r].pc \in Working /\ req[r].at \in Replicas /\ req[r].key \in Keys
      /\ Home(r) \in Pool /\ Id(r) \in Ids
  BY WorkingFacts DEF CallRefused, CallOk, Heal, Keyed, Working, PCs
<1>1. CASE CallRefused(r)
  BY <1>1, EndStep DEF CallRefused, world, FailInv, TypeOK
<1>2. CASE CallOk(r)
  <2>1. Move(r, "heal", req[r].key) /\ "heal" \in Working
    BY <1>2, WorkingFacts DEF Move, CallOk, FailInv, TypeOK, Request, Working, PCs
  <2>2. \E q \in Request : Placed(q) /\ req' = [req EXCEPT ![r] = q]
    BY <1>0, <2>1, MoveType
  <2>3. pool' \in [Replicas -> Pool]
    BY <1>0, <1>2, CoolType, PoolType DEF CallOk
  <2>4. tried' \in [Requests -> (SUBSET Keys) \union {None}]
    BY <1>2, HistoryType DEF CallOk
  <2> QED BY <1>2, <2>2, <2>3, <2>4, ReplaceRequest DEF CallOk, world, FailInv, TypeOK
<1>3. CASE Heal(r)
  <2>1. shared' \subseteq Ids
    BY <1>3 DEF Heal, RedisWrite, FailInv, TypeOK
  <2> QED BY <1>3, <2>1, EndStep DEF Heal
<1> QED BY <1>1, <1>2, <1>3

\* Whatever a request does.
LEMMA ProceedStep ==
    ASSUME FailInv, NEW r \in Requests, Proceed(r)
    PROVE  FailInv'
BY TargetStep, PickStep, FailedCallStep, DisableStep, AnswerStep DEF Proceed

-----------------------------------------------------------------------------
(* The steps of the world                                                  *)

LEMMA EventType == ASSUME FailInv, Event PROVE events' \in 0..MaxEvents
BY FailoverAssumption DEF FailInv, TypeOK, Event

\* A step that leaves the requests alone and keeps the types of the rest.
LEMMA RequestsUntouched ==
    ASSUME FailInv, req' = req, UNCHANGED <<enabled, ousted, overtook>>,
           pool' \in [Replicas -> Pool], shared' \subseteq Ids, events' \in 0..MaxEvents,
           fetched' \in [Replicas -> Seq(Keys) \union {None}],
           tried' \in [Requests -> (SUBSET Keys) \union {None}]
    PROVE  FailInv'
<1>1. TypeOK'
  BY DEF FailInv, TypeOK
<1>2. \A r \in Requests : Placed(req'[r])
  BY DEF FailInv
<1> QED BY <1>1, <1>2 DEF FailInv, Placed

LEMMA WorldStep ==
    ASSUME FailInv, World
    PROVE  FailInv'
<1>0. \A b, own : Stir(b, own) => tried' \in [Requests -> (SUBSET Keys) \union {None}]
  BY DEF FailInv, TypeOK, Stir
<1>1. ASSUME NEW b \in Replicas, NEW id \in Ids, Lapse(b, id) PROVE FailInv'
  <2>1. pool' \in [Replicas -> Pool]
    BY <1>1, CoolType, PoolType DEF Lapse, FailInv, TypeOK
  <2>2. tried' \in [Requests -> (SUBSET Keys) \union {None}]
    BY <1>0, <1>1 DEF Lapse
  <2> QED BY <1>1, <2>1, <2>2, EventType, RequestsUntouched DEF Lapse, FailInv, TypeOK
<1>2. ASSUME NEW b \in Replicas, FlushExhausted(b) PROVE FailInv'
  <2>1. pool' \in [Replicas -> Pool]
    BY <1>2, ReplaceType, PoolType DEF FlushExhausted, FailInv, TypeOK
  <2>2. tried' \in [Requests -> (SUBSET Keys) \union {None}]
    BY <1>0, <1>2 DEF FlushExhausted
  <2> QED BY <1>2, <2>1, <2>2, EventType, RequestsUntouched DEF FlushExhausted, FailInv, TypeOK
<1>3. ASSUME NEW b \in Replicas, FetchKeys(b) PROVE FailInv'
  <2>1. fetched' \in [Replicas -> Seq(Keys) \union {None}]
    BY <1>3 DEF FetchKeys, FailInv, TypeOK
  <2> QED BY <1>3, <2>1, EventType, RequestsUntouched DEF FetchKeys, history, FailInv, TypeOK
<1>4. ASSUME NEW b \in Replicas, InstallKeys(b) PROVE FailInv'
  <2>1. fetched[b] \in Seq(Keys)
    BY <1>4 DEF InstallKeys, FailInv, TypeOK
  <2>2. pool' \in [Replicas -> Pool]
    BY <1>4, <2>1, ReplaceType, PoolType DEF InstallKeys
  <2>3. fetched' \in [Replicas -> Seq(Keys) \union {None}]
    BY <1>4 DEF InstallKeys, FailInv, TypeOK
  <2>4. tried' \in [Requests -> (SUBSET Keys) \union {None}]
    BY <1>0, <1>4 DEF InstallKeys
  <2> QED BY <1>4, <2>2, <2>3, <2>4, RequestsUntouched DEF InstallKeys, FailInv, TypeOK
<1>5. ASSUME NEW id \in Ids, LapseShared(id) PROVE FailInv'
  BY <1>5, EventType, RequestsUntouched DEF LapseShared, history, FailInv, TypeOK
<1> QED BY <1>1, <1>2, <1>3, <1>4, <1>5 DEF World

LEMMA NextFail == ASSUME FailInv, [Next]_vars PROVE FailInv'
<1>1. CASE Next
  BY <1>1, StartStep, ProceedStep, WorldStep DEF Next
<1>2. CASE UNCHANGED vars
  BY <1>2, RequestsUntouched DEF vars, world, history, FailInv, TypeOK
<1> QED BY <1>1, <1>2

-----------------------------------------------------------------------------
(* The theorems                                                            *)

LEMMA Invariance == Spec => []FailInv
BY InitFail, NextFail, PTL DEF Spec

\* Every variable keeps its type: every key a request calls and every cooldown
\* is one of the configured keys and targets, and the budgets stay in range.
THEOREM TypeCorrect == Spec => []TypeOK
<1>1. FailInv => TypeOK
  BY DEF FailInv
<1> QED BY <1>1, Invariance, PTL

\* However many targets a request is given and keys they have, whatever the
\* upstream answers and whatever the pool goes through meanwhile, the request
\* makes no more than Retry.MaxAttempts upstream calls.
THEOREM CallsBounded == Spec => []BudgetRespected
<1>1. FailInv => BudgetRespected
  BY DEF FailInv, Placed, BudgetRespected
<1> QED BY <1>1, Invariance, PTL

-----------------------------------------------------------------------------
(* Lists of keys                                                           *)

Lists(s, k) == \E i \in DOMAIN s : s[i] = k
Once(s) == \A i, j \in DOMAIN s : s[i] = s[j] => i = j

\* What is left when one place of a list is taken out.
LEMMA RemoveAtShape ==
    ASSUME NEW S, NEW s \in Seq(S), NEW n \in 1..Len(s)
    PROVE  /\ RemoveAt(s, n) \in Seq(S) /\ Len(RemoveAt(s, n)) = Len(s) - 1
           /\ \A i \in 1..(Len(s) - 1) : RemoveAt(s, n)[i] = IF i < n THEN s[i] ELSE s[i + 1]
<1> DEFINE a == SubSeq(s, 1, n - 1)
           b == SubSeq(s, n + 1, Len(s))
<1>1. Len(s) \in Nat /\ n \in Nat
  OBVIOUS
<1>2. a \in Seq(S) /\ Len(a) = n - 1 /\ \A i \in 1..(n - 1) : a[i] = s[i]
  BY <1>1
<1>3. b \in Seq(S) /\ Len(b) = Len(s) - n /\ \A i \in 1..(Len(s) - n) : b[i] = s[n + i]
  BY <1>1
<1>4. RemoveAt(s, n) = a \o b
  BY DEF RemoveAt
<1> HIDE DEF a, b
<1>5. a \o b \in Seq(S) /\ Len(a \o b) = Len(s) - 1
  <2>1. a \o b \in Seq(S) /\ Len(a \o b) = Len(a) + Len(b)
    BY <1>2, <1>3, ConcatProperties
  <2> QED BY <1>1, <1>2, <1>3, <2>1
<1>6. ASSUME NEW i \in 1..(Len(s) - 1)
      PROVE  (a \o b)[i] = IF i < n THEN s[i] ELSE s[i + 1]
  <2>1. (a \o b)[i] = IF i <= Len(a) THEN a[i] ELSE b[i - Len(a)]
    BY <1>1, <1>2, <1>3
  <2>2. CASE i < n
    BY <1>1, <1>2, <2>1, <2>2
  <2>3. CASE ~(i < n)
    <3>1. i - Len(a) = i - n + 1 /\ i - n + 1 \in 1..(Len(s) - n) /\ n + (i - n + 1) = i + 1
      BY <1>1, <1>2, <2>3
    <3> QED BY <1>1, <1>2, <1>3, <2>1, <2>3, <3>1
  <2> QED BY <2>2, <2>3
<1> QED BY <1>4, <1>5, <1>6

\* RemoveFirst takes a key out of a list of different keys, and nothing else.
LEMMA RemoveFirstKeys ==
    ASSUME NEW S, NEW s \in Seq(S), Once(s), NEW e
    PROVE  /\ Once(RemoveFirst(s, e))
           /\ \A k : Lists(RemoveFirst(s, e), k) <=> Lists(s, k) /\ k # e
<1>1. CASE ~\E i \in 1..Len(s) : s[i] = e
  <2>1. RemoveFirst(s, e) = s
    BY <1>1 DEF RemoveFirst
  <2> QED BY <1>1, <2>1 DEF Lists
<1>2. CASE \E i \in 1..Len(s) : s[i] = e
  <2> DEFINE I == {i \in 1..Len(s) : s[i] = e}
             n == SelectInSeq(s, LAMBDA v : v = e)
             t == RemoveFirst(s, e)
  <2>1. Min(I) \in I
    <3>1. I \in SUBSET Nat /\ I # {}
      BY <1>2
    <3> HIDE DEF I
    <3> QED BY <3>1, MinNat
  <2>2. n = Min(I)
    BY <1>2 DEF SelectInSeq
  <2>3. n \in 1..Len(s) /\ s[n] = e
    BY <2>1, <2>2
  <2>4. t = RemoveAt(s, n)
    BY <1>2 DEF RemoveFirst
  <2> HIDE DEF n, t
  <2>5. /\ t \in Seq(S) /\ Len(t) = Len(s) - 1
        /\ \A i \in 1..(Len(s) - 1) : t[i] = IF i < n THEN s[i] ELSE s[i + 1]
    BY <2>3, <2>4, RemoveAtShape
  <2>6. DOMAIN t = 1..(Len(s) - 1) /\ DOMAIN s = 1..Len(s) /\ Len(s) \in Nat
    BY <2>5
  <2>7. Once(t)
    BY <2>3, <2>5, <2>6 DEF Once
  <2>8. ASSUME NEW k, Lists(t, k) PROVE Lists(s, k) /\ k # e
    <3>1. PICK i \in 1..(Len(s) - 1) : t[i] = k
      BY <2>6, <2>8 DEF Lists
    <3>2. PICK j \in 1..Len(s) : s[j] = k /\ j # n
      BY <2>3, <2>5, <2>6, <3>1
    <3> QED BY <2>3, <2>6, <3>2 DEF Lists, Once
  <2>9. ASSUME NEW k, Lists(s, k), k # e PROVE Lists(t, k)
    <3>1. PICK j \in 1..Len(s) : s[j] = k
      BY <2>6, <2>9 DEF Lists
    <3>2. j # n
      BY <2>3, <2>9, <3>1
    <3>3. CASE j < n
      <4>1. j \in 1..(Len(s) - 1) /\ t[j] = k
        BY <2>3, <2>5, <2>6, <3>1, <3>3
      <4> QED BY <2>6, <4>1 DEF Lists
    <3>4. CASE j > n
      <4>1. j - 1 \in 1..(Len(s) - 1) /\ t[j - 1] = k
        BY <2>3, <2>5, <2>6, <3>1, <3>4
      <4> QED BY <2>6, <4>1 DEF Lists
    <3> QED BY <2>3, <3>2, <3>3, <3>4
  <2> QED BY <2>7, <2>8, <2>9 DEF t
<1> QED BY <1>1, <1>2

\* The remainder, without the product that defines it, of a number below 2 * n.
LEMMA Around ==
    ASSUME NEW n \in Nat \ {0}, NEW x \in Nat, x < n + n
    PROVE  x % n = IF x < n THEN x ELSE x - n
OBVIOUS

-----------------------------------------------------------------------------
(* A disabled key stays out                                                *)

\* A list of different keys with the cursor on one of them.
Turning(p) == Once(p.keys) /\ (p.keys # <<>> => p.next < Len(p.keys))

\* DisabledStaysOut is not inductive: a key may come back from the database or
\* from a reload in flight.  The database has no disabled key, and a reload in
\* flight has none unless it was overtaken.
OustInv ==
    /\ FailInv
    /\ Once(enabled)
    /\ \A b \in Replicas : Turning(pool[b]) /\ (fetched[b] # None => Once(fetched[b]))
    /\ \A b \in Replicas : \A k \in ousted[b] :
        /\ ~Lists(enabled, k)
        /\ (~overtook /\ fetched[b] # None) => ~Lists(fetched[b], k)
    /\ DisabledStaysOut

\* The operations on a pool keep its keys different and its cursor on one.
LEMMA PoolTurns ==
    ASSUME NEW p \in Pool, Turning(p)
    PROVE  /\ \A id : Turning(Cool(p, id)) /\ Turning(MarkHealthy(p, id))
           /\ Turning(Flush(p))
           /\ \A k \in Keys : Turning(RemoveKey(p, k))
           /\ \A t \in Targets : Stops(p, t) # {} => Turning(NextFor(p, t).pool)
<1>0. p.keys \in Seq(Keys) /\ p.next \in Nat
  BY DEF Pool
<1>1. \A id : Turning(Cool(p, id)) /\ Turning(MarkHealthy(p, id))
  BY DEF Turning, Cool, MarkHealthy, Pool
<1>2. Turning(Flush(p))
  BY DEF Turning, Flush, Pool
<1>3. ASSUME NEW k \in Keys PROVE Turning(RemoveKey(p, k))
  <2> DEFINE rest == RemoveFirst(p.keys, k)
  <2>1. Once(rest) /\ rest \in Seq(Keys)
    BY <1>0, RemoveFirstKeys, RemoveFirstType DEF Turning
  <2>2. RemoveKey(p, k).keys = rest
        /\ RemoveKey(p, k).next = IF rest = <<>> THEN 0 ELSE p.next % Len(rest)
    BY DEF RemoveKey
  <2> HIDE DEF rest
  <2>3. rest # <<>> => p.next % Len(rest) < Len(rest)
    BY <1>0, <2>1
  <2> QED BY <2>1, <2>2, <2>3 DEF Turning
<1>4. ASSUME NEW t \in Targets, Stops(p, t) # {} PROVE Turning(NextFor(p, t).pool)
  <2> DEFINE i == Min(Stops(p, t))
             c == (p.next + i + 1) % Len(p.keys)
  <2>1. NextFor(p, t).pool = [p EXCEPT !.next = c]
    BY DEF NextFor
  <2>2. i \in Nat /\ Len(p.keys) > 0
    <3>1. Stops(p, t) \subseteq 0..(Len(p.keys) - 1)
      BY DEF Stops
    <3>2. Stops(p, t) \in SUBSET Nat
      BY <1>0, <3>1
    <3>3. i \in Stops(p, t)
      BY <1>4, <3>2, MinNat
    <3> QED BY <1>0, <3>1, <3>3
  <2> HIDE DEF i
  <2>3. c < Len(p.keys)
    BY <1>0, <2>2
  <2> HIDE DEF c
  <2> QED BY <2>1, <2>3 DEF Turning, Pool
<1> QED BY <1>1, <1>2, <1>3, <1>4

\* NextFor, Cool, MarkHealthy and Flush leave the keys of a pool alone.
LEMMA KeysStay ==
    ASSUME NEW p \in Pool
    PROVE  /\ \A id : Cool(p, id).keys = p.keys /\ MarkHealthy(p, id).keys = p.keys
           /\ Flush(p).keys = p.keys
           /\ \A t : NextFor(p, t).pool.keys = p.keys
BY DEF Cool, MarkHealthy, Flush, NextFor, Pool

\* A step that neither disables a key nor changes the keys of a pool or of a
\* reload keeps the invariant, if it takes no request away from "remove".
LEMMA KeysStand ==
    ASSUME OustInv, FailInv', UNCHANGED <<enabled, fetched, ousted, overtook>>,
           \A b \in Replicas : pool'[b].keys = pool[b].keys /\ Turning(pool'[b]),
           \A r \in Requests : req[r].pc = "remove" => req'[r] = req[r]
    PROVE  OustInv'
<1>1. \A b \in Replicas : \A k : Holds(pool'[b], k) <=> Holds(pool[b], k)
  BY DEF Holds
<1>2. DisabledStaysOut'
  BY <1>1 DEF OustInv, DisabledStaysOut
<1> QED BY <1>2 DEF OustInv, Turning, Once, Lists

\* The same for one pool.
LEMMA OnePool ==
    ASSUME OustInv, FailInv', UNCHANGED <<enabled, fetched, ousted, overtook>>,
           NEW b \in Replicas, NEW p \in Pool, p.keys = pool[b].keys, Turning(p), SetPool(b, p),
           \A r \in Requests : req[r].pc = "remove" => req'[r] = req[r]
    PROVE  OustInv'
<1>1. \A c \in Replicas : pool'[c] = IF c = b THEN p ELSE pool[c]
  BY DEF SetPool, OustInv, FailInv, TypeOK
<1>2. \A c \in Replicas : pool'[c].keys = pool[c].keys /\ Turning(pool'[c])
  BY <1>1 DEF OustInv
<1> QED BY <1>2, KeysStand

\* Disabling a key: it leaves the database, and its request is at "remove".
LEMMA DisableOusts ==
    ASSUME OustInv, FailInv', NEW r \in Requests, Disable(r)
    PROVE  OustInv'
<1> DEFINE h == req[r].at
           key == req[r].key
<1>1. h \in Replicas /\ key \in Keys /\ UNCHANGED <<pool, fetched>>
  BY WorkingFacts DEF Disable, OustInv, Keyed
<1>2. /\ enabled' = RemoveFirst(enabled, key) /\ enabled \in Seq(Keys)
      /\ ousted' = [ousted EXCEPT ![h] = ousted[h] \union {key}]
      /\ overtook' = (overtook \/ fetched[h] # None)
      /\ req' = [req EXCEPT ![r].pc = "remove"]
  BY DEF Disable, OustInv, FailInv, TypeOK
<1>3. Once(enabled') /\ \A k : Lists(enabled', k) <=> Lists(enabled, k) /\ k # key
  BY <1>2, RemoveFirstKeys DEF OustInv
<1>4. \A b \in Replicas : \A k \in ousted'[b] : k \in ousted[b] \/ (b = h /\ k = key)
  BY <1>1, <1>2 DEF OustInv, FailInv, TypeOK
<1>5. req'[r].pc = "remove" /\ req'[r].at = h /\ req'[r].key = key
  BY <1>2 DEF OustInv, FailInv, TypeOK, Request
<1>6. \A q \in Requests : req[q].pc = "remove" => req'[q] = req[q]
  BY <1>2 DEF Disable, OustInv, FailInv, TypeOK
<1> HIDE DEF h, key
<1>7. DisabledStaysOut'
  <2> SUFFICES ASSUME ~overtook', NEW b \in Replicas, NEW k \in ousted'[b], Holds(pool'[b], k)
               PROVE  \E q \in Requests : req'[q].at = b /\ req'[q].pc = "remove" /\ req'[q].key = k
    BY DEF DisabledStaysOut
  <2>1. CASE k \in ousted[b]
    <3>1. ~overtook /\ Holds(pool[b], k)
      BY <1>1, <1>2
    <3>2. PICK q \in Requests : req[q].at = b /\ req[q].pc = "remove" /\ req[q].key = k
      BY <2>1, <3>1 DEF OustInv, DisabledStaysOut
    <3> QED BY <1>6, <3>2
  <2>2. CASE b = h /\ k = key
    BY <1>5, <2>2
  <2> QED BY <1>4, <2>1, <2>2
<1>8. ASSUME NEW b \in Replicas, NEW k \in ousted'[b]
      PROVE  /\ ~Lists(enabled', k)
             /\ (~overtook' /\ fetched'[b] # None) => ~Lists(fetched'[b], k)
  BY <1>1, <1>2, <1>3, <1>4 DEF OustInv
<1> QED BY <1>1, <1>3, <1>7, <1>8 DEF OustInv, Turning, Once, Lists

\* Removing it from the pool of the replica that disabled it.
LEMMA RemoveOusts ==
    ASSUME OustInv, FailInv', NEW r \in Requests, RemoveDisabled(r)
    PROVE  OustInv'
<1> DEFINE h == req[r].at
           key == req[r].key
<1>1. h \in Replicas /\ key \in Keys /\ pool[h] \in Pool /\ Turning(pool[h])
  BY WorkingFacts DEF RemoveDisabled, OustInv, Keyed, Home
<1>2. /\ UNCHANGED <<enabled, fetched, ousted, overtook>>
      /\ pool' = [pool EXCEPT ![h] = RemoveKey(pool[h], key)]
      /\ req' = [req EXCEPT ![r].pc = "pick", ![r].key = None]
  BY DEF RemoveDisabled, world, SetPool, Home
<1> HIDE DEF h
<1>3. \A b \in Replicas : pool'[b] = IF b = h THEN RemoveKey(pool[h], key) ELSE pool[b]
  BY <1>2 DEF OustInv, FailInv, TypeOK
<1>4. \A b \in Replicas : Turning(pool'[b])
  BY <1>1, <1>3, PoolTurns DEF OustInv
<1>5. ASSUME NEW b \in Replicas, NEW k, Holds(pool'[b], k)
      PROVE  Holds(pool[b], k) /\ (b = h => k # key)
  <2>1. CASE b = h
    <3>1. pool'[b].keys = RemoveFirst(pool[h].keys, key)
      <4>1. RemoveKey(pool[h], key).keys = RemoveFirst(pool[h].keys, key)
        <5> HIDE DEF key
        <5> QED BY DEF RemoveKey
      <4> QED BY <1>3, <2>1, <4>1
    <3>2. Lists(RemoveFirst(pool[h].keys, key), k)
      BY <1>5, <3>1 DEF Holds, Lists
    <3>3. pool[h].keys \in Seq(Keys) /\ Once(pool[h].keys)
      BY <1>1 DEF Pool, Turning
    <3>4. Lists(pool[h].keys, k) /\ k # key
      <4> HIDE DEF key
      <4> QED BY <3>2, <3>3, RemoveFirstKeys
    <3> QED BY <2>1, <3>4 DEF Lists, Holds
  <2>2. CASE b # h
    BY <1>3, <1>5, <2>2
  <2> QED BY <2>1, <2>2
<1>6. \A q \in Requests : q # r => req'[q] = req[q]
  BY <1>2 DEF OustInv, FailInv, TypeOK
<1>7. DisabledStaysOut'
  <2> SUFFICES ASSUME ~overtook', NEW b \in Replicas, NEW k \in ousted'[b], Holds(pool'[b], k)
               PROVE  \E q \in Requests : req'[q].at = b /\ req'[q].pc = "remove" /\ req'[q].key = k
    BY DEF DisabledStaysOut
  <2>1. PICK q \in Requests : req[q].at = b /\ req[q].pc = "remove" /\ req[q].key = k
    BY <1>2, <1>5 DEF OustInv, DisabledStaysOut
  <2>2. q # r
    BY <1>5, <2>1 DEF h
  <2> QED BY <1>6, <2>1, <2>2
<1> QED BY <1>2, <1>4, <1>7 DEF OustInv, Turning, Once, Lists

\* Reading the keys of a reload, and installing them.
LEMMA ReloadOusts ==
    ASSUME OustInv, FailInv', NEW b \in Replicas, FetchKeys(b) \/ InstallKeys(b)
    PROVE  OustInv'
<1>0. fetched \in [Replicas -> Seq(Keys) \union {None}] /\ UNCHANGED <<enabled, ousted, overtook, req>>
  BY DEF OustInv, FailInv, TypeOK, FetchKeys, InstallKeys, history
<1>1. CASE FetchKeys(b)
  <2>1. UNCHANGED pool /\ \A c \in Replicas : fetched'[c] = IF c = b THEN enabled ELSE fetched[c]
    BY <1>0, <1>1 DEF FetchKeys
  <2>2. DisabledStaysOut'
    BY <1>0, <2>1 DEF OustInv, DisabledStaysOut
  <2> QED BY <1>0, <2>1, <2>2 DEF OustInv, Turning, Once, Lists
<1>2. CASE InstallKeys(b)
  <2>1. fetched[b] # None /\ fetched[b] \in Seq(Keys) /\ Once(fetched[b])
    BY <1>0, <1>2 DEF InstallKeys, OustInv
  <2>2. /\ \A c \in Replicas : pool'[c] = IF c = b THEN Replace(fetched[b]) ELSE pool[c]
        /\ \A c \in Replicas : fetched'[c] = IF c = b THEN None ELSE fetched[c]
    BY <1>0, <1>2 DEF InstallKeys, SetPool, OustInv, FailInv, TypeOK
  <2>3. Replace(fetched[b]).keys = fetched[b] /\ Turning(Replace(fetched[b]))
    <3>1. fetched[b] # <<>> => 0 < Len(fetched[b])
      BY <2>1
    <3> QED BY <2>1, <3>1 DEF Replace, Turning
  <2>4. DisabledStaysOut'
    <3> SUFFICES ASSUME ~overtook, NEW c \in Replicas, NEW k \in ousted[c], Holds(pool'[c], k)
                 PROVE  \E q \in Requests : req[q].at = c /\ req[q].pc = "remove" /\ req[q].key = k
      BY <1>0 DEF DisabledStaysOut
    <3>1. CASE c = b
      <4>1. Lists(fetched[b], k)
        BY <2>2, <2>3, <3>1 DEF Holds, Lists
      <4> QED BY <2>1, <3>1, <4>1 DEF OustInv
    <3>2. CASE c # b
      <4>1. Holds(pool[c], k)
        BY <2>2, <3>2
      <4> QED BY <4>1 DEF OustInv, DisabledStaysOut
    <3> QED BY <3>1, <3>2
  <2>5. \A c \in Replicas : Turning(pool'[c])
    BY <2>2, <2>3 DEF OustInv
  <2> QED BY <1>0, <2>2, <2>4, <2>5 DEF OustInv, Turning, Once, Lists
<1> QED BY <1>1, <1>2

\* The other steps: one pool's cooldowns or its cursor, or no pool.
LEMMA RequestOusts ==
    ASSUME OustInv, FailInv', NEW r \in Requests, Proceed(r), ~Disable(r), ~RemoveDisabled(r)
    PROVE  OustInv'
<1>1. UNCHANGED <<enabled, fetched, ousted, overtook>>
  BY DEF Proceed, EnterTarget, SkipTarget, GiveUp, LeaveTarget, Pick, PeekCooling, PeekClear, Adopt,
         CallError, CallLimited, Share, CallInvalid, DisableFails, CallRefused, CallOk, Heal,
         world, history
<1>2. req[r].pc # "remove"
  BY DEF Proceed, EnterTarget, SkipTarget, GiveUp, LeaveTarget, Pick, PeekCooling, PeekClear, Adopt,
         CallError, CallLimited, Share, CallInvalid, Disable, DisableFails, CallRefused, CallOk, Heal, Count
<1>3. \A q \in Requests : q # r => req'[q] = req[q]
  BY DEF Proceed, EnterTarget, SkipTarget, GiveUp, LeaveTarget, Pick, PeekCooling, PeekClear, Adopt,
         CallError, CallLimited, Share, CallInvalid, DisableFails, CallRefused, CallOk, Heal,
         Count, End, OustInv, FailInv, TypeOK
<1>4. \A q \in Requests : req[q].pc = "remove" => req'[q] = req[q]
  BY <1>2, <1>3
<1>5. ASSUME req[r].pc # "idle"
      PROVE  req[r].at \in Replicas /\ Home(r) \in Pool /\ Home(r) = pool[req[r].at] /\ Turning(Home(r))
  BY <1>5, WorkingFacts DEF OustInv, Home
<1>6. CASE Pick(r)
  <2>1. Target(r) \in Targets /\ Stops(Home(r), Target(r)) # {} /\ req[r].pc = "pick"
    BY <1>6, WorkingFacts DEF Pick, Working, PCs, OustInv
  <2> DEFINE p == NextFor(Home(r), Target(r)).pool
  <2>2. p \in Pool /\ Turning(p) /\ p.keys = Home(r).keys
    BY <1>5, <2>1, NextForType, PoolTurns, KeysStay
  <2>3. SetPool(req[r].at, p)
    BY <1>6 DEF Pick
  <2> HIDE DEF p
  <2> QED BY <1>1, <1>4, <1>5, <2>1, <2>2, <2>3, OnePool
<1>7. CASE Adopt(r) \/ CallLimited(r)
  <2>1. req[r].pc # "idle" /\ Id(r) \in Ids /\ SetPool(req[r].at, Cool(Home(r), Id(r)))
    BY <1>7, WorkingFacts DEF Adopt, CallLimited, Count, Keyed, OustInv
  <2> DEFINE p == Cool(Home(r), Id(r))
  <2>2. p \in Pool /\ Turning(p) /\ p.keys = Home(r).keys
    BY <1>5, <2>1, CoolType, PoolTurns, KeysStay
  <2> HIDE DEF p
  <2> QED BY <1>1, <1>4, <1>5, <2>1, <2>2, OnePool DEF p
<1>8. CASE CallOk(r)
  <2>1. req[r].pc # "idle" /\ Id(r) \in Ids /\ SetPool(req[r].at, MarkHealthy(Home(r), Id(r)))
    BY <1>8, WorkingFacts DEF CallOk, Keyed, OustInv
  <2> DEFINE p == MarkHealthy(Home(r), Id(r))
  <2>2. p \in Pool /\ Turning(p) /\ p.keys = Home(r).keys
    BY <1>5, <2>1, CoolType, PoolTurns, KeysStay
  <2> HIDE DEF p
  <2> QED BY <1>1, <1>4, <1>5, <2>1, <2>2, OnePool DEF p
<1>9. CASE ~(Pick(r) \/ Adopt(r) \/ CallLimited(r) \/ CallOk(r))
  <2>1. UNCHANGED pool
    BY <1>9 DEF Proceed, EnterTarget, SkipTarget, GiveUp, LeaveTarget, PeekCooling, PeekClear,
           CallError, Share, CallInvalid, DisableFails, CallRefused, Heal, world, history
  <2>2. \A b \in Replicas : pool'[b].keys = pool[b].keys /\ Turning(pool'[b])
    BY <2>1 DEF OustInv
  <2> QED BY <1>1, <1>4, <2>2, KeysStand
<1> QED BY <1>6, <1>7, <1>8, <1>9

\* Neither a lapse of a cooldown nor a reload brings an ousted key back, unless the
\* reload has read the keys before it was disabled.
LEMMA WorldOusts ==
    ASSUME OustInv, FailInv', World
    PROVE  OustInv'
<1>1. ASSUME NEW b \in Replicas, NEW id \in Ids, Lapse(b, id) PROVE OustInv'
  <2> DEFINE p == MarkHealthy(pool[b], id)
  <2>1. p \in Pool /\ Turning(p) /\ p.keys = pool[b].keys
    BY CoolType, PoolTurns, KeysStay DEF OustInv, FailInv, TypeOK
  <2>2. SetPool(b, p) /\ UNCHANGED <<enabled, fetched, ousted, overtook, req>>
    BY <1>1 DEF Lapse
  <2> HIDE DEF p
  <2> QED BY <2>1, <2>2, OnePool
<1>2. ASSUME NEW b \in Replicas, FlushExhausted(b) PROVE OustInv'
  <2> DEFINE p == Flush(pool[b])
  <2>1. p \in Pool /\ Turning(p) /\ p.keys = pool[b].keys
    BY ReplaceType, PoolTurns, KeysStay DEF OustInv, FailInv, TypeOK
  <2>2. SetPool(b, p) /\ UNCHANGED <<enabled, fetched, ousted, overtook, req>>
    BY <1>2 DEF FlushExhausted
  <2> HIDE DEF p
  <2> QED BY <2>1, <2>2, OnePool
<1>3. ASSUME NEW id \in Ids, LapseShared(id) PROVE OustInv'
  <2>1. UNCHANGED <<pool, enabled, fetched, ousted, overtook, req>>
    BY <1>3 DEF LapseShared, history
  <2>2. \A b \in Replicas : pool'[b].keys = pool[b].keys /\ Turning(pool'[b])
    BY <2>1 DEF OustInv
  <2> QED BY <2>1, <2>2, KeysStand
<1> QED BY <1>1, <1>2, <1>3, ReloadOusts DEF World

\* OustInv is inductive.
LEMMA StepOusts == OustInv /\ [Next]_vars => OustInv'
<1> SUFFICES ASSUME OustInv, [Next]_vars PROVE OustInv'
  OBVIOUS
<1>1. FailInv'
  BY NextFail DEF OustInv
<1>2. ASSUME NEW r \in Requests, NEW b \in Replicas, NEW order \in Orders, Start(r, b, order)
      PROVE  OustInv'
  <2>1. UNCHANGED <<pool, enabled, fetched, ousted, overtook>>
    BY <1>2 DEF Start, world, history
  <2>2. \A c \in Replicas : pool'[c].keys = pool[c].keys /\ Turning(pool'[c])
    BY <2>1 DEF OustInv
  <2>3. \A q \in Requests : req[q].pc = "remove" => req'[q] = req[q]
    BY <1>2 DEF Start, OustInv, FailInv, TypeOK
  <2> QED BY <1>1, <2>1, <2>2, <2>3, KeysStand
<1>3. CASE UNCHANGED vars
  <2>1. UNCHANGED <<pool, enabled, fetched, ousted, overtook, req>>
    BY <1>3 DEF vars, world, history
  <2>2. \A c \in Replicas : pool'[c].keys = pool[c].keys /\ Turning(pool'[c])
    BY <2>1 DEF OustInv
  <2> QED BY <1>1, <2>1, <2>2, KeysStand
<1> QED BY <1>1, <1>2, <1>3, RequestOusts, DisableOusts, RemoveOusts, WorldOusts DEF Next

\* OustInv holds at the start.
LEMMA InitOusts == Init => OustInv
<1> SUFFICES ASSUME Init PROVE OustInv
  OBVIOUS
<1>1. Once(Rows)
  BY FailoverAssumption DEF Once
<1>2. Turning(Replace(Rows))
  <2>1. Rows # <<>> => 0 < Len(Rows)
    BY FailoverAssumption
  <2> QED BY <1>1, <2>1 DEF Turning, Replace
<1> QED BY <1>1, <1>2, InitFail DEF OustInv, Init, DisabledStaysOut

\* A key that the upstream has declared invalid leaves the rotation of the
\* replica that disabled it for good: only the request that is about to remove
\* it, or a reload that had read the keys before, still holds it.
THEOREM DisabledKeysStayOut == Spec => []DisabledStaysOut
<1>1. OustInv => DisabledStaysOut
  BY DEF OustInv
<1> QED BY <1>1, InitOusts, StepOusts, PTL DEF Spec

-----------------------------------------------------------------------------
(* The rotation                                                            *)

\* And it is the least.
LEMMA MinLeast ==
    ASSUME NEW S \in SUBSET Nat, S # {}
    PROVE  \A m \in S : Min(S) <= m
<1>1. \E x \in S : \A y \in S : ~(<<y, x>> \in OpToRel(<, Nat))
  BY NatLessThanWellFounded, WFMin
<1>2. PICK x \in S : \A y \in S : ~(y < x)
  BY <1>1 DEF OpToRel
<1>3. \A y \in S : x =< y
  BY <1>2
<1> QED BY <1>3 DEF Min

\* The keys by their places after the cursor: every key of the pool has one
\* place, and no place has two.
LEMMA Places ==
    ASSUME NEW p \in Pool, Turning(p)
    PROVE  /\ \A m \in 0..(Len(p.keys) - 1) :
                /\ At(p, m) = p.keys[IF p.next + m < Len(p.keys)
                                     THEN p.next + m + 1 ELSE p.next + m - Len(p.keys) + 1]
                /\ At(p, m) \in Keys /\ Holds(p, At(p, m))
           /\ \A m, l \in 0..(Len(p.keys) - 1) : At(p, m) = At(p, l) => m = l
           /\ \A k : Holds(p, k) => \E m \in 0..(Len(p.keys) - 1) : At(p, m) = k
<1> DEFINE n == Len(p.keys)
           c == p.next
           place(m) == IF c + m < n THEN c + m + 1 ELSE c + m - n + 1
<1>1. p.keys \in Seq(Keys) /\ n \in Nat /\ c \in Nat /\ (n > 0 => c < n) /\ DOMAIN p.keys = 1..n
  BY DEF Pool, Turning
<1> HIDE DEF n, c
<1>2. ASSUME NEW m \in 0..(n - 1)
      PROVE  At(p, m) = p.keys[place(m)] /\ place(m) \in 1..n
  <2>1. n \in Nat \ {0} /\ c + m \in Nat /\ c + m < n + n
    BY <1>1
  <2>2. (c + m) % n = IF c + m < n THEN c + m ELSE c + m - n
    <3> DEFINE x == c + m
    <3>1. x \in Nat /\ x < n + n
      BY <2>1
    <3> HIDE DEF x
    <3>2. x % n = IF x < n THEN x ELSE x - n
      BY <2>1, <3>1, Around
    <3> QED BY <1>1, <2>1, <3>2 DEF x
  <2>3. ((c + m) % n) + 1 = place(m) /\ place(m) \in 1..n
    BY <1>1, <2>1, <2>2
  <2> QED BY <2>3 DEF At, n, c
<1>3. ASSUME NEW m \in 0..(n - 1) PROVE At(p, m) \in Keys /\ Holds(p, At(p, m))
  <2>1. p.keys[place(m)] \in Keys /\ place(m) \in DOMAIN p.keys
    BY <1>1, <1>2
  <2> QED BY <1>2, <2>1 DEF Holds
<1>4. ASSUME NEW m \in 0..(n - 1), NEW l \in 0..(n - 1), At(p, m) = At(p, l)
      PROVE  m = l
  <2>1. place(m) = place(l)
    BY <1>1, <1>2, <1>4 DEF Turning, Once
  <2> QED BY <1>1, <2>1
<1>5. ASSUME NEW k, Holds(p, k) PROVE \E m \in 0..(n - 1) : At(p, m) = k
  <2>1. PICK i \in 1..n : p.keys[i] = k
    BY <1>1, <1>5 DEF Holds
  <2> DEFINE m == IF i > c THEN i - c - 1 ELSE i - c - 1 + n
  <2>2. m \in 0..(n - 1) /\ place(m) = i
    BY <1>1
  <2> QED BY <1>2, <2>1, <2>2
<1> QED BY <1>2, <1>3, <1>4, <1>5 DEF n, c

\* Moving the cursor past the key i places after it shifts the places.
LEMMA TurnAt ==
    ASSUME NEW p \in Pool, Turning(p), NEW i \in 0..(Len(p.keys) - 1),
           NEW q, q = [p EXCEPT !.next = (p.next + i + 1) % Len(p.keys)], q \in Pool, Turning(q)
    PROVE  \A m \in 0..(Len(p.keys) - 1) :
             At(q, m) = At(p, IF m + i + 1 < Len(p.keys) THEN m + i + 1 ELSE m + i + 1 - Len(p.keys))
<1> DEFINE n == Len(p.keys)
           c == p.next
           d == q.next
<1>1. p.keys \in Seq(Keys) /\ n \in Nat \ {0} /\ c \in Nat /\ c < n /\ i \in Nat /\ i < n
  BY DEF Pool, Turning
<1>2. q.keys = p.keys /\ d = (c + i + 1) % n
  BY DEF Pool
<1> HIDE DEF d
<1>3. d = IF c + i + 1 < n THEN c + i + 1 ELSE c + i + 1 - n
  <2>1. c + i + 1 \in Nat /\ c + i + 1 < n + n
    BY <1>1
  <2> HIDE DEF n, c
  <2> QED BY <1>1, <1>2, <2>1, Around
<1>4. d \in Nat /\ d < n
  BY <1>1, <1>3
<1> SUFFICES ASSUME NEW m \in 0..(n - 1)
             PROVE  At(q, m) = At(p, IF m + i + 1 < n THEN m + i + 1 ELSE m + i + 1 - n)
  OBVIOUS
<1> DEFINE l == IF m + i + 1 < n THEN m + i + 1 ELSE m + i + 1 - n
<1>5. l \in 0..(n - 1)
  BY <1>1
<1>6. At(q, m) = p.keys[IF d + m < n THEN d + m + 1 ELSE d + m - n + 1]
  <2>1. m \in 0..(Len(q.keys) - 1)
    BY <1>2
  <2>2. At(q, m) = q.keys[IF q.next + m < Len(q.keys)
                          THEN q.next + m + 1 ELSE q.next + m - Len(q.keys) + 1]
    BY <2>1, Places
  <2> QED BY <1>2, <2>2 DEF d
<1>7. At(p, l) = p.keys[IF c + l < n THEN c + l + 1 ELSE c + l - n + 1]
  <2> HIDE DEF l
  <2> QED BY <1>5, Places
<1>8. (IF d + m < n THEN d + m + 1 ELSE d + m - n + 1)
        = (IF c + l < n THEN c + l + 1 ELSE c + l - n + 1)
  <2> HIDE DEF n, c
  <2>1. CASE m + i + 1 < n
    <3>1. l = m + i + 1
      BY <2>1
    <3> HIDE DEF l
    <3> QED BY <1>1, <1>3, <1>4, <2>1, <3>1
  <2>2. CASE ~(m + i + 1 < n)
    <3>1. l = m + i + 1 - n
      BY <2>2
    <3> HIDE DEF l
    <3> QED BY <1>1, <1>3, <1>4, <2>2, <3>1
  <2> QED BY <2>1, <2>2
<1> QED BY <1>6, <1>7, <1>8

Matching(p, t) == {k \in Keys : Holds(p, k) /\ keyMatchesTarget(k, t)}
UsableKeys(p, t) == {k \in Keys : Holds(p, k) /\ Usable(p, t, k)}

\* The cursor has passed the places from f to the end of the round: the keys
\* there that are usable have been seen, and all that have been seen are there.
Behind(p, t, f, seen) ==
    /\ f \in 0..Len(p.keys)
    /\ \A m \in f..(Len(p.keys) - 1) : Usable(p, t, At(p, m)) => At(p, m) \in seen
    /\ \A k \in seen : \E m \in f..(Len(p.keys) - 1) : At(p, m) = k

\* NextFor gives out a key that has not been seen, or every usable key has been.
LEMMA PickRotates ==
    ASSUME NEW p \in Pool, Turning(p), NEW t \in Targets, Stops(p, t) # {},
           NEW T \in SUBSET Keys, NEW f, Behind(p, t, f, T)
    PROVE  \/ UsableKeys(NextFor(p, t).pool, t) \subseteq T
           \/ /\ NextFor(p, t).key \notin T
              /\ \E g : Behind(NextFor(p, t).pool, t, g, T \union {NextFor(p, t).key})
<1> DEFINE n == Len(p.keys)
           i == Min(Stops(p, t))
           q == NextFor(p, t).pool
           key == NextFor(p, t).key
<1>1. q = [p EXCEPT !.next = (p.next + i + 1) % n] /\ key = At(p, i)
  BY DEF NextFor
<1>2. p.keys \in Seq(Keys) /\ n \in Nat
  BY DEF Pool
<1>3. i \in Stops(p, t) /\ \A m \in Stops(p, t) : i <= m
  <2>1. Stops(p, t) \in SUBSET Nat
    BY <1>2 DEF Stops
  <2>2. i \in Stops(p, t)
    BY <2>1, MinNat
  <2>3. \A m \in Stops(p, t) : i <= m
    BY <2>1, MinLeast
  <2> QED BY <2>2, <2>3
<1> HIDE DEF i
<1>4. i \in 0..(n - 1) /\ \A m \in 0..(n - 1) : m < i => ~Usable(p, t, At(p, m))
  BY <1>2, <1>3 DEF Stops
<1>5. q \in Pool /\ Turning(q)
  BY NextForType, PoolTurns
<1>6. q.keys = p.keys /\ q.cooling = p.cooling
  BY <1>1 DEF Pool
<1>7. \A k : (Usable(q, t, k) <=> Usable(p, t, k)) /\ (Holds(q, k) <=> Holds(p, k))
  BY <1>6 DEF Usable, Holds
<1> HIDE DEF q, key
<1>8. \A m \in 0..(n - 1) : At(q, m) = At(p, IF m + i + 1 < n THEN m + i + 1 ELSE m + i + 1 - n)
  BY <1>1, <1>4, <1>5, TurnAt
<1>9. f \in Nat /\ f <= n
  BY <1>2 DEF Behind
<1>10. CASE i < f
  <2> DEFINE g == f - i - 1
  <2>1. key \notin T
    <3> SUFFICES ASSUME key \in T PROVE FALSE
      OBVIOUS
    <3>1. PICK m \in f..(n - 1) : At(p, m) = At(p, i)
      BY <1>1 DEF Behind
    <3>2. m = i
      BY <1>2, <1>4, <1>9, <3>1, Places
    <3> QED BY <1>2, <1>4, <1>9, <1>10, <3>1, <3>2
  <2>2. g \in 0..n /\ n = Len(q.keys)
    BY <1>2, <1>4, <1>6, <1>9, <1>10
  <2>3. ASSUME NEW m \in g..(n - 1), Usable(q, t, At(q, m)) PROVE At(q, m) \in T \union {key}
    <3>1. m \in 0..(n - 1) /\ m \in Nat
      BY <1>2, <2>2
    <3>4. At(q, m) = At(p, IF m + i + 1 < n THEN m + i + 1 ELSE m + i + 1 - n)
      BY <1>8, <3>1
    <3>2. CASE m + i + 1 < n
      <4>1. m + i + 1 \in f..(n - 1) /\ At(q, m) = At(p, m + i + 1)
        <5>1. m + i + 1 \in f..(n - 1)
          BY <1>2, <1>4, <1>9, <1>10, <2>3, <3>2
        <5> QED BY <3>2, <3>4, <5>1
      <4> QED BY <1>7, <2>3, <4>1 DEF Behind
    <3>3. CASE ~(m + i + 1 < n)
      <4> DEFINE l == m + i + 1 - n
      <4>1. l \in 0..(n - 1) /\ l <= i /\ At(q, m) = At(p, l)
        <5>1. l \in 0..(n - 1) /\ l <= i
          BY <1>2, <1>4, <3>1, <3>3
        <5> QED BY <3>3, <3>4, <5>1
      <4>2. l = i
        <5>1. Usable(p, t, At(p, l))
          BY <1>7, <2>3, <4>1
        <5> HIDE DEF l
        <5> QED BY <1>2, <1>4, <4>1, <5>1
      <4> QED BY <1>1, <4>1, <4>2
    <3> QED BY <3>2, <3>3
  <2>4. ASSUME NEW k \in T \union {key} PROVE \E m \in g..(n - 1) : At(q, m) = k
    <3>1. CASE k \in T
      <4>1. PICK l \in f..(n - 1) : At(p, l) = k
        BY <3>1 DEF Behind
      <4> DEFINE m == l - i - 1
      <4>2. m \in g..(n - 1) /\ m \in 0..(n - 1) /\ m + i + 1 = l /\ l < n
        BY <1>2, <1>4, <1>9, <1>10
      <4> QED BY <1>8, <4>1, <4>2
    <3>2. CASE k = key
      <4>1. n - 1 \in g..(n - 1) /\ n - 1 \in 0..(n - 1) /\ (n - 1) + i + 1 - n = i /\ ~((n - 1) + i + 1 < n)
        BY <1>2, <1>4, <1>9, <1>10
      <4> QED BY <1>1, <1>8, <3>2, <4>1
    <3> QED BY <3>1, <3>2
  <2>5. Behind(q, t, g, T \union {key})
    <3> HIDE DEF g
    <3> QED BY <2>2, <2>3, <2>4 DEF Behind
  <2> QED BY <2>1, <2>5 DEF q, key
<1>11. CASE ~(i < f)
  <2>1. ASSUME NEW k \in UsableKeys(q, t) PROVE k \in T
    <3>1. Holds(p, k) /\ Usable(p, t, k)
      BY <1>7 DEF UsableKeys
    <3>2. PICK m \in 0..(n - 1) : At(p, m) = k
      BY <3>1, Places
    <3>3. m \in f..(n - 1)
      BY <1>2, <1>4, <1>9, <1>11, <3>1, <3>2
    <3> QED BY <3>1, <3>2, <3>3 DEF Behind
  <2> QED BY <2>1 DEF q
<1> QED BY <1>10, <1>11

-----------------------------------------------------------------------------
(* No key is passed over                                                   *)

\* The keys that a request q, which has called T for its target, has seen; and
\* those for which it has spent a call.
Seen(q, T) == IF q.pc = "pick" THEN T ELSE T \union {q.key}
Made(q, T) == IF q.pc = "share" THEN Seen(q, T) ELSE T

\* Where a request stands in the rotation, as long as nobody else has touched
\* the pool: it will make all its calls; or it has called every usable key; or
\* it is in its first round, with a call left for every key it has not called.
Rotated(p, t, q, T) ==
    \/ q.attempts + q.left = MaxAttempts
    \/ UsableKeys(p, t) \subseteq T
    \/ /\ \E f : Behind(p, t, f, Seen(q, T))
       /\ Cardinality(Matching(p, t) \ Made(q, T)) <= q.left
       /\ q.pc \in {"peek", "call"} => q.key \in Matching(p, t) \ T

Visiting == {"pick", "peek", "adopt", "call", "share"}
Rotating(r) ==
    (req[r].pc \in Visiting /\ tried[r] # None) => Rotated(Home(r), Target(r), req[r], tried[r])

RotateInv ==
    /\ OustInv
    /\ \A r \in Requests : req[r].pc \notin {"disable", "remove"} /\ Rotating(r)

\* How many keys of a target are still to be tried is a number that each try lowers.
LEMMA MatchingCount ==
    ASSUME NEW p, NEW t, NEW T
    PROVE  /\ IsFiniteSet(Matching(p, t) \ T) /\ Cardinality(Matching(p, t) \ T) \in Nat
           /\ \A k \in Matching(p, t) \ T :
                Cardinality(Matching(p, t) \ (T \union {k})) = Cardinality(Matching(p, t) \ T) - 1
           /\ Cardinality(Matching(p, t) \ T) = 0 => Matching(p, t) \subseteq T
<1> DEFINE M == Matching(p, t) \ T
<1>1. IsFiniteSet(M)
  BY KeyPoolAssumption, FS_Subset DEF Matching
<1>2. \A k \in M : Matching(p, t) \ (T \union {k}) = M \ {k}
  OBVIOUS
<1>3. Cardinality(M) = 0 => Matching(p, t) \subseteq T
  <2>1. Cardinality(M) = 0 => M = {}
    <3> HIDE DEF M
    <3> QED BY <1>1, FS_EmptySet
  <2> QED BY <2>1
<1>4. Cardinality(M) \in Nat /\ \A k \in M : Cardinality(M \ {k}) = Cardinality(M) - 1
  <2> HIDE DEF M
  <2> QED BY <1>1, FS_CardinalityType, FS_RemoveElement
<1> QED BY <1>1, <1>2, <1>3, <1>4

\* A try of an untried key lowers the number of those that are left.
LEMMA OneLess ==
    ASSUME NEW p, NEW t, NEW T, NEW k \in Matching(p, t) \ T
    PROVE  /\ Cardinality(Matching(p, t) \ (T \union {k})) = Cardinality(Matching(p, t) \ T) - 1
           /\ Cardinality(Matching(p, t) \ T) \in Nat
BY MatchingCount

\* A key that cools is no longer usable; the others stay as they are.
LEMMA CoolRotates ==
    ASSUME NEW p \in Pool, NEW t, NEW k
    PROVE  /\ UsableKeys(Cool(p, CooldownId(t, k)), t) \subseteq UsableKeys(p, t)
           /\ Matching(Cool(p, CooldownId(t, k)), t) = Matching(p, t)
           /\ \A f, S : Behind(p, t, f, S) => Behind(Cool(p, CooldownId(t, k)), t, f, S)
           /\ \A f, T : Behind(p, t, f, T \union {k}) => Behind(Cool(p, CooldownId(t, k)), t, f, T)
<1> DEFINE q == Cool(p, CooldownId(t, k))
<1>1. q.keys = p.keys /\ q.next = p.next /\ q.cooling = p.cooling \union {CooldownId(t, k)}
  BY DEF Cool, Pool
<1> HIDE DEF q
<1>2. \A x : Usable(q, t, x) => Usable(p, t, x) /\ x # k
  BY <1>1 DEF Usable
<1>3. \A m : At(q, m) = At(p, m)
  BY <1>1 DEF At
<1>4. \A x : Holds(q, x) <=> Holds(p, x)
  BY <1>1 DEF Holds
<1>5. UsableKeys(q, t) \subseteq UsableKeys(p, t) /\ Matching(q, t) = Matching(p, t)
  BY <1>2, <1>4 DEF UsableKeys, Matching
<1>6. \A f, S : Behind(p, t, f, S) => Behind(q, t, f, S)
  BY <1>1, <1>2, <1>3 DEF Behind
<1>7. \A f, T : Behind(p, t, f, T \union {k}) => Behind(q, t, f, T)
  BY <1>1, <1>2, <1>3 DEF Behind
<1> QED BY <1>5, <1>6, <1>7 DEF q

\* The facts about a request in a visit that its steps use.
LEMMA VisitFacts ==
    ASSUME RotateInv, NEW r \in Requests, req[r].pc \in Visiting
    PROVE  /\ req[r].at \in Replicas /\ Home(r) \in Pool /\ Turning(Home(r)) /\ Target(r) \in Targets
           /\ req[r].pc # "pick" => req[r].key \in Keys
           /\ req[r] \in Request /\ req[r].attempts \in Nat /\ req[r].left \in Nat
           /\ tried[r] # None => tried[r] \in SUBSET Keys
           /\ None \notin Keys
<1> USE DEF RotateInv, OustInv
<1>1. req[r].at \in Replicas /\ Home(r) \in Pool /\ Target(r) \in Targets /\ req[r] \in Request
      /\ (req[r].pc # "pick" => req[r].key \in Keys)
  BY WorkingFacts DEF Visiting, Working, PCs, Keyed
<1>2. req[r].attempts \in Nat /\ req[r].left \in Nat
  BY <1>1, FailoverAssumption DEF Request
<1>3. tried[r] # None => tried[r] \in SUBSET Keys
  BY DEF FailInv, TypeOK
<1>4. Turning(Home(r))
  BY <1>1 DEF Home
<1> QED BY <1>1, <1>2, <1>3, <1>4, FailoverAssumption

\* A target is entered with a call for each of its keys, or with all the calls
\* the request may still make.
LEMMA EnterRotates ==
    ASSUME RotateInv, NEW r \in Requests, EnterTarget(r)
    PROVE  Rotating(r)'
<1> USE DEF RotateInv, OustInv, FailInv, TypeOK
<1> DEFINE p == Home(r)
           t == Target(r)
           q == req'[r]
<1>1. req[r] \in Request /\ p \in Pool
  BY WorkingFacts DEF EnterTarget
<1>2. /\ UNCHANGED pool /\ tried'[r] = {} /\ q.pc = "pick" /\ q.attempts = req[r].attempts
      /\ q.at = req[r].at /\ q.order = req[r].order
      /\ q.left = Budget(MaxAttempts - req[r].attempts, AvailableFor(p, t))
  BY <1>1 DEF EnterTarget, Note, Request
<1>3. Home(r)' = p /\ Target(r)' = t
  BY <1>2 DEF Home, Target
<1>4. req[r].attempts \in Nat /\ MaxAttempts \in Nat
  BY <1>1, FailoverAssumption DEF Request
<1>5. AvailableFor(p, t) = Cardinality(Matching(p, t) \ {})
  <2>1. Matching(p, t) \ {} = {k \in Keys : Holds(p, k) /\ keyMatchesTarget(k, t)}
    BY DEF Matching
  <2> QED BY <2>1 DEF AvailableFor
<1>6. q.left = MaxAttempts - req[r].attempts \/ q.left = AvailableFor(p, t)
  BY <1>2 DEF Budget, Smaller
<1> HIDE DEF p, t, q
<1>7. CASE q.left = MaxAttempts - req[r].attempts
  <2>1. q.attempts + q.left = MaxAttempts
    BY <1>2, <1>4, <1>7
  <2> QED BY <2>1 DEF Rotating, Rotated, q
<1>8. CASE q.left = AvailableFor(p, t)
  <2>1. Behind(p, t, Len(p.keys), {})
    <3>1. Len(p.keys) \in Nat
      BY <1>1 DEF Pool
    <3> QED BY <3>1 DEF Behind
  <2>2. Cardinality(Matching(p, t) \ {}) <= q.left
    <3>1. Cardinality(Matching(p, t) \ {}) \in Nat
      BY MatchingCount
    <3> QED BY <1>5, <1>8, <3>1
  <2>3. Rotated(p, t, q, {})
    BY <1>2, <2>1, <2>2 DEF Rotated, Seen, Made
  <2> QED BY <1>2, <1>3, <2>3 DEF Rotating, q
<1> QED BY <1>6, <1>7, <1>8

\* A pick takes a key that has not been called, or ends the first round.
LEMMA PickKeepsRotation ==
    ASSUME RotateInv, NEW r \in Requests, Pick(r)
    PROVE  Rotating(r)'
<1> DEFINE p == Home(r)
           t == Target(r)
           T == tried[r]
           g == NextFor(p, t)
           q == req'[r]
<1>0. req[r].pc = "pick" /\ req[r].pc \in Visiting
  BY DEF Pick, Visiting
<1>1. /\ req[r].at \in Replicas /\ p \in Pool /\ Turning(p) /\ t \in Targets /\ req[r] \in Request
      /\ T # None => T \in SUBSET Keys
  BY <1>0, VisitFacts
<1>2. /\ pool' = [pool EXCEPT ![req[r].at] = g.pool] /\ Stops(p, t) # {} /\ tried'[r] = T
      /\ q.pc = "peek" /\ q.key = g.key /\ q.attempts = req[r].attempts /\ q.left = req[r].left
      /\ q.at = req[r].at /\ q.order = req[r].order
  BY <1>1 DEF Pick, Stir, SetPool, Request, RotateInv, OustInv, FailInv, TypeOK
<1>3. Home(r)' = g.pool /\ Target(r)' = t
  BY <1>1, <1>2 DEF Home, Target, RotateInv, OustInv, FailInv, TypeOK
<1> SUFFICES ASSUME T # None PROVE Rotated(g.pool, t, q, T)
  BY <1>2, <1>3 DEF Rotating
<1>4. Rotated(p, t, req[r], T)
  BY <1>0 DEF RotateInv, Rotating
<1>5. g.pool.keys = p.keys /\ g.pool.cooling = p.cooling
  BY <1>1 DEF NextFor, Pool
<1>6. g.key \in Keys /\ Usable(p, t, g.key) /\ Holds(p, g.key)
  <2>1. g.key \in Keys /\ Usable(p, t, g.key)
    BY <1>1, <1>2, NextForType
  <2>2. Holds(p, g.key)
    <3>1. Stops(p, t) \in SUBSET Nat /\ Stops(p, t) \subseteq 0..(Len(p.keys) - 1)
      BY <1>1 DEF Stops, Pool
    <3>2. Min(Stops(p, t)) \in 0..(Len(p.keys) - 1)
      BY <1>2, <3>1, MinNat
    <3>3. g.key = At(p, Min(Stops(p, t)))
      BY DEF NextFor
    <3> QED BY <1>1, <3>2, <3>3, Places
  <2> QED BY <2>1, <2>2
<1> HIDE DEF p, t, T, g, q
<1>7. UsableKeys(g.pool, t) = UsableKeys(p, t) /\ Matching(g.pool, t) = Matching(p, t)
  BY <1>5 DEF UsableKeys, Matching, Usable, Holds
<1>8. g.key \in Matching(p, t)
  BY <1>6 DEF Matching, Usable
<1>9. CASE req[r].attempts + req[r].left = MaxAttempts
  BY <1>2, <1>9 DEF Rotated
<1>10. CASE UsableKeys(p, t) \subseteq T
  BY <1>7, <1>10 DEF Rotated
<1>11. ASSUME NEW f, Behind(p, t, f, T), Cardinality(Matching(p, t) \ T) <= req[r].left
       PROVE  Rotated(g.pool, t, q, T)
  <2>1. \/ UsableKeys(g.pool, t) \subseteq T
        \/ g.key \notin T /\ \E h : Behind(g.pool, t, h, T \union {g.key})
    BY <1>1, <1>2, <1>11, PickRotates DEF g
  <2> QED BY <1>2, <1>7, <1>8, <1>11, <2>1 DEF Rotated, Seen, Made
<1> QED BY <1>0, <1>4, <1>9, <1>10, <1>11 DEF Rotated, Seen, Made

\* Asking Redis about the key changes nothing of it.
LEMMA PeekRotates ==
    ASSUME RotateInv, NEW r \in Requests, PeekCooling(r) \/ PeekClear(r)
    PROVE  Rotating(r)'
<1> USE DEF RotateInv, OustInv, FailInv, TypeOK
<1> DEFINE q == req'[r]
<1>1. req[r] \in Request
  OBVIOUS
<1>2. /\ UNCHANGED <<pool, tried>> /\ req[r].pc = "peek" /\ q.pc \in {"adopt", "call"}
      /\ q.key = req[r].key /\ q.attempts = req[r].attempts /\ q.left = req[r].left
      /\ q.at = req[r].at /\ q.order = req[r].order
  BY <1>1 DEF PeekCooling, PeekClear, Request, history
<1>3. Home(r)' = Home(r) /\ Target(r)' = Target(r)
  BY <1>2 DEF Home, Target
<1> HIDE DEF q
<1> SUFFICES ASSUME tried[r] # None PROVE Rotated(Home(r), Target(r), q, tried[r])
  BY <1>2, <1>3 DEF Rotating, q
<1>4. Rotated(Home(r), Target(r), req[r], tried[r])
  BY <1>2 DEF Rotating, Visiting
<1>5. Seen(q, tried[r]) = Seen(req[r], tried[r]) /\ Made(q, tried[r]) = Made(req[r], tried[r])
  BY <1>2 DEF Seen, Made
<1> QED BY <1>2, <1>4, <1>5 DEF Rotated

\* The cooldown of a key is adopted: its request need not call it any more.
LEMMA AdoptRotates ==
    ASSUME RotateInv, NEW r \in Requests, Adopt(r)
    PROVE  Rotating(r)'
<1> DEFINE p == Home(r)
           t == Target(r)
           T == tried[r]
           k == req[r].key
           q == req'[r]
           c == Cool(p, CooldownId(t, k))
<1>0. req[r].pc = "adopt" /\ req[r].pc \in Visiting
  BY DEF Adopt, Visiting
<1>1. req[r].at \in Replicas /\ p \in Pool /\ req[r] \in Request /\ k \in Keys
  BY <1>0, VisitFacts
<1>2. /\ pool' = [pool EXCEPT ![req[r].at] = c] /\ tried'[r] = T
      /\ q.pc = "pick" /\ q.attempts = req[r].attempts /\ q.left = req[r].left
      /\ q.at = req[r].at /\ q.order = req[r].order
  BY <1>1 DEF Adopt, Stir, SetPool, Id, Request, RotateInv, OustInv, FailInv, TypeOK
<1>3. Home(r)' = c /\ Target(r)' = t
  BY <1>1, <1>2 DEF Home, Target, RotateInv, OustInv, FailInv, TypeOK
<1> SUFFICES ASSUME T # None PROVE Rotated(c, t, q, T)
  BY <1>2, <1>3 DEF Rotating
<1>4. Rotated(p, t, req[r], T)
  BY <1>0 DEF RotateInv, Rotating
<1> HIDE DEF p, t, T, k, q
<1>5. /\ UsableKeys(c, t) \subseteq UsableKeys(p, t) /\ Matching(c, t) = Matching(p, t)
      /\ \A f : Behind(p, t, f, T \union {k}) => Behind(c, t, f, T)
  BY <1>1, CoolRotates
<1> HIDE DEF c
<1>6. Seen(req[r], T) = T \union {k} /\ Made(req[r], T) = T /\ Seen(q, T) = T /\ Made(q, T) = T
  BY <1>0, <1>2 DEF Seen, Made, k
<1> QED BY <1>2, <1>4, <1>5, <1>6 DEF Rotated

\* A call that fails is one call less, and one key less to call.
LEMMA ErrorRotates ==
    ASSUME RotateInv, NEW r \in Requests, CallError(r)
    PROVE  Rotating(r)'
<1> DEFINE p == Home(r)
           t == Target(r)
           T == tried[r]
           k == req[r].key
           q == req'[r]
<1>0. req[r].pc = "call" /\ req[r].pc \in Visiting
  BY DEF CallError, Count, Visiting
<1>1. req[r].at \in Replicas /\ req[r] \in Request /\ k \in Keys /\ req[r].left \in Nat
      /\ req[r].attempts \in Nat
  BY <1>0, VisitFacts
<1>2. /\ UNCHANGED pool /\ q.pc = "pick" /\ tried'[r] = Tried(r)
      /\ q.attempts = req[r].attempts + 1 /\ q.left = req[r].left - 1
      /\ q.at = req[r].at /\ q.order = req[r].order
  BY <1>1 DEF CallError, Count, Note, Request, RotateInv, OustInv, FailInv, TypeOK
<1>3. Home(r)' = p /\ Target(r)' = t
  BY <1>2 DEF Home, Target
<1>4. T # None => tried'[r] = T \union {k}
  BY <1>2 DEF Tried
<1> SUFFICES ASSUME T # None PROVE Rotated(p, t, q, T \union {k})
  BY <1>2, <1>3, <1>4 DEF Rotating, Tried
<1>5. Rotated(p, t, req[r], T)
  BY <1>0 DEF RotateInv, Rotating
<1>6. /\ Seen(req[r], T) = T \union {k} /\ Made(req[r], T) = T
      /\ Seen(q, T \union {k}) = T \union {k} /\ Made(q, T \union {k}) = T \union {k}
  BY <1>0, <1>2 DEF Seen, Made
<1> HIDE DEF p, t, T, k, q
<1>7. CASE req[r].attempts + req[r].left = MaxAttempts
  BY <1>1, <1>2, <1>7 DEF Rotated
<1>8. CASE UsableKeys(p, t) \subseteq T
  BY <1>8 DEF Rotated
<1>9. ASSUME NEW f, Behind(p, t, f, T \union {k}), Cardinality(Matching(p, t) \ T) <= req[r].left,
             k \in Matching(p, t) \ T
      PROVE  Rotated(p, t, q, T \union {k})
  <2>1. Cardinality(Matching(p, t) \ (T \union {k})) <= q.left
    <3>1. Cardinality(Matching(p, t) \ (T \union {k})) = Cardinality(Matching(p, t) \ T) - 1
          /\ Cardinality(Matching(p, t) \ T) \in Nat
      BY <1>9, OneLess
    <3> QED BY <1>1, <1>2, <1>9, <3>1
  <2> QED BY <1>2, <1>6, <1>9, <2>1 DEF Rotated
<1> QED BY <1>0, <1>5, <1>6, <1>7, <1>8, <1>9 DEF Rotated, k

\* So is a call that is limited, which cools the key as well ...
LEMMA LimitedRotates ==
    ASSUME RotateInv, NEW r \in Requests, CallLimited(r)
    PROVE  Rotating(r)'
<1> DEFINE p == Home(r)
           t == Target(r)
           T == tried[r]
           k == req[r].key
           q == req'[r]
           c == Cool(p, CooldownId(t, k))
<1>0. req[r].pc = "call" /\ req[r].pc \in Visiting
  BY DEF CallLimited, Count, Visiting
<1>1. /\ req[r].at \in Replicas /\ req[r] \in Request /\ k \in Keys /\ req[r].left \in Nat
      /\ req[r].attempts \in Nat /\ p \in Pool
  BY <1>0, VisitFacts
<1>2. /\ pool' = [pool EXCEPT ![req[r].at] = c] /\ tried'[r] = T
      /\ q.pc = "share" /\ q.key = k
      /\ q.attempts = req[r].attempts + 1 /\ q.left = req[r].left - 1
      /\ q.at = req[r].at /\ q.order = req[r].order
  BY <1>1 DEF CallLimited, Count, Stir, SetPool, Id, Request, RotateInv, OustInv, FailInv, TypeOK
<1>3. Home(r)' = c /\ Target(r)' = t
  BY <1>1, <1>2 DEF Home, Target, RotateInv, OustInv, FailInv, TypeOK
<1> SUFFICES ASSUME T # None PROVE Rotated(c, t, q, T)
  BY <1>2, <1>3 DEF Rotating
<1>5. Rotated(p, t, req[r], T)
  BY <1>0 DEF RotateInv, Rotating
<1>6. /\ Seen(req[r], T) = T \union {k} /\ Made(req[r], T) = T
      /\ Seen(q, T) = T \union {k} /\ Made(q, T) = T \union {k}
  BY <1>0, <1>2 DEF Seen, Made
<1>k. req[r].key = k
  OBVIOUS
<1> HIDE DEF p, t, T, k, q
<1>4. /\ UsableKeys(c, t) \subseteq UsableKeys(p, t) /\ Matching(c, t) = Matching(p, t)
      /\ \A f, S : Behind(p, t, f, S) => Behind(c, t, f, S)
  BY <1>1, CoolRotates
<1> HIDE DEF c
<1>7. CASE req[r].attempts + req[r].left = MaxAttempts
  BY <1>1, <1>2, <1>7 DEF Rotated
<1>8. CASE UsableKeys(p, t) \subseteq T
  BY <1>4, <1>8 DEF Rotated
<1>9. ASSUME NEW f, Behind(p, t, f, T \union {k}), Cardinality(Matching(p, t) \ T) <= req[r].left,
             k \in Matching(p, t) \ T
      PROVE  Rotated(c, t, q, T)
  <2>1. Cardinality(Matching(p, t) \ (T \union {k})) <= q.left
    <3>1. Cardinality(Matching(p, t) \ (T \union {k})) = Cardinality(Matching(p, t) \ T) - 1
          /\ Cardinality(Matching(p, t) \ T) \in Nat
      BY <1>9, OneLess
    <3> QED BY <1>1, <1>2, <1>9, <3>1
  <2> QED BY <1>2, <1>4, <1>6, <1>9, <2>1 DEF Rotated
<1> QED BY <1>0, <1>5, <1>6, <1>7, <1>8, <1>9, <1>k DEF Rotated

\* ... and is shared with the other replicas.
LEMMA ShareRotates ==
    ASSUME RotateInv, NEW r \in Requests, Share(r)
    PROVE  Rotating(r)'
<1> DEFINE p == Home(r)
           t == Target(r)
           T == tried[r]
           k == req[r].key
           q == req'[r]
<1>0. req[r].pc = "share" /\ req[r].pc \in Visiting
  BY DEF Share, Visiting
<1>1. req[r] \in Request
  BY <1>0, VisitFacts
<1>2. /\ UNCHANGED pool /\ q.pc = "adopt" /\ q.key = k /\ tried'[r] = Tried(r)
      /\ q.attempts = req[r].attempts /\ q.left = req[r].left
      /\ q.at = req[r].at /\ q.order = req[r].order
  BY <1>1 DEF Share, Note, Request, RotateInv, OustInv, FailInv, TypeOK
<1>3. Home(r)' = p /\ Target(r)' = t
  BY <1>2 DEF Home, Target
<1>4. T # None => tried'[r] = T \union {k}
  BY <1>2 DEF Tried
<1> SUFFICES ASSUME T # None PROVE Rotated(p, t, q, T \union {k})
  BY <1>2, <1>3, <1>4 DEF Rotating, Tried
<1>5. Rotated(p, t, req[r], T)
  BY <1>0 DEF RotateInv, Rotating
<1>6. /\ Seen(req[r], T) = T \union {k} /\ Made(req[r], T) = T \union {k}
      /\ Seen(q, T \union {k}) = T \union {k} /\ Made(q, T \union {k}) = T \union {k}
  BY <1>0, <1>2 DEF Seen, Made
<1> HIDE DEF p, t, T, k, q
<1> QED BY <1>2, <1>5, <1>6 DEF Rotated

\* A step that changes the pool of one replica leaves the requests of the
\* others, and those on a target of it are no longer undisturbed.
LEMMA StirRotates ==
    ASSUME RotateInv, NEW b \in Replicas, NEW p, SetPool(b, p), NEW own, Stir(b, own),
           NEW c \in Requests, c \notin own, req'[c] = req[c]
    PROVE  Rotating(c)'
<1> USE DEF RotateInv, OustInv, FailInv, TypeOK
<1>1. tried'[c] = None \/ tried'[c] = tried[c]
  BY DEF Stir
<1>2. CASE tried'[c] = None
  BY <1>2 DEF Rotating
<1>3. CASE tried'[c] # None /\ tried'[c] = tried[c] /\ req[c].pc \in Visiting
  <2>1. req[c].at # b \/ pool' = pool
    BY <1>3 DEF Stir, Visiting
  <2>2. req[c].at \in Replicas
    BY <1>3, VisitFacts
  <2>3. Home(c)' = Home(c) /\ Target(c)' = Target(c)
    BY <2>1, <2>2 DEF SetPool, Home, Target
  <2> QED BY <1>3, <2>3 DEF Rotating
<1>4. CASE req[c].pc \notin Visiting
  BY <1>4 DEF Rotating
<1> QED BY <1>1, <1>2, <1>3, <1>4

\* A step that changes no pool leaves the requests that do not take it.
LEMMA StillRotates ==
    ASSUME RotateInv, UNCHANGED pool, NEW c \in Requests, req'[c] = req[c], tried'[c] = tried[c]
    PROVE  Rotating(c)'
<1>1. Home(c)' = Home(c) /\ Target(c)' = Target(c)
  BY DEF Home, Target
<1> QED BY <1>1 DEF RotateInv, Rotating

\* Whoever takes a step, the others stand where they stood.
LEMMA OthersRotate ==
    ASSUME RotateInv, NEW r \in Requests, Proceed(r), NEW c \in Requests, c # r
    PROVE  Rotating(c)'
<1> USE DEF RotateInv, OustInv, FailInv, TypeOK
<1>1. req'[c] = req[c]
  BY DEF Proceed, EnterTarget, SkipTarget, GiveUp, LeaveTarget, Pick, PeekCooling, PeekClear, Adopt,
         CallError, CallLimited, Share, CallInvalid, Disable, DisableFails, RemoveDisabled,
         CallRefused, CallOk, Heal, Count, End
<1>2. CASE Pick(r) \/ Adopt(r) \/ CallLimited(r) \/ CallOk(r) \/ RemoveDisabled(r)
  <2>1. req[r].at \in Replicas
    BY <1>2, WorkingFacts DEF Pick, Adopt, CallLimited, CallOk, RemoveDisabled, Count
  <2>2. \E p : SetPool(req[r].at, p) /\ Stir(req[r].at, {r})
    BY <1>2 DEF Pick, Adopt, CallLimited, CallOk, RemoveDisabled
  <2> QED BY <1>1, <2>1, <2>2, StirRotates
<1>3. CASE ~(Pick(r) \/ Adopt(r) \/ CallLimited(r) \/ CallOk(r) \/ RemoveDisabled(r))
  <2>1. UNCHANGED pool /\ tried'[c] = tried[c]
    BY <1>3 DEF Proceed, EnterTarget, SkipTarget, GiveUp, LeaveTarget, PeekCooling, PeekClear,
           CallError, Share, CallInvalid, Disable, DisableFails, CallRefused, Heal, End, Note,
           world, history
  <2> QED BY <1>1, <2>1, StillRotates
<1> QED BY <1>2, <1>3

\* Where a request's own step leads it.
LEMMA OwnPlace ==
    ASSUME RotateInv, "invalid" \notin Answers, NEW r \in Requests, Proceed(r)
    PROVE  /\ req'[r].pc \notin {"disable", "remove"}
           /\ \/ req'[r].pc \notin Visiting
              \/ EnterTarget(r) \/ Pick(r) \/ PeekCooling(r) \/ PeekClear(r) \/ Adopt(r)
              \/ CallError(r) \/ CallLimited(r) \/ Share(r)
<1> USE DEF RotateInv, OustInv, FailInv, TypeOK
<1>1. req[r] \in Request /\ req[r].pc \notin {"disable", "remove"} /\ Idle.pc = "idle"
  BY DEF Idle
<1>2. ASSUME EnterTarget(r) \/ Pick(r) \/ PeekCooling(r) \/ PeekClear(r) \/ Adopt(r)
             \/ CallError(r) \/ CallLimited(r) \/ Share(r)
      PROVE  req'[r].pc \notin {"disable", "remove"}
  BY <1>1, <1>2 DEF EnterTarget, Pick, PeekCooling, PeekClear, Adopt, CallError, CallLimited, Share,
                    Count, Request
<1>3. ASSUME SkipTarget(r) \/ LeaveTarget(r)
      PROVE  req'[r].pc = "target"
  BY <1>1, <1>3 DEF SkipTarget, LeaveTarget, Request
<1>4. ASSUME GiveUp(r) \/ CallRefused(r) \/ Heal(r)
      PROVE  req'[r].pc = "idle"
  BY <1>1, <1>4 DEF GiveUp, CallRefused, Heal, End
<1>5. ASSUME CallOk(r)
      PROVE  req'[r].pc = "heal"
  BY <1>1, <1>5 DEF CallOk, Request
<1>6. ~(CallInvalid(r) \/ Disable(r) \/ DisableFails(r) \/ RemoveDisabled(r))
  BY <1>1 DEF CallInvalid, Disable, DisableFails, RemoveDisabled
<1> QED BY <1>2, <1>3, <1>4, <1>5, <1>6 DEF Proceed, Visiting

\* RotateInv is inductive as long as no key is declared invalid.
LEMMA StepRotates == ASSUME "invalid" \notin Answers PROVE RotateInv /\ [Next]_vars => RotateInv'
<1> SUFFICES ASSUME RotateInv, [Next]_vars PROVE RotateInv'
  OBVIOUS
<1> SUFFICES ASSUME NEW c \in Requests PROVE req'[c].pc \notin {"disable", "remove"} /\ Rotating(c)'
  <2>1. OustInv'
    BY StepOusts DEF RotateInv
  <2> QED BY <2>1 DEF RotateInv
<1>0. req[c].pc \notin {"disable", "remove"} /\ req \in [Requests -> Request]
  BY DEF RotateInv, OustInv, FailInv, TypeOK
<1>1. ASSUME NEW r \in Requests, Proceed(r)
      PROVE  req'[c].pc \notin {"disable", "remove"} /\ Rotating(c)'
  <2>1. CASE c = r
    <3>1. CASE req'[r].pc \notin Visiting
      BY <1>1, <2>1, <3>1, OwnPlace DEF Rotating
    <3>2. CASE req'[r].pc \in Visiting
      <4>1. Rotating(r)'
        BY <1>1, <3>2, OwnPlace, EnterRotates, PickKeepsRotation, PeekRotates, AdoptRotates,
           ErrorRotates, LimitedRotates, ShareRotates
      <4> QED BY <1>1, <2>1, <4>1, OwnPlace
    <3> QED BY <3>1, <3>2
  <2>2. CASE c # r
    <3>1. req'[c] = req[c]
      BY <1>0, <1>1, <2>2 DEF Proceed, EnterTarget, SkipTarget, GiveUp, LeaveTarget, Pick, PeekCooling,
         PeekClear, Adopt, CallError, CallLimited, Share, CallInvalid, Disable, DisableFails,
         RemoveDisabled, CallRefused, CallOk, Heal, Count, End
    <3> QED BY <1>0, <1>1, <2>2, <3>1, OthersRotate
  <2> QED BY <2>1, <2>2
<1>2. ASSUME NEW r \in Requests, NEW b \in Replicas, NEW order \in Orders, Start(r, b, order)
      PROVE  req'[c].pc \notin {"disable", "remove"} /\ Rotating(c)'
  <2>1. UNCHANGED <<pool, tried>>
    BY <1>2 DEF Start, history
  <2>2. CASE c = r
    <3>1. req'[c].pc = "target"
      BY <1>0, <1>2, <2>2 DEF Start, Idle
    <3> QED BY <3>1 DEF Rotating, Visiting
  <2>3. CASE c # r
    <3>1. req'[c] = req[c]
      BY <1>0, <1>2, <2>3 DEF Start
    <3> QED BY <1>0, <2>1, <3>1, StillRotates
  <2> QED BY <2>2, <2>3
<1>3. CASE World
  <2>1. UNCHANGED req
    BY <1>3 DEF World, Lapse, FlushExhausted, FetchKeys, InstallKeys, LapseShared
  <2>2. ASSUME NEW b \in Replicas, NEW p, SetPool(b, p), Stir(b, {}) PROVE Rotating(c)'
    <3>1. c \notin {} /\ req'[c] = req[c]
      BY <2>1
    <3> QED BY <2>2, <3>1, StirRotates
  <2>3. ASSUME UNCHANGED <<pool, tried>> PROVE Rotating(c)'
    BY <2>1, <2>3, StillRotates
  <2>4. \/ UNCHANGED <<pool, tried>>
        \/ \E b \in Replicas : \E p : SetPool(b, p) /\ Stir(b, {})
    BY <1>3 DEF World, Lapse, FlushExhausted, FetchKeys, InstallKeys, LapseShared, history
  <2> QED BY <1>0, <2>1, <2>2, <2>3, <2>4
<1>4. CASE UNCHANGED vars
  <2>1. UNCHANGED <<pool, tried, req>>
    BY <1>4 DEF vars, history
  <2> QED BY <1>0, <2>1, StillRotates
<1> QED BY <1>1, <1>2, <1>3, <1>4 DEF Next

\* A request that leaves a target undisturbed, with calls left over, has called
\* every key of the target that is not cooling: NextFor with the budget of
\* doProviderTargetLoop passes no healthy key over.  (Unless a key is taken out
\* of the pool on the way: the run failover_skip.)
THEOREM NoKeyPassedOver == ASSUME "invalid" \notin Answers PROVE Spec => EveryKeyTried
<1>1. Init => RotateInv
  <2>1. Init => \A r \in Requests : req[r].pc = "idle"
    BY DEF Init, Idle
  <2> QED BY <2>1, InitOusts DEF RotateInv, Rotating, Visiting
<1>2. ASSUME RotateInv, NEW r \in Requests, LeaveTarget(r), tried[r] # None,
             req[r].attempts < MaxAttempts, NEW k \in Keys, Holds(Home(r), k),
             Usable(Home(r), Target(r), k)
      PROVE  k \in tried[r]
  <2>1. req[r].pc = "pick" /\ req[r].pc \in Visiting
    BY <1>2 DEF LeaveTarget, Visiting
  <2>2. /\ Home(r) \in Pool /\ Turning(Home(r)) /\ req[r].attempts \in Nat /\ req[r].left \in Nat
    BY <1>2, <2>1, VisitFacts
  <2>3. Stops(Home(r), Target(r)) # {}
    BY <1>2, <2>2, Places DEF Stops
  <2>4. req[r].left = 0
    BY <1>2, <2>3 DEF LeaveTarget
  <2>5. Rotated(Home(r), Target(r), req[r], tried[r])
    BY <1>2, <2>1 DEF RotateInv, Rotating
  <2>6. CASE UsableKeys(Home(r), Target(r)) \subseteq tried[r]
    BY <1>2, <2>6 DEF UsableKeys
  <2>7. CASE Cardinality(Matching(Home(r), Target(r)) \ tried[r]) <= 0
    <3>1. Matching(Home(r), Target(r)) \subseteq tried[r]
      <4>1. Cardinality(Matching(Home(r), Target(r)) \ tried[r]) \in Nat
        BY MatchingCount
      <4>2. Cardinality(Matching(Home(r), Target(r)) \ tried[r]) = 0
        BY <2>7, <4>1
      <4> QED BY <4>2, MatchingCount
    <3> QED BY <1>2, <3>1 DEF Matching, Usable
  <2>8. req[r].attempts + req[r].left # MaxAttempts
    BY <1>2, <2>2, <2>4, FailoverAssumption
  <2> QED BY <2>1, <2>4, <2>5, <2>6, <2>7, <2>8 DEF Rotated, Made
<1>3. RotateInv /\ [Next]_vars
        => [\A r \in Requests :
              (LeaveTarget(r) /\ tried[r] # None /\ req[r].attempts < MaxAttempts) =>
                \A k \in Keys :
                  Holds(Home(r), k) /\ Usable(Home(r), Target(r), k) => k \in tried[r]]_vars
  BY <1>2
<1> QED BY <1>1, <1>3, StepRotates, PTL DEF Spec, EveryKeyTried
=============================================================================
