------------------------- MODULE UsagePipelineProofs -------------------------
(***************************************************************************)
(* Theorems about UsagePipeline, for any number of replicas, any requests  *)
(* in any order, any capacities and any number of faults and crashes.      *)
(***************************************************************************)
EXTENDS UsagePipeline, FoldTheorems, TLAPS

-----------------------------------------------------------------------------
(* The inductive invariant                                                 *)

\* The records are numbered in the order in which they were made, and there
\* is a number for each request that is still to end.
MadeInv ==
    /\ todo \in Seq(Requests) /\ Cardinality(made) + Len(todo) <= MaxRecords
    /\ made \subseteq Record /\ IsFiniteSet(made) /\ logs \subseteq made
    /\ \A x \in made : x.id \in 1..Cardinality(made)
    /\ \A x, y \in made : x.id = y.id => x = y

Ascends(s) == \A i, j \in DOMAIN s : i < j => s[i].id < s[j].id

\* The records of a replica wait in the order of their numbers, those of its
\* batch before those of its queue, and after those that are in the logs.
LineOf(r, q, b) ==
    /\ q \in Seq(made) /\ b \in Seq(made)
    /\ Ascends(q) /\ Ascends(b)
    /\ \A x \in ToSet(b), y \in ToSet(q) : x.id < y.id
    /\ \A x \in ToSet(b) \union ToSet(q) :
          /\ x.by = r /\ ~x.limited
          /\ \A y \in logs : y.by = r /\ ~y.limited => y.id < x.id

LineInv == \A r \in Replicas : LineOf(r, queue[r], batch[r])

\* The transaction of a writer inserts its batch, that of a charge one record,
\* which is not in the logs.
Charged(i, recs) ==
    recs = <<>> \/ \E x \in made : x.id = i /\ x.limited /\ x \notin logs /\ recs = <<x>>

TxInv ==
    /\ \A r \in Replicas : tx[r] = Idle \/ tx[r].recs = batch[r]
    /\ \A i \in Ids : Charged(i, tx[i].recs)

Transaction == [recs : Seq(Record), stmts : {Statements(s) : s \in Seq(Record)}, done : Nat]

ShapeInv ==
    /\ queue \in [Replicas -> Seq(Record)] /\ batch \in [Replicas -> Seq(Record)]
    /\ tx \in [Owners -> Transaction]
    /\ \A o \in Owners : tx[o].stmts = Statements(tx[o].recs)

PipeInv == MadeInv /\ ShapeInv /\ LineInv /\ TxInv
-----------------------------------------------------------------------------
(* Sequences                                                               *)

\* A sequence over a set is one over any larger set.
LEMMA SeqGrows == ASSUME NEW S, NEW T, S \subseteq T, NEW s \in Seq(S) PROVE s \in Seq(T)
OBVIOUS

\* The elements of a sequence are its head and those of its tail.
LEMMA TailElements ==
    ASSUME NEW S, NEW s \in Seq(S), s # <<>>
    PROVE  /\ Tail(s) \in Seq(S) /\ Head(s) \in S
           /\ ToSet(s) = {Head(s)} \union ToSet(Tail(s))
           /\ Ascends(s) => Ascends(Tail(s)) /\ \A y \in ToSet(Tail(s)) : Head(s).id < y.id
<1>1. /\ Len(s) \in Nat \ {0} /\ DOMAIN s = 1..Len(s) /\ Tail(s) \in Seq(S) /\ Head(s) = s[1]
      /\ DOMAIN Tail(s) = 1..Len(s) - 1
      /\ \A i \in 1..Len(s) - 1 : Tail(s)[i] = s[i + 1]
  OBVIOUS
<1>2. ToSet(s) \subseteq {Head(s)} \union ToSet(Tail(s))
  <2> SUFFICES ASSUME NEW i \in 1..Len(s), i # 1 PROVE s[i] \in ToSet(Tail(s))
    BY <1>1 DEF ToSet
  <2>1. i - 1 \in 1..Len(s) - 1 /\ s[i] = Tail(s)[i - 1]
    BY <1>1
  <2> QED BY <1>1, <2>1 DEF ToSet
<1>3. {Head(s)} \union ToSet(Tail(s)) \subseteq ToSet(s)
  <2>1. ASSUME NEW i \in 1..Len(s) - 1 PROVE Tail(s)[i] \in ToSet(s)
    <3>1. i + 1 \in 1..Len(s) /\ Tail(s)[i] = s[i + 1]
      BY <1>1
    <3> QED BY <1>1, <3>1 DEF ToSet
  <2>2. 1 \in 1..Len(s)
    BY <1>1
  <2> QED BY <1>1, <2>1, <2>2 DEF ToSet
<1>4. Ascends(s) => Ascends(Tail(s))
  <2> SUFFICES ASSUME Ascends(s), NEW i \in 1..Len(s) - 1, NEW j \in 1..Len(s) - 1, i < j
               PROVE  Tail(s)[i].id < Tail(s)[j].id
    BY <1>1 DEF Ascends
  <2>1. i + 1 \in 1..Len(s) /\ j + 1 \in 1..Len(s) /\ i + 1 < j + 1
    BY <1>1
  <2>2. s[i + 1].id < s[j + 1].id
    BY <1>1, <2>1 DEF Ascends
  <2> QED BY <1>1, <2>2
<1>5. Ascends(s) => \A y \in ToSet(Tail(s)) : Head(s).id < y.id
  <2> SUFFICES ASSUME Ascends(s), NEW i \in 1..Len(s) - 1
               PROVE  s[1].id < Tail(s)[i].id
    BY <1>1 DEF ToSet
  <2>1. 1 \in 1..Len(s) /\ i + 1 \in 1..Len(s) /\ 1 < i + 1
    BY <1>1
  <2>2. s[1].id < s[i + 1].id
    BY <1>1, <2>1 DEF Ascends
  <2> QED BY <1>1, <2>2
<1>6. Head(s) \in S
  OBVIOUS
<1> QED BY <1>1, <1>2, <1>3, <1>4, <1>5, <1>6

\* The elements of a sequence to which one is appended.
LEMMA AppendElements ==
    ASSUME NEW S, NEW s \in Seq(S), NEW x \in S
    PROVE  /\ Append(s, x) \in Seq(S)
           /\ ToSet(Append(s, x)) = ToSet(s) \union {x}
           /\ Ascends(s) /\ (\A y \in ToSet(s) : y.id < x.id) => Ascends(Append(s, x))
<1> DEFINE a == Append(s, x)
<1>1. /\ Len(s) \in Nat /\ DOMAIN s = 1..Len(s) /\ DOMAIN a = 1..Len(s) + 1
      /\ a[Len(s) + 1] = x /\ \A i \in 1..Len(s) : a[i] = s[i]
  OBVIOUS
<1>2. ToSet(a) = ToSet(s) \union {x}
  <2>1. 1..Len(s) + 1 = 1..Len(s) \union {Len(s) + 1}
    BY <1>1
  <2> HIDE DEF a
  <2> QED BY <1>1, <2>1 DEF ToSet
<1>3. ASSUME Ascends(s), \A y \in ToSet(s) : y.id < x.id PROVE Ascends(a)
  <2> SUFFICES ASSUME NEW i \in 1..Len(s) + 1, NEW j \in 1..Len(s) + 1, i < j PROVE a[i].id < a[j].id
    BY <1>1 DEF Ascends
  <2>1. i \in 1..Len(s) /\ a[i] = s[i]
    BY <1>1
  <2>2. s[i] \in ToSet(s)
    BY <1>1, <2>1 DEF ToSet
  <2>3. CASE j = Len(s) + 1
    <3> HIDE DEF a
    <3> QED BY <1>1, <1>3, <2>1, <2>2, <2>3
  <2>4. CASE j \in 1..Len(s)
    <3> HIDE DEF a
    <3> QED BY <1>1, <1>3, <2>1, <2>4 DEF Ascends
  <2> QED BY <1>1, <2>3, <2>4
<1> QED BY <1>2, <1>3

\* The empty sequence has no elements and ascends.
LEMMA ElementsOfNone == ToSet(<<>>) = {} /\ Ascends(<<>>)
BY DEF ToSet, Ascends

\* A sequence of one has that element.
LEMMA ElementsOfOne == ASSUME NEW x PROVE ToSet(<<x>>) = {x}
BY DEF ToSet

\* The elements of a sequence are in its set.
LEMMA ElementsIn == ASSUME NEW S, NEW s \in Seq(S) PROVE ToSet(s) \subseteq S
BY DEF ToSet

\* Short sequences.
LEMMA ShortSequences ==
    ASSUME NEW a, NEW b, NEW c
    PROVE  /\ <<a, b>> \o <<c>> = <<a, b, c>> /\ <<a, b>> \o <<>> = <<a, b>>
           /\ \A d : <<a, b>> \o <<c, d>> = <<a, b, c, d>>
           /\ \A S, d : a \in S /\ b \in S /\ c \in S /\ d \in S => <<a, b, c, d>> \in Seq(S)
           /\ \A S : a \in S /\ b \in S => <<a, b>> \in Seq(S) /\ (c \in S => <<a, b, c>> \in Seq(S))
<1> DEFINE s == <<a, b>> \o <<c>>
           T == {a, b, c}
<1>1. <<a, b>> \in Seq(T) /\ <<c>> \in Seq(T) /\ <<a, b, c>> \in Seq(T)
  OBVIOUS
<1>2. s \in Seq(T) /\ Len(s) = 3 /\ s[1] = a /\ s[2] = b /\ s[3] = c
  BY <1>1
<1>3. Len(<<a, b, c>>) = 3 /\ <<a, b, c>>[1] = a /\ <<a, b, c>>[2] = b /\ <<a, b, c>>[3] = c
  OBVIOUS
<1>4. s = <<a, b, c>>
  <2> DEFINE t == <<a, b, c>>
  <2>1. s \in Seq(T) /\ t \in Seq(T) /\ Len(s) = 3 /\ Len(t) = 3 /\ s[1] = t[1] /\ s[2] = t[2] /\ s[3] = t[3]
    BY <1>1, <1>2, <1>3
  <2> HIDE DEF s, t, T
  <2>2. \A i \in 1..3 : s[i] = t[i]
    BY <2>1
  <2>3. s = t
    BY <2>1, <2>2
  <2> QED BY <2>3 DEF t
<1>5. <<a, b>> \o <<>> = <<a, b>>
  <2> DEFINE t == <<a, b>>
  <2>1. t \in Seq(T)
    BY <1>1
  <2> HIDE DEF t
  <2>2. t \o <<>> = t
    BY <2>1
  <2> QED BY <2>2 DEF t
<1>6. ASSUME NEW d PROVE <<a, b>> \o <<c, d>> = <<a, b, c, d>>
  <2> DEFINE U == {a, b, c, d}
             u == <<a, b>> \o <<c, d>>
             t == <<a, b, c, d>>
  <2>1. <<a, b>> \in Seq(U) /\ <<c, d>> \in Seq(U) /\ t \in Seq(U)
    OBVIOUS
  <2>2. u \in Seq(U) /\ Len(u) = 4 /\ u[1] = a /\ u[2] = b /\ u[3] = c /\ u[4] = d
    BY <2>1
  <2>3. Len(t) = 4 /\ t[1] = a /\ t[2] = b /\ t[3] = c /\ t[4] = d
    OBVIOUS
  <2> HIDE DEF u, t, U
  <2>4. \A i \in 1..4 : u[i] = t[i]
    BY <2>2, <2>3
  <2>5. u = t
    BY <2>1, <2>2, <2>3, <2>4
  <2> QED BY <2>5 DEF u, t
<1>7. \A S, d : a \in S /\ b \in S /\ c \in S /\ d \in S => <<a, b, c, d>> \in Seq(S)
  OBVIOUS
<1> QED BY <1>4, <1>5, <1>6, <1>7

-----------------------------------------------------------------------------
(* The invariant, step by step                                             *)

\* No transaction is a transaction without records.
LEMMA IdleTransaction ==
    /\ Idle \in Transaction /\ Idle.recs = <<>> /\ Idle.stmts = Statements(Idle.recs)
    /\ \A recs \in Seq(Record) : [recs |-> recs, stmts |-> Statements(recs), done |-> 0] \in Transaction
<1>1. Statements(<<>>) = <<>>
  BY DEF Statements, FlattenSeq
<1>2. <<>> \in Seq(Record)
  OBVIOUS
<1> QED BY <1>1, <1>2 DEF Idle, Transaction

\* PipeInv holds at the start.
LEMMA InitPipe == Init => PipeInv
<1> SUFFICES ASSUME Init PROVE PipeInv
  OBVIOUS
<1>1. MadeInv
  <2>1. IsFiniteSet({}) /\ Cardinality({}) = 0
    BY FS_EmptySet
  <2>2. todo \in Seq(Requests) /\ Len(todo) <= MaxRecords
    BY ScriptAssumption DEF Init
  <2> QED BY <2>1, <2>2 DEF Init, MadeInv
<1>2. ShapeInv
  BY IdleTransaction DEF Init, ShapeInv, Owners
<1>3. LineInv
  BY ElementsOfNone DEF Init, LineInv, LineOf
<1>4. TxInv
  BY IdleTransaction DEF Init, TxInv, Charged, Owners
<1> QED BY <1>1, <1>2, <1>3, <1>4 DEF PipeInv

\* What recordUsage does with the record it has built.
RecordedAs(r, rec) ==
    /\ made' = made \union {rec}
    /\ \/ rec.limited /\ Begin(Cardinality(made) + 1, <<rec>>) /\ UNCHANGED queue
       \/ /\ ~rec.limited /\ UNCHANGED tx
          /\ queue' = IF Len(queue[r]) < QueueCap
                      THEN [queue EXCEPT ![r] = Append(@, rec)] ELSE queue

LEMMA RecordsOne ==
    ASSUME NEW r, RecordUsage(r)
    PROVE  /\ todo # <<>> /\ Head(todo).by = r /\ todo' = Tail(todo)
           /\ UNCHANGED <<batch, logs, hourly, daily, report, budget>>
           /\ \E spills \in Spills(Head(todo)) :
                 RecordedAs(r, Numbered(Head(todo), Cardinality(made) + 1, spills))
BY DEF RecordUsage, RecordedAs, tables

\* What recordUsage adds: the next number, and a record that has it.
LEMMA NextRecord ==
    ASSUME MadeInv, todo # <<>>, NEW id, id = Cardinality(made) + 1,
           NEW spills \in Spills(Head(todo)), NEW rec, rec = Numbered(Head(todo), id, spills)
    PROVE  /\ id \in Ids /\ rec \in Record /\ rec.id = id /\ rec.by = Head(todo).by
           /\ \A x \in made : x.id < id
           /\ rec \notin made
           /\ IsFiniteSet(made \union {rec}) /\ Cardinality(made \union {rec}) = id
           /\ Tail(todo) \in Seq(Requests) /\ id + Len(Tail(todo)) <= MaxRecords
<1> USE DEF MadeInv
<1>1. Cardinality(made) \in Nat
  BY FS_CardinalityType
<1>2. /\ Head(todo) \in Requests /\ Tail(todo) \in Seq(Requests)
      /\ Len(Tail(todo)) = Len(todo) - 1 /\ Len(todo) \in Nat \ {0}
  OBVIOUS
<1>3. id \in Ids
  BY <1>1, <1>2, SizeAssumption DEF Ids
<1>4. rec \in Record /\ rec.id = id /\ rec.by = Head(todo).by
  <2>1. spills \in BOOLEAN
    BY <1>2, ScriptAssumption DEF Spills
  <2> QED BY <1>2, <1>3, <2>1 DEF Record, Numbered
<1>5. \A x \in made : x.id < id
  BY <1>1
<1>6. rec \notin made
  BY <1>1, <1>4, <1>5
<1>7. IsFiniteSet(made \union {rec}) /\ Cardinality(made \union {rec}) = Cardinality(made) + 1
  BY <1>6, FS_AddElement
<1> QED BY <1>1, <1>2, <1>3, <1>4, <1>5, <1>6, <1>7

\* A record gets the next number and goes to the end of the queue, into a
\* transaction of its own, or nowhere.
LEMMA RecordKeeps == ASSUME PipeInv, NEW r \in Replicas, RecordUsage(r) PROVE PipeInv'
<1> USE DEF PipeInv
<1> DEFINE id == Cardinality(made) + 1
<1>0. PICK spills \in Spills(Head(todo)) : RecordedAs(r, Numbered(Head(todo), id, spills))
  BY RecordsOne
<1> DEFINE rec == Numbered(Head(todo), id, spills)
<1>1. /\ todo # <<>> /\ Head(todo).by = r /\ made' = made \union {rec} /\ todo' = Tail(todo)
      /\ UNCHANGED <<batch, logs>>
      /\ \/ rec.limited /\ Begin(id, <<rec>>) /\ UNCHANGED queue
         \/ /\ ~rec.limited /\ UNCHANGED tx
            /\ queue' = IF Len(queue[r]) < QueueCap
                        THEN [queue EXCEPT ![r] = Append(@, rec)] ELSE queue
  <2> HIDE DEF id, rec
  <2> QED BY <1>0, RecordsOne DEF RecordedAs, id, rec
<1>2. /\ id \in Ids /\ rec \in Record /\ rec.id = id /\ rec.by = r
      /\ \A x \in made : x.id < id
      /\ rec \notin made
      /\ IsFiniteSet(made \union {rec}) /\ Cardinality(made \union {rec}) = id
      /\ Tail(todo) \in Seq(Requests) /\ id + Len(Tail(todo)) <= MaxRecords
  <2> HIDE DEF id, rec
  <2> QED BY <1>1, NextRecord DEF id, rec
<1> HIDE DEF id, rec
<1>3. MadeInv'
  <2>1. id \in Nat /\ Cardinality(made) \in Nat /\ id = Cardinality(made) + 1
    BY FS_CardinalityType DEF MadeInv, id
  <2>2. \A x \in made' : x.id \in 1..Cardinality(made')
    <3>1. \A x \in made : x.id \in 1..Cardinality(made)
      BY DEF MadeInv
    <3>2. Cardinality(made') = id
      BY <1>1, <1>2
    <3> QED BY <1>1, <1>2, <2>1, <3>1, <3>2
  <2>3. \A x, y \in made' : x.id = y.id => x = y
    <3>1. \A x \in made : x.id # rec.id
      BY <1>2, <2>1 DEF MadeInv
    <3> QED BY <1>1, <3>1 DEF MadeInv
  <2>4. made' \subseteq Record /\ IsFiniteSet(made') /\ logs' \subseteq made'
    BY <1>1, <1>2 DEF MadeInv
  <2>5. todo' \in Seq(Requests) /\ Cardinality(made') + Len(todo') <= MaxRecords
    BY <1>1, <1>2
  <2> QED BY <2>2, <2>3, <2>4, <2>5 DEF MadeInv
<1>4. rec \notin logs /\ \A y \in logs : y \in made
  BY <1>2 DEF MadeInv
<1>5. CASE rec.limited
  <2>1. queue' = queue /\ batch' = batch /\ Begin(id, <<rec>>)
    BY <1>1, <1>5
  <2>2. tx' = [tx EXCEPT ![id] = [recs |-> <<rec>>, stmts |-> Statements(<<rec>>), done |-> 0]]
        /\ id \in Owners /\ id \notin Replicas
    BY <2>1, <1>2, OwnerAssumption DEF Begin, Owners
  <2>3. ShapeInv'
    <3>1. <<rec>> \in Seq(Record)
      BY <1>2
    <3>2. [recs |-> <<rec>>, stmts |-> Statements(<<rec>>), done |-> 0] \in Transaction
      BY <3>1, IdleTransaction
    <3> QED BY <2>1, <2>2, <3>2 DEF ShapeInv
  <2>4. LineInv'
    <3> SUFFICES ASSUME NEW q \in Replicas PROVE LineOf(q, queue[q], batch[q])'
      BY DEF LineInv
    <3>1. LineOf(q, queue[q], batch[q])
      BY DEF LineInv
    <3>2. queue[q] \in Seq(made') /\ batch[q] \in Seq(made')
      BY <1>1, <3>1, SeqGrows DEF LineOf
    <3> QED BY <1>1, <2>1, <3>1, <3>2 DEF LineOf
  <2>5. TxInv'
    <3>1. \A q \in Replicas : tx'[q] = tx[q] /\ batch'[q] = batch[q]
      BY <2>1, <2>2 DEF ShapeInv, Owners
    <3>2. ASSUME NEW i \in Ids PROVE Charged(i, tx[i].recs)'
      <4>1. CASE i = id
        <5>1. tx'[i].recs = <<rec>>
          BY <2>2, <4>1 DEF ShapeInv
        <5> QED BY <1>1, <1>2, <1>4, <1>5, <4>1, <5>1 DEF Charged
      <4>2. CASE i # id
        <5>1. tx'[i] = tx[i] /\ Charged(i, tx[i].recs)
          BY <2>2, <4>2 DEF ShapeInv, TxInv, Owners
        <5> QED BY <1>1, <5>1 DEF Charged
      <4> QED BY <4>1, <4>2
    <3> QED BY <3>1, <3>2 DEF TxInv
  <2> QED BY <1>3, <2>3, <2>4, <2>5
<1>6. CASE ~rec.limited
  <2>1. /\ UNCHANGED <<batch, tx, logs>>
        /\ queue' = IF Len(queue[r]) < QueueCap THEN [queue EXCEPT ![r] = Append(@, rec)] ELSE queue
    BY <1>1, <1>6
  <2>2. Append(queue[r], rec) \in Seq(Record)
    BY <1>2 DEF ShapeInv
  <2>3. ShapeInv'
    BY <2>1, <2>2 DEF ShapeInv
  <2>4. ASSUME NEW q \in Replicas PROVE LineOf(q, queue[q], batch[q])'
    <3>1. LineOf(q, queue[q], batch[q])
      BY DEF LineInv
    <3>2. queue[q] \in Seq(made') /\ batch[q] \in Seq(made') /\ rec \in made'
      BY <1>1, <3>1, SeqGrows DEF LineOf
    <3>3. CASE queue'[q] = queue[q]
      BY <1>1, <2>1, <3>1, <3>2, <3>3 DEF LineOf
    <3>4. CASE queue'[q] # queue[q]
      <4>1. q = r /\ queue'[r] = Append(queue[r], rec)
        BY <2>1, <3>4 DEF ShapeInv
      <4>2. \A x \in ToSet(queue[r]) \union ToSet(batch[r]) : x.id < rec.id
        BY <1>2, <3>1, <4>1, ElementsIn DEF LineOf
      <4>3. /\ queue'[r] \in Seq(made') /\ ToSet(queue'[r]) = ToSet(queue[r]) \union {rec}
            /\ Ascends(queue'[r])
        BY <3>1, <3>2, <4>1, <4>2, AppendElements DEF LineOf
      <4>4. \A y \in logs : y.id < rec.id
        BY <1>2, <1>4
      <4> QED BY <1>1, <1>2, <1>6, <2>1, <3>1, <3>2, <4>1, <4>2, <4>3, <4>4 DEF LineOf
    <3> QED BY <3>3, <3>4
  <2>5. TxInv'
    BY <1>1, <2>1 DEF TxInv, Charged
  <2> QED BY <1>3, <2>3, <2>4, <2>5 DEF LineInv
<1> QED BY <1>5, <1>6

\* What is in a transaction is in the batch of its replica, or is the one
\* record of a charge that its name tells.
LEMMA InsertedRecords ==
    ASSUME PipeInv, NEW o \in Owners, NEW x \in ToSet(tx[o].recs)
    PROVE  /\ x \in made
           /\ o \in Replicas => /\ x \in ToSet(batch[o]) /\ x.by = o /\ ~x.limited
           /\ o \in Ids => x.id = o /\ x.limited /\ x \notin logs /\ tx[o].recs = <<x>>
<1> USE DEF PipeInv
<1>1. CASE o \in Replicas
  <2>1. tx[o].recs = batch[o]
    BY <1>1, ElementsOfNone, IdleTransaction DEF TxInv
  <2>2. LineOf(o, queue[o], batch[o]) /\ o \notin Ids
    BY <1>1, OwnerAssumption DEF LineInv
  <2> QED BY <1>1, <2>1, <2>2, ElementsIn DEF LineOf
<1>2. CASE o \in Ids
  <2>1. Charged(o, tx[o].recs) /\ tx[o].recs # <<>>
    BY <1>2, ElementsOfNone DEF TxInv
  <2>2. PICK y \in made : y.id = o /\ y.limited /\ y \notin logs /\ tx[o].recs = <<y>>
    BY <2>1 DEF Charged
  <2>3. x = y /\ o \notin Replicas
    BY <1>2, <2>2, ElementsOfOne, OwnerAssumption
  <2> QED BY <2>2, <2>3
<1> QED BY <1>1, <1>2 DEF Owners

\* A batch is handed to a transaction that may begin.
LEMMA BeginShape ==
    ASSUME ShapeInv, NEW r \in Replicas, NEW recs \in Seq(Record), Begin(r, recs)
    PROVE  /\ tx' \in [Owners -> Transaction] /\ \A o \in Owners : tx'[o].stmts = Statements(tx'[o].recs)
           /\ tx'[r].recs = recs /\ \A o \in Owners \ {r} : tx'[o] = tx[o]
<1> DEFINE t == [recs |-> recs, stmts |-> Statements(recs), done |-> 0]
<1>1. tx' = [tx EXCEPT ![r] = t] /\ t \in Transaction /\ t.stmts = Statements(t.recs)
  BY IdleTransaction DEF Begin
<1>2. t.recs = recs
  OBVIOUS
<1>3. r \in Owners
  BY DEF Owners
<1> HIDE DEF t
<1>4. tx' \in [Owners -> Transaction]
  BY <1>1 DEF ShapeInv
<1>5. tx'[r] = t /\ \A o \in Owners \ {r} : tx'[o] = tx[o]
  BY <1>1, <1>3 DEF ShapeInv
<1> QED BY <1>1, <1>2, <1>4, <1>5 DEF ShapeInv

\* What the writer takes is the oldest of the queue, and newer than its batch.
LEMMA TakeKeeps == ASSUME PipeInv, NEW r \in Replicas, Take(r) PROVE PipeInv'
<1> USE DEF PipeInv
<1>1. /\ queue[r] # <<>> /\ queue' = [queue EXCEPT ![r] = Tail(@)]
      /\ batch' = [batch EXCEPT ![r] = Append(@, Head(queue[r]))]
      /\ tx[r] = Idle
      /\ Begin(r, batch'[r]) \/ UNCHANGED tx
      /\ UNCHANGED <<todo, made, logs>>
  BY DEF Take, tables
<1> DEFINE h == Head(queue[r])
<1>2. LineOf(r, queue[r], batch[r])
  BY DEF LineInv
<1>3. /\ queue'[r] = Tail(queue[r]) /\ batch'[r] = Append(batch[r], h)
      /\ \A q \in Replicas \ {r} : queue'[q] = queue[q] /\ batch'[q] = batch[q]
  BY <1>1 DEF ShapeInv
<1>4. /\ Tail(queue[r]) \in Seq(made) /\ h \in made
      /\ ToSet(queue[r]) = {h} \union ToSet(Tail(queue[r]))
      /\ Ascends(Tail(queue[r])) /\ \A y \in ToSet(Tail(queue[r])) : h.id < y.id
  BY <1>1, <1>2, TailElements DEF LineOf
<1>5. /\ Append(batch[r], h) \in Seq(made) /\ ToSet(Append(batch[r], h)) = ToSet(batch[r]) \union {h}
      /\ Ascends(Append(batch[r], h))
  <2>1. \A y \in ToSet(batch[r]) : y.id < h.id
    BY <1>2, <1>4 DEF LineOf
  <2> QED BY <1>2, <1>4, <2>1, AppendElements DEF LineOf
<1>6. Tail(queue[r]) \in Seq(Record) /\ Append(batch[r], h) \in Seq(Record)
  BY <1>4, <1>5, SeqGrows DEF MadeInv
<1>7. LineInv'
  <2>1. LineOf(r, queue[r], batch[r])'
    BY <1>1, <1>2, <1>3, <1>4, <1>5 DEF LineOf
  <2>2. ASSUME NEW q \in Replicas \ {r} PROVE LineOf(q, queue[q], batch[q])'
    BY <1>1, <1>3 DEF LineOf, LineInv
  <2> QED BY <2>1, <2>2 DEF LineInv
<1>8. ShapeInv' /\ (tx'[r] = Idle \/ tx'[r].recs = batch'[r]) /\ \A o \in Owners \ {r} : tx'[o] = tx[o]
  <2>1. queue' \in [Replicas -> Seq(Record)] /\ batch' \in [Replicas -> Seq(Record)]
    BY <1>1, <1>6 DEF ShapeInv
  <2>2. CASE Begin(r, batch'[r])
    <3>1. batch'[r] \in Seq(Record)
      BY <2>1
    <3> QED BY <2>1, <2>2, <3>1, BeginShape DEF ShapeInv
  <2>3. CASE UNCHANGED tx
    BY <1>1, <2>1, <2>3, IdleTransaction DEF ShapeInv
  <2> QED BY <1>1, <2>2, <2>3
<1>9. TxInv'
  <2>1. \A q \in Replicas \ {r} : q \in Owners \ {r}
    BY DEF Owners
  <2>2. \A i \in Ids : i \in Owners \ {r}
    BY OwnerAssumption DEF Owners
  <2>3. \A q \in Replicas : tx'[q] = Idle \/ tx'[q].recs = batch'[q]
    BY <1>3, <1>8, <2>1 DEF TxInv
  <2>4. ASSUME NEW i \in Ids PROVE Charged(i, tx[i].recs)'
    <3>1. tx'[i] = tx[i] /\ Charged(i, tx[i].recs)
      BY <1>8, <2>2 DEF TxInv
    <3> QED BY <1>1, <3>1 DEF Charged
  <2> QED BY <2>3, <2>4 DEF TxInv
<1>10. MadeInv'
  BY <1>1 DEF MadeInv
<1> QED BY <1>7, <1>8, <1>9, <1>10

\* The tick opens a transaction for the batch as it is.
LEMMA FlushKeeps == ASSUME PipeInv, NEW r \in Replicas, FlushTick(r) PROVE PipeInv'
<1> USE DEF PipeInv
<1>1. Begin(r, batch[r]) /\ UNCHANGED <<todo, made, queue, batch, logs>> /\ batch[r] \in Seq(Record)
  BY DEF FlushTick, tables, ShapeInv
<1>2. /\ tx' \in [Owners -> Transaction] /\ \A o \in Owners : tx'[o].stmts = Statements(tx'[o].recs)
      /\ tx'[r].recs = batch[r] /\ \A o \in Owners \ {r} : tx'[o] = tx[o]
  BY <1>1, BeginShape
<1>3. ShapeInv'
  BY <1>1, <1>2 DEF ShapeInv
<1>4. TxInv'
  <2>1. \A q \in Replicas \ {r} : q \in Owners \ {r}
    BY DEF Owners
  <2>2. \A i \in Ids : i \in Owners \ {r}
    BY OwnerAssumption DEF Owners
  <2> QED BY <1>1, <1>2, <2>1, <2>2 DEF TxInv, Charged
<1>5. MadeInv' /\ LineInv'
  BY <1>1 DEF MadeInv, LineInv, LineOf
<1> QED BY <1>3, <1>4, <1>5

\* A statement changes no queue, batch or log.
LEMMA ExecuteKeeps == ASSUME PipeInv, NEW o \in Owners, Execute(o) PROVE PipeInv'
<1> USE DEF PipeInv
<1>1. tx' = [tx EXCEPT ![o].done = @ + 1] /\ UNCHANGED <<todo, made, queue, batch, logs>>
  BY DEF Execute, tables
<1>2. /\ tx' \in [Owners -> Transaction]
      /\ \A p \in Owners : tx'[p].recs = tx[p].recs /\ tx'[p].stmts = tx[p].stmts
  <2>1. tx \in [Owners -> Transaction] /\ tx[o] \in Transaction
    BY DEF ShapeInv
  <2> DEFINE t == [tx[o] EXCEPT !.done = @ + 1]
  <2>2. t \in Transaction /\ t.recs = tx[o].recs /\ t.stmts = tx[o].stmts
    <3>1. /\ tx[o].recs \in Seq(Record) /\ tx[o].stmts \in {Statements(s) : s \in Seq(Record)}
          /\ tx[o].done \in Nat /\ tx[o].done + 1 \in Nat
          /\ t = [recs |-> tx[o].recs, stmts |-> tx[o].stmts, done |-> tx[o].done + 1]
      <4> DEFINE S == {Statements(s) : s \in Seq(Record)}
                 x == tx[o]
      <4>1. x \in [recs : Seq(Record), stmts : S, done : Nat]
        BY <2>1 DEF Transaction
      <4>2. /\ x.recs \in Seq(Record) /\ x.stmts \in S /\ x.done \in Nat
            /\ x = [recs |-> x.recs, stmts |-> x.stmts, done |-> x.done]
        <5> HIDE DEF S, x
        <5> QED BY <4>1
      <4>3. [x EXCEPT !.done = @ + 1] = [recs |-> x.recs, stmts |-> x.stmts, done |-> x.done + 1]
        <5> HIDE DEF S, x
        <5> QED BY <4>2
      <4>4. x.done + 1 \in Nat
        BY <4>2
      <4> QED BY <4>2, <4>3, <4>4
    <3> DEFINE recs == tx[o].recs
               stmts == tx[o].stmts
               done == tx[o].done + 1
    <3>2. /\ recs \in Seq(Record) /\ stmts \in {Statements(s) : s \in Seq(Record)}
          /\ done \in Nat /\ t = [recs |-> recs, stmts |-> stmts, done |-> done]
      BY <3>1
    <3>3. t \in Transaction
      <4> HIDE DEF t, recs, stmts, done
      <4> QED BY <3>2 DEF Transaction
    <3>4. t.recs = tx[o].recs /\ t.stmts = tx[o].stmts
      <4> HIDE DEF t
      <4> QED BY <3>1
    <3> QED BY <3>3, <3>4
  <2>3. tx' = [tx EXCEPT ![o] = t]
    BY <1>1
  <2> HIDE DEF t
  <2> QED BY <2>1, <2>2, <2>3
<1>3. ShapeInv'
  BY <1>1, <1>2 DEF ShapeInv
<1>5. TxInv'
  <2>1. tx[o] # Idle /\ \A p \in Owners \ {o} : tx'[p] = tx[p]
    BY <1>1 DEF Execute, ShapeInv
  <2>2. ASSUME NEW r \in Replicas PROVE tx'[r] = Idle \/ tx'[r].recs = batch'[r]
    BY <1>1, <1>2, <2>1 DEF TxInv, Owners
  <2>3. ASSUME NEW i \in Ids PROVE Charged(i, tx[i].recs)'
    BY <1>1, <1>2 DEF TxInv, Charged, Owners
  <2> QED BY <2>2, <2>3 DEF TxInv
<1>4. MadeInv' /\ LineInv'
  BY <1>1 DEF MadeInv, LineInv, LineOf
<1> QED BY <1>3, <1>4, <1>5

\* A transaction ends, with or without its records in the logs.
LEMMA EndKeeps ==
    ASSUME PipeInv, NEW o \in Owners, End(o),
           logs' = logs \/ logs' = logs \union ToSet(tx[o].recs)
    PROVE  PipeInv'
<1> USE DEF PipeInv
<1> DEFINE new == ToSet(tx[o].recs)
<1>0. logs' \subseteq logs \union new /\ UNCHANGED <<todo, made, queue>>
  BY DEF End
<1>1. \A x \in new : /\ x \in made
                     /\ o \in Replicas => x \in ToSet(batch[o]) /\ x.by = o /\ ~x.limited
                     /\ o \in Ids => x.id = o /\ x.limited
  BY InsertedRecords
<1> HIDE DEF new
<1>2. tx' = [tx EXCEPT ![o] = Idle] /\ batch' = IF o \in Replicas THEN [batch EXCEPT ![o] = <<>>] ELSE batch
  BY DEF End
<1>3. MadeInv'
  BY <1>0, <1>1 DEF MadeInv
<1>4. ShapeInv'
  BY <1>0, <1>2, IdleTransaction DEF ShapeInv
<1>5. ASSUME NEW r \in Replicas PROVE LineOf(r, queue[r], batch[r])'
  <2>1. LineOf(r, queue[r], batch[r])
    BY DEF LineInv
  <2>2. CASE r = o
    <3>1. batch'[r] = <<>> /\ queue'[r] = queue[r]
      BY <1>0, <1>2, <2>2 DEF ShapeInv
    <3>2. \A x \in ToSet(queue[r]), y \in new : y.id < x.id
      BY <1>1, <2>1, <2>2 DEF LineOf
    <3> QED BY <1>0, <2>1, <3>1, <3>2, ElementsOfNone DEF LineOf
  <2>3. CASE r # o
    <3>1. batch'[r] = batch[r] /\ queue'[r] = queue[r]
      BY <1>0, <1>2, <2>3 DEF ShapeInv
    <3>2. \A y \in new : y.by # r \/ y.limited
      BY <1>1, <2>3 DEF Owners
    <3> QED BY <1>0, <2>1, <3>1, <3>2 DEF LineOf
  <2> QED BY <2>2, <2>3
<1>6. TxInv'
  <2>1. tx'[o] = Idle /\ tx'[o].recs = <<>> /\ \A p \in Owners \ {o} : tx'[p] = tx[p]
    BY <1>2, IdleTransaction DEF ShapeInv
  <2>2. ASSUME NEW r \in Replicas PROVE tx'[r] = Idle \/ tx'[r].recs = batch'[r]
    <3>1. r # o => tx'[r] = tx[r] /\ batch'[r] = batch[r]
      BY <1>2, <2>1 DEF Owners, ShapeInv
    <3> QED BY <2>1, <3>1 DEF TxInv
  <2>3. ASSUME NEW i \in Ids, i # o PROVE Charged(i, tx[i].recs)'
    <3>1. tx'[i] = tx[i] /\ Charged(i, tx[i].recs)
      BY <2>1, <2>3 DEF Owners, TxInv
    <3>2. \A x \in new : x.id # i \/ ~x.limited
      BY <1>1, <2>3 DEF Owners
    <3> QED BY <1>0, <3>1, <3>2 DEF Charged
  <2>4. o \in Ids => Charged(o, tx[o].recs)'
    BY <2>1 DEF Charged
  <2> QED BY <2>2, <2>3, <2>4 DEF TxInv
<1> QED BY <1>3, <1>4, <1>5, <1>6 DEF LineInv

\* A crash empties queue and batch and closes the transactions of the replica.
LEMMA CrashKeeps == ASSUME PipeInv, NEW r \in Replicas, Crash(r) PROVE PipeInv'
<1> USE DEF PipeInv
<1>1. /\ queue' = [queue EXCEPT ![r] = <<>>] /\ batch' = [batch EXCEPT ![r] = <<>>]
      /\ UNCHANGED <<todo, made, logs>>
  BY DEF Crash, tables
<1>2. /\ DOMAIN tx' = Owners /\ tx' = [o \in Owners |-> tx'[o]]
      /\ \A o \in Owners : tx'[o] \in {tx[o], Idle}
      /\ tx'[r] = Idle
  BY DEF Crash, Owners
<1>3. ShapeInv'
  <2>1. queue' \in [Replicas -> Seq(Record)] /\ batch' \in [Replicas -> Seq(Record)]
    BY <1>1 DEF ShapeInv
  <2>2. tx' \in [Owners -> Transaction]
    BY <1>2, IdleTransaction DEF ShapeInv
  <2>3. \A o \in Owners : tx'[o].stmts = Statements(tx'[o].recs)
    BY <1>2, IdleTransaction DEF ShapeInv
  <2> QED BY <2>1, <2>2, <2>3 DEF ShapeInv
<1>4. MadeInv'
  BY <1>1 DEF MadeInv
<1>5. ASSUME NEW q \in Replicas PROVE LineOf(q, queue[q], batch[q])'
  <2>1. LineOf(q, queue[q], batch[q])
    BY DEF LineInv
  <2>2. CASE q = r
    <3>1. queue'[q] = <<>> /\ batch'[q] = <<>>
      BY <1>1, <2>2 DEF ShapeInv
    <3> QED BY <3>1, ElementsOfNone DEF LineOf
  <2>3. CASE q # r
    BY <1>1, <2>1, <2>3 DEF LineOf, ShapeInv
  <2> QED BY <2>2, <2>3
<1>6. TxInv'
  <2>1. ASSUME NEW q \in Replicas PROVE tx'[q] = Idle \/ tx'[q].recs = batch'[q]
    <3>1. q # r => batch'[q] = batch[q]
      BY <1>1 DEF ShapeInv
    <3> QED BY <1>2, <3>1, IdleTransaction DEF TxInv, Owners
  <2>2. ASSUME NEW i \in Ids PROVE Charged(i, tx[i].recs)'
    BY <1>1, <1>2, IdleTransaction DEF TxInv, Charged, Owners
  <2> QED BY <2>1, <2>2 DEF TxInv
<1> QED BY <1>3, <1>4, <1>5, <1>6 DEF LineInv

\* PipeInv is inductive.
LEMMA StepPipe == PipeInv /\ [Next]_vars => PipeInv'
<1> SUFFICES ASSUME PipeInv, [Next]_vars PROVE PipeInv'
  OBVIOUS
<1>1. ASSUME NEW o \in Owners, Execute(o) \/ Commit(o) \/ Fail(o) \/ AbortDeadlocked(o) PROVE PipeInv'
  <2>1. CASE Execute(o)
    BY <2>1, ExecuteKeeps
  <2>2. CASE Commit(o)
    BY <2>2, EndKeeps DEF Commit
  <2>3. CASE Fail(o) \/ AbortDeadlocked(o)
    BY <2>3, EndKeeps DEF Fail, AbortDeadlocked, tables
  <2> QED BY <1>1, <2>1, <2>2, <2>3
<1>2. ASSUME NEW r \in Replicas, RecordUsage(r) \/ Take(r) \/ FlushTick(r) \/ Crash(r) PROVE PipeInv'
  BY <1>2, RecordKeeps, TakeKeeps, FlushKeeps, CrashKeeps
<1>3. CASE ReadUsage \/ Done \/ UNCHANGED vars
  <2>1. UNCHANGED <<todo, made, queue, batch, tx, logs>>
    BY <1>3 DEF ReadUsage, Done, vars, mem, tables
  <2> QED BY <2>1 DEF PipeInv, MadeInv, ShapeInv, LineInv, LineOf, TxInv, Charged
<1> QED BY <1>1, <1>2, <1>3 DEF Next

\* The invariant that every theorem about the pipeline rests on.
LEMMA PipeInvariant == Spec => []PipeInv
BY InitPipe, StepPipe, PTL DEF Spec

-----------------------------------------------------------------------------
(* The order of the records                                                *)

\* Where a record on its way is.
LEMMA InFlightRecords ==
    \A x : x \in InFlight <=> \/ \E r \in Replicas : x \in ToSet(queue[r]) \union ToSet(batch[r])
                             \/ \E o \in Owners : x \in ToSet(tx[o].recs)
<1> DEFINE lines == {ToSet(queue[r]) \union ToSet(batch[r]) : r \in Replicas}
           open == {ToSet(tx[o].recs) : o \in Owners}
<1>1. InFlight = (UNION lines) \union (UNION open)
  BY DEF InFlight
<1>2. ASSUME NEW x
      PROVE  /\ (x \in UNION lines) <=> \E r \in Replicas : x \in ToSet(queue[r]) \union ToSet(batch[r])
             /\ (x \in UNION open) <=> \E o \in Owners : x \in ToSet(tx[o].recs)
  OBVIOUS
<1>3. \A x : x \in InFlight <=> x \in UNION lines \/ x \in UNION open
  <2> HIDE DEF lines, open
  <2> QED BY <1>1
<1> QED BY <1>2, <1>3, Zenon

\* InFlightIs of the next state.
LEMMA InFlightNext ==
    (\A x : x \in InFlight <=> \/ \E r \in Replicas : x \in ToSet(queue[r]) \union ToSet(batch[r])
                              \/ \E o \in Owners : x \in ToSet(tx[o].recs))'
BY InFlightRecords, PTL

\* Of two queued records of a replica, the later never reaches the logs while
\* the earlier is on its way: batches are taken from the front of the queue
\* and one is inserted at a time (recordUsage, usageWriter).
THEOREM RecordsInOrder == Spec => []OrderKept
<1>1. PipeInv => OrderKept
  <2> SUFFICES ASSUME PipeInv, NEW x \in InFlight, NEW y \in logs, x.by = y.by, x.id < y.id,
                      ~x.limited, ~y.limited
               PROVE  FALSE
    BY DEF OrderKept
  <2>1. \E r \in Replicas : x \in ToSet(queue[r]) \union ToSet(batch[r])
    <3>1. ASSUME NEW o \in Owners, x \in ToSet(tx[o].recs)
          PROVE  \E r \in Replicas : x \in ToSet(queue[r]) \union ToSet(batch[r])
      BY <3>1, InsertedRecords DEF Owners
    <3>2. \/ \E r \in Replicas : x \in ToSet(queue[r]) \union ToSet(batch[r])
          \/ \E o \in Owners : x \in ToSet(tx[o].recs)
      BY InFlightRecords
    <3> QED BY <3>1, <3>2
  <2>2. PICK r \in Replicas : x \in ToSet(queue[r]) \union ToSet(batch[r])
    BY <2>1
  <2>3. x.by = r /\ y.id < x.id
    BY <2>2 DEF PipeInv, LineInv, LineOf
  <2>4. x.id \in Nat /\ y.id \in Nat
    <3>1. x \in made /\ y \in made
      BY <2>2, ElementsIn DEF PipeInv, LineInv, LineOf, MadeInv
    <3> QED BY <3>1, FS_CardinalityType DEF PipeInv, MadeInv
  <2> QED BY <2>3, <2>4
<1> QED BY <1>1, PipeInvariant, PTL

-----------------------------------------------------------------------------
(* The pipeline implements the book                                        *)

Ided(S) == {rec.id : rec \in S}
Lost == made \ (logs \union InFlight)

\* A record that is in the logs is on its way no more.
LEMMA InFlightApart ==
    PipeInv => /\ InFlight \subseteq made /\ logs \subseteq made
               /\ InFlight \intersect logs = {}
               /\ \A x, y \in made : x.id = y.id => x = y
<1> SUFFICES ASSUME PipeInv
             PROVE  /\ InFlight \subseteq made /\ logs \subseteq made
                    /\ InFlight \intersect logs = {}
                    /\ \A x, y \in made : x.id = y.id => x = y
  OBVIOUS
<1>1. ASSUME NEW r \in Replicas, NEW x \in ToSet(queue[r]) \union ToSet(batch[r])
      PROVE  x \in made /\ x \notin logs
  <2>1. /\ x \in made /\ x.by = r /\ ~x.limited
        /\ \A y \in logs : y.by = r /\ ~y.limited => y.id < x.id
    BY <1>1, ElementsIn DEF PipeInv, LineInv, LineOf
  <2>2. ~(x.id < x.id)
    BY <2>1, FS_CardinalityType DEF PipeInv, MadeInv
  <2> QED BY <2>1, <2>2
<1>2. ASSUME NEW o \in Owners, NEW x \in ToSet(tx[o].recs) PROVE x \in made /\ x \notin logs
  BY <1>1, <1>2, InsertedRecords DEF Owners
<1>3. InFlight \subseteq made /\ InFlight \intersect logs = {}
  BY <1>1, <1>2, InFlightRecords
<1> QED BY <1>3 DEF PipeInv, MadeInv

\* A record is made, and is on its way or lost at once.
LEMMA MakesOne ==
    ASSUME PipeInv, NEW rec, rec.id \in Ids, \A x \in made : x.id # rec.id,
           made' = made \union {rec}, logs' = logs,
           InFlight' = InFlight \/ InFlight' = InFlight \union {rec}
    PROVE  Book!Next
<1>1. Ided(made') = Ided(made) \union {rec.id} /\ rec.id \notin Ided(made) /\ Ided(logs') = Ided(logs)
  BY DEF Ided
<1>2. rec \notin made
  OBVIOUS
<1>3. Lost' = Lost \/ Lost' = Lost \union {rec}
  BY <1>2, InFlightApart DEF Lost
<1>4. Ided(Lost') \in {Ided(Lost), Ided(Lost) \union {rec.id}}
  BY <1>3 DEF Ided
<1>5. Book!Make
  BY <1>1, <1>4 DEF Book!Make, Ided, Lost
<1> QED BY <1>5 DEF Book!Next

\* Records that were on their way are in the logs.
LEMMA CountsSome ==
    ASSUME PipeInv, NEW R, R \subseteq InFlight,
           made' = made, logs' = logs \union R, InFlight' \union R = InFlight
    PROVE  [Book!Next]_Book!vars
<1>1. Ided(made') = Ided(made) /\ Ided(logs') = Ided(logs) \union Ided(R)
  BY DEF Ided
<1>2. Lost' = Lost
  BY DEF Lost
<1>3. Ided(R) \in SUBSET (Ided(made) \ (Ided(logs) \union Ided(Lost)))
  <2> SUFFICES ASSUME NEW x \in R
               PROVE  x.id \in Ided(made) /\ x.id \notin Ided(logs) /\ x.id \notin Ided(Lost)
    BY DEF Ided
  <2> QED BY InFlightApart DEF Ided, Lost
<1>4. CASE Ided(R) = {}
  BY <1>1, <1>2, <1>4 DEF Book!vars, Ided, Lost
<1>5. CASE Ided(R) # {}
  <2>1. Book!Count
    BY <1>1, <1>2, <1>3, <1>5 DEF Book!Count, Book!Undecided, Ided, Lost
  <2> QED BY <2>1 DEF Book!Next
<1> QED BY <1>4, <1>5

\* Records that were on their way are lost.
LEMMA LosesSome ==
    ASSUME PipeInv, made' = made, logs' = logs, InFlight' \subseteq InFlight
    PROVE  [Book!Next]_Book!vars
<1> DEFINE R == InFlight \ InFlight'
<1>1. Ided(made') = Ided(made) /\ Ided(logs') = Ided(logs)
  BY DEF Ided
<1>2. Lost' = Lost \union R
  BY InFlightApart DEF Lost
<1>3. Ided(R) \in SUBSET (Ided(made) \ (Ided(logs) \union Ided(Lost)))
  <2> SUFFICES ASSUME NEW x \in R
               PROVE  x.id \in Ided(made) /\ x.id \notin Ided(logs) /\ x.id \notin Ided(Lost)
    BY DEF Ided
  <2> QED BY InFlightApart DEF Ided, Lost
<1>4. Ided(Lost') = Ided(Lost) \union Ided(R)
  BY <1>2 DEF Ided
<1> HIDE DEF R
<1>5. CASE Ided(R) = {}
  BY <1>1, <1>4, <1>5 DEF Book!vars, Ided, Lost
<1>6. CASE Ided(R) # {}
  <2>1. Book!Lose
    BY <1>1, <1>3, <1>4, <1>6 DEF Book!Lose, Book!Undecided, Ided, Lost
  <2> QED BY <2>1 DEF Book!Next
<1> QED BY <1>5, <1>6

\* The record of a request that ends enters the book, undecided or lost.
LEMMA RecordMakes == ASSUME PipeInv, NEW r \in Replicas, RecordUsage(r) PROVE Book!Next
<1> DEFINE id == Cardinality(made) + 1
<1>0. PICK spills \in Spills(Head(todo)) : RecordedAs(r, Numbered(Head(todo), id, spills))
  BY RecordsOne
<1> DEFINE rec == Numbered(Head(todo), id, spills)
<1>1. /\ todo # <<>> /\ made' = made \union {rec} /\ UNCHANGED <<batch, logs>>
      /\ \/ Begin(id, <<rec>>) /\ UNCHANGED queue
         \/ /\ UNCHANGED tx
            /\ queue' = IF Len(queue[r]) < QueueCap
                        THEN [queue EXCEPT ![r] = Append(@, rec)] ELSE queue
  <2> HIDE DEF id, rec
  <2> QED BY <1>0, RecordsOne DEF RecordedAs, id, rec
<1>2. id \in Ids /\ rec \in Record /\ rec.id = id /\ \A x \in made : x.id < id
  <2> HIDE DEF id, rec
  <2> QED BY <1>1, NextRecord DEF PipeInv, id, rec
<1>3. id \in Nat
  BY FS_CardinalityType DEF PipeInv, MadeInv
<1> HIDE DEF id, rec
<1>4. \A x \in made : x.id # rec.id
  BY <1>2, <1>3
<1>5. InFlight' = InFlight \/ InFlight' = InFlight \union {rec}
  <2>1. CASE Begin(id, <<rec>>) /\ UNCHANGED queue
    <3>1. id \in Owners /\ tx' = [tx EXCEPT ![id] = [recs |-> <<rec>>, stmts |-> Statements(<<rec>>), done |-> 0]]
      BY <1>2, <2>1 DEF Begin, Owners
    <3>2. /\ ToSet(tx'[id].recs) = {rec} /\ \A o \in Owners \ {id} : tx'[o] = tx[o]
      BY <3>1, ElementsOfOne DEF PipeInv, ShapeInv
    <3>3. ToSet(tx[id].recs) = {}
      BY <1>2, <1>4, InsertedRecords, <3>1
    <3>4. \A x : (\E o \in Owners : x \in ToSet(tx'[o].recs)) <=> x = rec \/ \E o \in Owners : x \in ToSet(tx[o].recs)
      BY <3>1, <3>2, <3>3
    <3>5. \A x : x \in InFlight' <=> x \in InFlight \/ x = rec
      BY <1>1, <2>1, <3>4, InFlightRecords, InFlightNext
    <3> QED BY <3>5
  <2>2. CASE UNCHANGED tx /\ queue' = queue
    BY <1>1, <2>2 DEF InFlight
  <2>3. CASE UNCHANGED tx /\ queue' = [queue EXCEPT ![r] = Append(@, rec)]
    <3>1. /\ ToSet(queue'[r]) = ToSet(queue[r]) \union {rec} /\ \A q \in Replicas \ {r} : queue'[q] = queue[q]
      BY <1>2, <2>3, AppendElements DEF PipeInv, ShapeInv
    <3>2. \A x : x \in InFlight' <=> x \in InFlight \/ x = rec
      BY <1>1, <2>3, <3>1, InFlightRecords, InFlightNext
    <3> QED BY <3>2
  <2> QED BY <1>1, <2>1, <2>2, <2>3
<1> QED BY <1>1, <1>2, <1>4, <1>5, MakesOne

\* The writer's steps leave the records on their way where they are.
LEMMA WriterKeepsAll ==
    ASSUME PipeInv, NEW r \in Replicas, Take(r) \/ FlushTick(r)
    PROVE  made' = made /\ logs' = logs /\ InFlight' = InFlight
<1>1. /\ UNCHANGED <<made, logs>>
      /\ \A q \in Replicas : ToSet(queue'[q]) \union ToSet(batch'[q]) = ToSet(queue[q]) \union ToSet(batch[q])
      /\ \A o \in Owners \ {r} : tx'[o] = tx[o]
      /\ tx'[r].recs \in {tx[r].recs, batch'[r]}
      /\ ToSet(tx[r].recs) \subseteq ToSet(batch[r])
  <2>0. ToSet(tx[r].recs) \subseteq ToSet(batch[r])
    BY ElementsOfNone, IdleTransaction DEF PipeInv, TxInv
  <2>1. CASE Take(r)
    <3> DEFINE h == Head(queue[r])
    <3>1. /\ queue[r] # <<>> /\ queue' = [queue EXCEPT ![r] = Tail(@)]
          /\ batch' = [batch EXCEPT ![r] = Append(@, h)]
          /\ Begin(r, batch'[r]) \/ UNCHANGED tx
          /\ UNCHANGED <<made, logs>>
      BY <2>1 DEF Take, tables
    <3>2. /\ ToSet(queue[r]) = {h} \union ToSet(Tail(queue[r])) /\ h \in Record
          /\ ToSet(Append(batch[r], h)) = ToSet(batch[r]) \union {h} /\ Append(batch[r], h) \in Seq(Record)
      <4>1. queue[r] \in Seq(Record) /\ batch[r] \in Seq(Record)
        BY DEF PipeInv, ShapeInv
      <4>2. ToSet(queue[r]) = {h} \union ToSet(Tail(queue[r])) /\ h \in Record
        BY <3>1, <4>1, TailElements
      <4> QED BY <4>1, <4>2, AppendElements
    <3>3. /\ queue'[r] = Tail(queue[r]) /\ batch'[r] = Append(batch[r], h)
          /\ \A q \in Replicas \ {r} : queue'[q] = queue[q] /\ batch'[q] = batch[q]
      BY <3>1 DEF PipeInv, ShapeInv
    <3>4. /\ \A o \in Owners \ {r} : tx'[o] = tx[o]
          /\ tx'[r].recs \in {tx[r].recs, batch'[r]}
      BY <3>1, <3>2, <3>3, BeginShape DEF PipeInv
    <3> QED BY <2>0, <3>1, <3>2, <3>3, <3>4
  <2>2. CASE FlushTick(r)
    <3>1. Begin(r, batch[r]) /\ UNCHANGED <<made, queue, batch, logs>> /\ batch[r] \in Seq(Record)
      BY <2>2 DEF FlushTick, tables, PipeInv, ShapeInv
    <3> QED BY <2>0, <3>1, BeginShape DEF PipeInv
  <2> QED BY <2>1, <2>2
<1>2. \A x : x \in InFlight' <=> x \in InFlight
  <2>1. ASSUME NEW x, x \in InFlight' PROVE x \in InFlight
    <3>1. CASE \E q \in Replicas : x \in ToSet(queue'[q]) \union ToSet(batch'[q])
      BY <1>1, <3>1, InFlightRecords
    <3>2. CASE \E o \in Owners : x \in ToSet(tx'[o].recs)
      <4>1. PICK o \in Owners : x \in ToSet(tx'[o].recs)
        BY <3>2
      <4>2. x \in ToSet(tx[o].recs) \/ x \in ToSet(batch'[r])
        BY <1>1, <4>1
      <4>3. x \in ToSet(batch'[r]) => x \in ToSet(queue[r]) \union ToSet(batch[r])
        BY <1>1
      <4> QED BY <4>2, <4>3, InFlightRecords
    <3> QED BY <2>1, <3>1, <3>2, InFlightNext
  <2>2. ASSUME NEW x, x \in InFlight PROVE x \in InFlight'
    <3>1. CASE \E q \in Replicas : x \in ToSet(queue[q]) \union ToSet(batch[q])
      BY <1>1, <3>1, InFlightNext
    <3>2. CASE \E o \in Owners : x \in ToSet(tx[o].recs)
      <4>1. PICK o \in Owners : x \in ToSet(tx[o].recs)
        BY <3>2
      <4>2. x \in ToSet(tx'[o].recs) \/ x \in ToSet(queue'[r]) \union ToSet(batch'[r])
        BY <1>1, <4>1
      <4> QED BY <4>1, <4>2, InFlightNext
    <3> QED BY <2>2, <3>1, <3>2, InFlightRecords
  <2> QED BY <2>1, <2>2
<1> QED BY <1>1, <1>2

\* The end of a transaction takes its records off their way, and no others.
LEMMA EndTakesOwn ==
    ASSUME PipeInv, NEW o \in Owners, tx[o] # Idle, End(o)
    PROVE  /\ made' = made /\ ToSet(tx[o].recs) \subseteq InFlight
           /\ InFlight' \union ToSet(tx[o].recs) = InFlight
<1>1. /\ tx' = [tx EXCEPT ![o] = Idle] /\ UNCHANGED <<made, queue>>
      /\ batch' = IF o \in Replicas THEN [batch EXCEPT ![o] = <<>>] ELSE batch
  BY DEF End
<1> DEFINE own == ToSet(tx[o].recs)
<1>2. ToSet(tx'[o].recs) = {} /\ \A p \in Owners \ {o} : tx'[p] = tx[p]
  BY <1>1, IdleTransaction, ElementsOfNone DEF PipeInv, ShapeInv
<1>3. \A q \in Replicas : batch'[q] = batch[q] \/ (ToSet(batch'[q]) = {} /\ ToSet(batch[q]) = own)
  <2> SUFFICES ASSUME NEW q \in Replicas, batch'[q] # batch[q]
               PROVE  ToSet(batch'[q]) = {} /\ ToSet(batch[q]) = own
    OBVIOUS
  <2>1. q = o /\ batch'[q] = <<>>
    BY <1>1 DEF PipeInv, ShapeInv
  <2> QED BY <2>1, ElementsOfNone DEF PipeInv, TxInv
<1>4. own \subseteq InFlight
  BY InFlightRecords
<1> HIDE DEF own
<1>5. InFlight' \subseteq InFlight
  <2> SUFFICES ASSUME NEW x, x \in InFlight' PROVE x \in InFlight
    OBVIOUS
  <2>1. CASE \E q \in Replicas : x \in ToSet(queue'[q]) \union ToSet(batch'[q])
    BY <1>1, <1>3, <2>1, InFlightRecords
  <2>2. CASE \E p \in Owners : x \in ToSet(tx'[p].recs)
    BY <1>2, <2>2, InFlightRecords
  <2> QED BY <2>1, <2>2, InFlightNext
<1>6. InFlight \subseteq InFlight' \union own
  <2> SUFFICES ASSUME NEW x, x \in InFlight, x \notin own PROVE x \in InFlight'
    OBVIOUS
  <2>1. CASE \E q \in Replicas : x \in ToSet(queue[q]) \union ToSet(batch[q])
    BY <1>1, <1>3, <2>1, InFlightNext
  <2>2. CASE \E p \in Owners : x \in ToSet(tx[p].recs)
    <3>1. PICK p \in Owners : x \in ToSet(tx[p].recs)
      BY <2>2
    <3>2. p # o
      BY <3>1 DEF own
    <3> QED BY <1>2, <3>1, <3>2, InFlightNext
  <2> QED BY <2>1, <2>2, InFlightRecords
<1> QED BY <1>1, <1>4, <1>5, <1>6 DEF own

\* A crash only takes records out of flight.
LEMMA CrashLoses == ASSUME PipeInv, NEW r \in Replicas, Crash(r)
                    PROVE  made' = made /\ logs' = logs /\ InFlight' \subseteq InFlight
<1>1. /\ UNCHANGED <<made, logs>>
      /\ \A q \in Replicas : queue'[q] = queue[q] \/ queue'[q] = <<>>
      /\ \A q \in Replicas : batch'[q] = batch[q] \/ batch'[q] = <<>>
      /\ \A o \in Owners : tx'[o] = tx[o] \/ tx'[o] = Idle
  BY DEF Crash, tables, PipeInv, ShapeInv
<1>2. \A x : x \in InFlight' => x \in InFlight
  <2> SUFFICES ASSUME NEW x, x \in InFlight' PROVE x \in InFlight
    OBVIOUS
  <2>1. CASE \E q \in Replicas : x \in ToSet(queue'[q]) \union ToSet(batch'[q])
    <3>1. PICK q \in Replicas : x \in ToSet(queue'[q]) \union ToSet(batch'[q])
      BY <2>1
    <3>2. x \in ToSet(queue[q]) \union ToSet(batch[q])
      BY <1>1, <3>1, ElementsOfNone
    <3> QED BY <3>2, InFlightRecords
  <2>2. CASE \E o \in Owners : x \in ToSet(tx'[o].recs)
    <3>1. PICK o \in Owners : x \in ToSet(tx'[o].recs)
      BY <2>2
    <3>2. x \in ToSet(tx[o].recs)
      BY <1>1, <3>1, ElementsOfNone, IdleTransaction
    <3> QED BY <3>2, InFlightRecords
  <2> QED BY <2>1, <2>2, InFlightNext
<1> QED BY <1>1, <1>2

\* Every step of the pipeline is one of the book or changes nothing in it.
LEMMA StepBook == PipeInv /\ [Next]_vars => [Book!Next]_Book!vars
<1> SUFFICES ASSUME PipeInv, [Next]_vars PROVE [Book!Next]_Book!vars
  OBVIOUS
<1>1. ASSUME NEW r \in Replicas, RecordUsage(r) PROVE [Book!Next]_Book!vars
  BY <1>1, RecordMakes
<1>2. ASSUME NEW r \in Replicas, Take(r) \/ FlushTick(r) \/ Crash(r) PROVE [Book!Next]_Book!vars
  BY <1>2, WriterKeepsAll, CrashLoses, LosesSome
<1>3. ASSUME NEW o \in Owners, Commit(o) PROVE [Book!Next]_Book!vars
  <2> DEFINE R == ToSet(tx[o].recs)
  <2>1. logs' = logs \union R /\ R \subseteq InFlight /\ made' = made /\ InFlight' \union R = InFlight
    BY <1>3, EndTakesOwn DEF Commit
  <2> HIDE DEF R
  <2> QED BY <2>1, CountsSome
<1>4. ASSUME NEW o \in Owners, Fail(o) \/ AbortDeadlocked(o) PROVE [Book!Next]_Book!vars
  <2>1. tx[o] # Idle /\ End(o) /\ logs' = logs
    BY <1>4 DEF Fail, AbortDeadlocked, tables
  <2>2. made' = made /\ InFlight' \subseteq InFlight
    BY <2>1, EndTakesOwn
  <2> QED BY <2>1, <2>2, LosesSome
<1>5. ASSUME NEW o \in Owners, Execute(o) PROVE [Book!Next]_Book!vars
  <2>1. UNCHANGED <<made, logs, queue, batch>> /\ \A p \in Owners : tx'[p].recs = tx[p].recs
    <3>1. UNCHANGED <<made, logs, queue, batch>> /\ tx' = [tx EXCEPT ![o].done = @ + 1]
      BY <1>5 DEF Execute, tables
    <3>2. \A p \in Owners : tx'[p].recs = tx[p].recs
      BY <3>1 DEF PipeInv, ShapeInv, Transaction
    <3> QED BY <3>1, <3>2
  <2>2. \A x : x \in InFlight' <=> x \in InFlight
    BY <2>1, InFlightRecords, InFlightNext
  <2> QED BY <2>1, <2>2, LosesSome
<1>6. CASE ReadUsage \/ Done \/ UNCHANGED vars
  <2>1. UNCHANGED <<made, logs, queue, batch, tx>>
    BY <1>6 DEF ReadUsage, Done, vars, mem, tables
  <2>2. InFlight' = InFlight
    BY <2>1 DEF InFlight
  <2> QED BY <2>1, <2>2, LosesSome
<1> QED BY <1>1, <1>2, <1>3, <1>4, <1>5, <1>6 DEF Next

\* Every behaviour of the pipeline is one of the book's, but for the promise
\* that no request stays undecided: usage is counted once, however it was
\* queued, batched, retried by no one and committed, and what was lost to a
\* full queue, a failed batch, a deadlock or a crash is never counted after
\* all (recordUsage, usageWriter, InsertUsageBatch).
THEOREM PipelineIsBook == Spec => Book!Init /\ [][Book!Next]_Book!vars
<1>1. Init => Book!Init
  BY DEF Init, Book!Init
<1>2. PipeInv /\ [Next]_vars => [Book!Next]_Book!vars
  BY StepBook
<1> QED BY <1>1, <1>2, PipeInvariant, PTL DEF Spec

-----------------------------------------------------------------------------
(* Statements and the rows they lock                                       *)

HourOf(rec) == [table |-> "hourly", row |-> HourRow(rec), rec |-> rec]
DayOf(rec) == [table |-> "daily", row |-> DayRow(rec), rec |-> rec]
QuotaOf(rec) == [table |-> "quota", row |-> QuotaRow(rec), rec |-> rec]
UserOf(rec) == [table |-> "users", row |-> [user |-> rec.user], rec |-> rec]

Steps(P) == {HourOf(x) : x \in P} \union {DayOf(x) : x \in P}
            \union {QuotaOf(x) : x \in P} \union {UserOf(x) : x \in P}

\* A record is upserted by hour, then by day, and may then be charged to its
\* week and after that to its user.
LEMMA StatementsOne ==
    ASSUME NEW rec
    PROVE  \/ StatementsOf(rec) = <<HourOf(rec), DayOf(rec)>>
           \/ StatementsOf(rec) = <<HourOf(rec), DayOf(rec), QuotaOf(rec)>>
           \/ StatementsOf(rec) = <<HourOf(rec), DayOf(rec), QuotaOf(rec), UserOf(rec)>>
<1> DEFINE h == HourOf(rec)
           d == DayOf(rec)
           q == QuotaOf(rec)
           u == UserOf(rec)
<1>1. StatementsOf(rec) = <<h, d>> \o (IF rec.period = NoTime THEN <<>>
                                       ELSE IF rec.spills THEN <<q, u>> ELSE <<(<<q, u>>)[1]>>)
  BY DEF StatementsOf, HourOf, DayOf, QuotaOf, UserOf
<1> HIDE DEF h, d, q, u
<1>2. /\ <<h, d>> \o <<q>> = <<h, d, q>> /\ <<h, d>> \o <<>> = <<h, d>>
      /\ <<h, d>> \o <<q, u>> = <<h, d, q, u>> /\ <<q, u>>[1] = q
  BY ShortSequences
<1>3. StatementsOf(rec) \in {<<h, d>> \o <<>>, <<h, d>> \o <<q, u>>, <<h, d>> \o <<q>>}
  BY <1>1, <1>2
<1>4. StatementsOf(rec) = <<h, d>> \/ StatementsOf(rec) = <<h, d, q>> \/ StatementsOf(rec) = <<h, d, q, u>>
  BY <1>2, <1>3
<1> QED BY <1>4 DEF h, d, q, u

\* The statements of a record are statements about rows of the tables.
LEMMA StatementsOfType ==
    ASSUME NEW P, NEW rec \in P
    PROVE  StatementsOf(rec) \in Seq(Steps(P))
<1> DEFINE S == Steps(P)
           a == HourOf(rec)
           b == DayOf(rec)
           c == QuotaOf(rec)
           d == UserOf(rec)
<1>1. a \in S /\ b \in S /\ c \in S /\ d \in S
  BY DEF Steps
<1>2. StatementsOf(rec) = <<a, b>> \/ StatementsOf(rec) = <<a, b, c>> \/ StatementsOf(rec) = <<a, b, c, d>>
  BY StatementsOne
<1> HIDE DEF S, a, b, c, d
<1>3. <<a, b>> \in Seq(S) /\ <<a, b, c>> \in Seq(S) /\ <<a, b, c, d>> \in Seq(S)
  BY <1>1, ShortSequences
<1>4. StatementsOf(rec) \in Seq(S)
  BY <1>2, <1>3
<1> QED BY <1>4 DEF S

\* The statements of a transaction are those of its records.
LEMMA StatementsType ==
    ASSUME NEW P, NEW recs \in Seq(P)
    PROVE  Statements(recs) \in Seq(Steps(P))
<1> DEFINE seqs == [n \in DOMAIN recs |-> StatementsOf(recs[n])]
           S == Steps(P)
<1>1. \A n \in DOMAIN recs : StatementsOf(recs[n]) \in Seq(S)
  BY StatementsOfType
<1>2. seqs \in Seq(Seq(S))
  <2>1. DOMAIN recs = 1..Len(recs) /\ Len(recs) \in Nat
    OBVIOUS
  <2>2. seqs = [n \in 1..Len(recs) |-> seqs[n]] /\ \A n \in 1..Len(recs) : seqs[n] \in Seq(S)
    BY <1>1, <2>1
  <2> HIDE DEF seqs, S
  <2> QED BY <2>1, <2>2
<1> HIDE DEF seqs, S
<1>3. FlattenSeq(seqs) \in Seq(S)
  BY <1>2, FlattenType
<1> QED BY <1>3 DEF Statements, seqs, S

\* One record has its own statements.
LEMMA StatementsSingle == ASSUME NEW rec PROVE Statements(<<rec>>) = StatementsOf(rec)
<1> DEFINE s == StatementsOf(rec)
           seqs == [n \in DOMAIN <<rec>> |-> StatementsOf(<<rec>>[n])]
           S == Steps({rec})
<1>1. DOMAIN <<rec>> = {1} /\ <<rec>>[1] = rec
  OBVIOUS
<1>2. s \in Seq(S)
  <2>1. rec \in {rec}
    OBVIOUS
  <2> QED BY <2>1, StatementsOfType
<1>3. seqs = <<s>>
  <2>1. seqs = [n \in {1} |-> StatementsOf(rec)]
    BY <1>1
  <2> HIDE DEF s
  <2>2. <<s>> = [n \in {1} |-> s]
    OBVIOUS
  <2> QED BY <2>1, <2>2 DEF s
<1>4. <<s>> \in Seq(Seq(S)) /\ Len(<<s>>) = 1 /\ <<s>>[1] = s
  <2> HIDE DEF s, S
  <2> QED BY <1>2
<1> HIDE DEF s, S
<1>5. FlattenSeq(<<s>>) = s
  <2> DEFINE ss == <<s>>
  <2>1. ss \in Seq(Seq(S)) /\ Len(ss) = 1 /\ ss[1] = s
    BY <1>4
  <2> HIDE DEF ss
  <2>2. PICK g \in [1..Len(ss) -> Seq(S)] :
              /\ g[1] = ss[1]
              /\ \A i \in 1..Len(ss) - 1 : g[i + 1] = g[i] \o ss[i + 1]
              /\ FlattenSeq(ss) = g[Len(ss)]
    <3>1. ss \in Seq(Seq(S)) /\ Len(ss) # 0
      BY <2>1
    <3> QED BY <3>1, FlattenSteps
  <2>3. FlattenSeq(ss) = s
    BY <2>1, <2>2
  <2> QED BY <2>3 DEF ss
<1> QED BY <1>3, <1>5 DEF Statements, s

\* A transaction never runs past its last statement.
DoneInv == \A o \in Owners : tx[o].done \in 0..Len(tx[o].stmts)

\* The transaction of a charge, and that of a charge of user u.
Charge(o, x) == x \in made /\ tx[o].recs = <<x>>
Charging(o, u) == o \in Ids /\ \E x \in made : Charge(o, x) /\ x.user = u

ChargeTables == <<"hourly", "daily", "quota", "users">>

OwnRows(s, x) ==
    /\ Len(s) \in 2..4
    /\ \A n \in 1..Len(s) : RowOf(s[n])[1] = ChargeTables[n] /\ RowOf(s[n])[2].user = x.user

\* The statements of a charge write one row in each table, of its own user.
LEMMA ChargeRows ==
    ASSUME PipeInv, NEW o \in Owners, NEW x, Charge(o, x)
    PROVE  OwnRows(tx[o].stmts, x)
<1>1. tx[o].stmts = StatementsOf(x)
  BY StatementsSingle DEF PipeInv, ShapeInv, Charge
<1>2. /\ RowOf(HourOf(x))[1] = "hourly" /\ RowOf(HourOf(x))[2].user = x.user
      /\ RowOf(DayOf(x))[1] = "daily" /\ RowOf(DayOf(x))[2].user = x.user
      /\ RowOf(QuotaOf(x))[1] = "quota" /\ RowOf(QuotaOf(x))[2].user = x.user
      /\ RowOf(UserOf(x))[1] = "users" /\ RowOf(UserOf(x))[2].user = x.user
  BY DEF RowOf, HourOf, DayOf, QuotaOf, UserOf, HourRow, DayRow, StatsRow, QuotaRow
<1> DEFINE h == HourOf(x)
           d == DayOf(x)
           q == QuotaOf(x)
           u == UserOf(x)
           s == tx[o].stmts
<1>3. s = <<h, d>> \/ s = <<h, d, q>> \/ s = <<h, d, q, u>>
  BY <1>1, StatementsOne
<1> HIDE DEF h, d, q, u, s
<1>4. /\ Len(s) \in 2..4 /\ s[1] = h /\ s[2] = d
      /\ Len(s) > 2 => s[3] = q
      /\ Len(s) > 3 => s[4] = u
  BY <1>3
<1>5. ASSUME NEW n \in 1..Len(s) PROVE RowOf(s[n])[1] = ChargeTables[n] /\ RowOf(s[n])[2].user = x.user
  <2>0. /\ ChargeTables[1] = "hourly" /\ ChargeTables[2] = "daily"
        /\ ChargeTables[3] = "quota" /\ ChargeTables[4] = "users"
    BY DEF ChargeTables
  <2>1. CASE n = 1
    BY <1>2, <1>4, <2>0, <2>1 DEF h
  <2>2. CASE n = 2
    BY <1>2, <1>4, <2>0, <2>2 DEF d
  <2>3. CASE n = 3
    BY <1>2, <1>4, <2>0, <2>3 DEF q
  <2>4. CASE n = 4
    BY <1>2, <1>4, <2>0, <2>4 DEF u
  <2> QED BY <1>4, <2>1, <2>2, <2>3, <2>4
<1> QED BY <1>4, <1>5 DEF s, OwnRows

\* A batch writes rows of the users of its records only.
LEMMA BatchRows ==
    ASSUME PipeInv, NEW r \in Replicas, NEW n \in 1..Len(tx[r].stmts)
    PROVE  \E y \in ToSet(tx[r].recs) : RowOf(tx[r].stmts[n])[2].user = y.user
<1> DEFINE P == ToSet(tx[r].recs)
           s == tx[r].stmts
<1>1. tx[r].recs \in Seq(P) /\ s = Statements(tx[r].recs)
  <2>1. tx[r].recs \in Seq(Record) /\ s = Statements(tx[r].recs)
    BY DEF PipeInv, ShapeInv, Transaction, Owners
  <2>2. \A i \in DOMAIN tx[r].recs : tx[r].recs[i] \in P
    BY DEF ToSet
  <2> HIDE DEF P
  <2> QED BY <2>1, <2>2
<1>2. s[n] \in Steps(P)
  <2> HIDE DEF P
  <2>1. s \in Seq(Steps(P))
    BY <1>1, StatementsType
  <2> QED BY <2>1
<1>3. PICK y \in P : s[n] = HourOf(y) \/ s[n] = DayOf(y) \/ s[n] = QuotaOf(y) \/ s[n] = UserOf(y)
  <2> HIDE DEF P, s
  <2> QED BY <1>2 DEF Steps
<1>4. RowOf(s[n])[2].user = y.user
  <2> HIDE DEF P, s
  <2> QED BY <1>3 DEF RowOf, HourOf, DayOf, QuotaOf, UserOf, HourRow, DayRow, StatsRow, QuotaRow
<1> QED BY <1>4

\* No writer is inserting a record of user u.
NoBatchOf(u) == \A r \in Replicas : \A y \in ToSet(tx[r].recs) : y.user # u

\* As long as no writer inserts a record of its user, who a charge waits for is
\* a charge of the same user that has gone further.
LEMMA ChargeWaits ==
    ASSUME PipeInv, DoneInv, NEW u, NoBatchOf(u), NEW o \in Owners, Charging(o, u), NEW p \in WaitsFor(o)
    PROVE  p \in Owners /\ Charging(p, u) /\ tx[o].done \in Nat /\ tx[p].done \in Nat /\ tx[o].done < tx[p].done
<1>1. PICK x \in made : Charge(o, x) /\ x.user = u
  BY DEF Charging
<1> DEFINE d == tx[o].done
<1>2. /\ p \in Open /\ p \in Owners /\ tx[p] # Idle /\ Wants(o) \in Holds(p) /\ ~Finished(o)
  BY DEF WaitsFor, Open
<1>3. OwnRows(tx[o].stmts, x)
  BY <1>1, ChargeRows
<1>4. d \in Nat /\ d + 1 \in 1..Len(tx[o].stmts) /\ Len(tx[o].stmts) \in 2..4
  <2>1. d \in 0..Len(tx[o].stmts) /\ d # Len(tx[o].stmts) /\ Len(tx[o].stmts) \in 2..4
    BY <1>2, <1>3 DEF Finished, DoneInv, OwnRows
  <2> HIDE DEF d
  <2> QED BY <2>1
<1>5. PICK n \in 1..tx[p].done : RowOf(tx[o].stmts[d + 1]) = RowOf(tx[p].stmts[n])
  BY <1>2 DEF Wants, Holds
<1>6. tx[p].done \in 0..Len(tx[p].stmts) /\ Len(tx[p].stmts) \in Nat
  <2>1. tx[p].recs \in Seq(Record) /\ tx[p].stmts = Statements(tx[p].recs)
    BY <1>2 DEF PipeInv, ShapeInv, Transaction
  <2>2. tx[p].stmts \in Seq(Steps(Record))
    BY <2>1, StatementsType
  <2> QED BY <1>2, <2>2 DEF DoneInv
<1>7. n \in 1..Len(tx[p].stmts)
  BY <1>6
<1>8. RowOf(tx[o].stmts[d + 1])[1] = ChargeTables[d + 1] /\ RowOf(tx[o].stmts[d + 1])[2].user = u
  <2> HIDE DEF d
  <2> QED BY <1>1, <1>3, <1>4 DEF OwnRows
<1>9. p \notin Replicas
  <2> SUFFICES ASSUME p \in Replicas PROVE FALSE
    OBVIOUS
  <2>1. PICK y \in ToSet(tx[p].recs) : RowOf(tx[p].stmts[n])[2].user = y.user
    BY <1>7, BatchRows
  <2>2. y.user = u
    BY <1>5, <1>8, <2>1
  <2> QED BY <2>2 DEF NoBatchOf
<1>10. p \in Ids /\ Charged(p, tx[p].recs)
  BY <1>2, <1>9 DEF Owners, PipeInv, TxInv
<1>11. tx[p].recs # <<>>
  <2>1. tx[p].recs = <<>> => tx[p].stmts = <<>>
    BY <1>2, IdleTransaction DEF PipeInv, ShapeInv, Idle
  <2> QED BY <1>7, <2>1
<1>12. PICK y \in made : Charge(p, y)
  BY <1>10, <1>11 DEF Charged, Charge
<1>13. OwnRows(tx[p].stmts, y)
  BY <1>2, <1>12, ChargeRows
<1>14. RowOf(tx[p].stmts[n])[1] = ChargeTables[n] /\ RowOf(tx[p].stmts[n])[2].user = y.user
  BY <1>7, <1>13 DEF OwnRows
<1>15. y.user = u /\ ChargeTables[n] = ChargeTables[d + 1]
  BY <1>5, <1>8, <1>14
<1>16. n = d + 1
  <2>1. Len(tx[p].stmts) \in 2..4
    BY <1>13 DEF OwnRows
  <2>2. \A i, k : k \in 2..4 /\ i \in 1..k => i \in 1..4
    OBVIOUS
  <2>3. n \in 1..4 /\ d + 1 \in 1..4
    <3> HIDE DEF d
    <3>1. n \in 1..4
      BY <1>7, <2>1, <2>2, Zenon
    <3>2. d + 1 \in 1..4
      BY <1>4, <2>2, Zenon
    <3> QED BY <3>1, <3>2
  <2> HIDE DEF d
  <2>4. \A i, j \in 1..4 : ChargeTables[i] = ChargeTables[j] => i = j
    BY DEF ChargeTables
  <2> QED BY <1>15, <2>3, <2>4
<1>17. tx[p].done \in Nat /\ d < tx[p].done
  <2> HIDE DEF d
  <2> QED BY <1>4, <1>5, <1>6, <1>16
<1> QED BY <1>2, <1>4, <1>10, <1>12, <1>15, <1>17 DEF Charging

\* The transactions that can be reached from o by following the waits.
WaitStep == [q \in Nat \X SUBSET Owners |-> UNION {WaitsFor(p) : p \in q[2]}]

\* Then a charge is not on a cycle of waits.
LEMMA ChargeFree ==
    ASSUME PipeInv, DoneInv, NEW u, NoBatchOf(u), NEW o \in Owners, Charging(o, u)
    PROVE  ~Deadlocked(o)
<1> DEFINE Eq(f) == f = [n \in 0..Cardinality(Open) |->
                           IF n = 0 THEN WaitsFor(o) ELSE UNION {WaitsFor(p) : p \in f[n - 1]}]
           reach == CHOOSE f : Eq(f)
           N == Cardinality(Open)
           Beyond == {p \in Owners : Charging(p, u) /\ tx[o].done < tx[p].done}
<1>1. N \in Nat
  <2>1. IsFiniteSet(Ids)
    BY SizeAssumption, FS_Interval DEF Ids
  <2>2. IsFiniteSet(Owners)
    BY <2>1, SizeAssumption, FS_Union DEF Owners
  <2>3. IsFiniteSet(Open)
    BY <2>2, FS_Subset DEF Open
  <2> QED BY <2>3, FS_CardinalityType
<1>2. \A p \in Owners : WaitsFor(p) \subseteq Owners
  BY DEF WaitsFor, Open
<1>3. PICK g : Iterated(g, SUBSET Owners, WaitsFor(o), WaitStep)
  <2> DEFINE V == SUBSET Owners
             base == WaitsFor(o)
  <2>1. base \in V /\ Operates(WaitStep, Nat, V)
    BY <1>2 DEF Operates, WaitStep
  <2> HIDE DEF V, base
  <2>2. \E g : Iterated(g, V, base, WaitStep)
    BY <2>1, Iterates
  <2> QED BY <2>2 DEF V, base
<1> DEFINE f == [n \in 0..N |-> g[n]]
<1>4. Eq(f)
  <2> SUFFICES ASSUME NEW n \in 0..N
               PROVE  g[n] = IF n = 0 THEN WaitsFor(o) ELSE UNION {WaitsFor(p) : p \in f[n - 1]}
    OBVIOUS
  <2>1. CASE n = 0
    BY <1>3, <2>1 DEF Iterated
  <2>2. CASE n # 0
    <3>1. n - 1 \in 0..N /\ n - 1 \in Nat /\ (n - 1) + 1 = n
      BY <1>1, <2>2
    <3>2. g[n] = WaitStep[<<n, g[n - 1]>>] /\ g[n - 1] \in SUBSET Owners
      BY <1>3, <3>1 DEF Iterated
    <3>3. g[n] = UNION {WaitsFor(p) : p \in g[n - 1]}
      BY <1>1, <3>2 DEF WaitStep
    <3> QED BY <2>2, <3>1, <3>3
  <2> QED BY <2>1, <2>2
<1>5. Eq(reach)
  <2> HIDE DEF Eq
  <2> QED BY <1>4
<1>6. Deadlocked(o) <=> o \in UNION {reach[n] : n \in 0..N}
  BY DEF Deadlocked
<1> HIDE DEF reach, N
<1> DEFINE T == {n \in Nat : n \in 0..N => reach[n] \subseteq Beyond}
<1>7. 0 \in T
  <2>1. 0 \in 0..N => reach[0] = WaitsFor(o)
    BY <1>5 DEF N
  <2>2. WaitsFor(o) \subseteq Beyond
    BY ChargeWaits
  <2> QED BY <2>1, <2>2
<1>8. ASSUME NEW n \in Nat, n \in T PROVE n + 1 \in T
  <2> SUFFICES ASSUME n + 1 \in 0..N PROVE reach[n + 1] \subseteq Beyond
    OBVIOUS
  <2>1. n \in 0..N /\ n + 1 # 0 /\ (n + 1) - 1 = n
    BY <1>1
  <2>2. reach[n + 1] = UNION {WaitsFor(p) : p \in reach[n]}
    BY <1>5, <2>1 DEF N
  <2>3. ASSUME NEW p \in reach[n], NEW q \in WaitsFor(p) PROVE q \in Beyond
    <3>1. p \in Beyond
      BY <1>8, <2>1
    <3>2. /\ q \in Owners /\ Charging(q, u)
          /\ tx[p].done \in Nat /\ tx[q].done \in Nat /\ tx[p].done < tx[q].done
      BY <2>3, <3>1, ChargeWaits
    <3>3. tx[o].done \in Nat
      <4>1. tx[o].done \in Nat
        BY DEF PipeInv, ShapeInv, Transaction
      <4> QED BY <4>1
    <3> QED BY <3>1, <3>2, <3>3
  <2> QED BY <2>2, <2>3
<1>9. \A n \in Nat : n \in T
  <2> HIDE DEF T
  <2> QED BY <1>7, <1>8, AllNumbers
<1>10. o \notin Beyond
  <2>1. tx[o].done \in Nat
    BY DEF PipeInv, ShapeInv, Transaction
  <2> QED BY <2>1
<1>11. \A n \in 0..N : o \notin reach[n]
  BY <1>1, <1>9, <1>10
<1> QED BY <1>6, <1>11

\* The statement counter, step by step.
LEMMA BeginDone ==
    ASSUME PipeInv, DoneInv, NEW o \in Owners, NEW recs \in Seq(Record), Begin(o, recs)
    PROVE  \A p \in Owners : tx'[p].done \in 0..Len(tx'[p].stmts)
<1> DEFINE t == [recs |-> recs, stmts |-> Statements(recs), done |-> 0]
<1>1. tx' = [tx EXCEPT ![o] = t]
  BY DEF Begin
<1>2. t.done = 0 /\ t.stmts \in Seq(Steps(Record))
  BY StatementsType
<1> HIDE DEF t
<1>3. t.done \in 0..Len(t.stmts)
  BY <1>2
<1>4. \A p \in Owners : tx'[p] = t \/ tx'[p] = tx[p]
  BY <1>1 DEF PipeInv, ShapeInv
<1> QED BY <1>3, <1>4 DEF DoneInv

\* DoneInv is inductive with PipeInv.
LEMMA StepDone == PipeInv /\ DoneInv /\ [Next]_vars => DoneInv'
<1> SUFFICES ASSUME PipeInv, DoneInv, [Next]_vars PROVE DoneInv'
  OBVIOUS
<1>1. Idle.done \in 0..Len(Idle.stmts)
  BY DEF Idle
<1>2. ASSUME NEW r \in Replicas, RecordUsage(r) PROVE DoneInv'
  <2> DEFINE id == Cardinality(made) + 1
  <2>0. PICK spills \in Spills(Head(todo)) : RecordedAs(r, Numbered(Head(todo), id, spills))
    BY <1>2, RecordsOne
  <2> DEFINE rec == Numbered(Head(todo), id, spills)
  <2>1. todo # <<>> /\ (Begin(id, <<rec>>) \/ UNCHANGED tx)
    <3> HIDE DEF id, rec
    <3> QED BY <1>2, <2>0, RecordsOne DEF RecordedAs, id, rec
  <2>2. id \in Ids /\ rec \in Record
    <3> HIDE DEF id, rec
    <3> QED BY <2>1, NextRecord DEF PipeInv, id, rec
  <2> HIDE DEF id, rec
  <2>3. id \in Owners /\ <<rec>> \in Seq(Record)
    BY <2>2 DEF Owners
  <2> QED BY <2>1, <2>3, BeginDone DEF DoneInv
<1>3. ASSUME NEW r \in Replicas, Take(r) PROVE DoneInv'
  <2>1. r \in Owners /\ (Begin(r, batch'[r]) \/ UNCHANGED tx)
    BY <1>3 DEF Take, Owners
  <2>2. batch'[r] \in Seq(Record)
    BY <1>3, TakeKeeps DEF PipeInv, ShapeInv
  <2> QED BY <2>1, <2>2, BeginDone DEF DoneInv
<1>4. ASSUME NEW r \in Replicas, FlushTick(r) PROVE DoneInv'
  <2>1. r \in Owners /\ Begin(r, batch[r]) /\ batch[r] \in Seq(Record)
    BY <1>4 DEF FlushTick, Owners, PipeInv, ShapeInv
  <2> QED BY <2>1, BeginDone DEF DoneInv
<1>5. ASSUME NEW r \in Replicas, Crash(r) PROVE DoneInv'
  <2>1. \A o \in Owners : tx'[o] = tx[o] \/ tx'[o] = Idle
    BY <1>5 DEF Crash
  <2> QED BY <1>1, <2>1 DEF DoneInv
<1>6. ASSUME NEW o \in Owners, Execute(o) PROVE DoneInv'
  <2>1. tx' = [tx EXCEPT ![o].done = @ + 1] /\ tx[o].done # Len(tx[o].stmts)
    BY <1>6 DEF Execute, Finished
  <2>2. /\ \A p \in Owners \ {o} : tx'[p] = tx[p]
        /\ tx'[o].stmts = tx[o].stmts /\ tx'[o].done = tx[o].done + 1
    BY <2>1 DEF PipeInv, ShapeInv, Transaction
  <2>3. Len(tx[o].stmts) \in Nat
    <3>1. tx[o].recs \in Seq(Record) /\ tx[o].stmts = Statements(tx[o].recs)
      BY DEF PipeInv, ShapeInv, Transaction
    <3>2. tx[o].stmts \in Seq(Steps(Record))
      BY <3>1, StatementsType
    <3> QED BY <3>2
  <2>4. tx'[o].done \in 0..Len(tx'[o].stmts)
    <3>1. tx[o].done \in 0..Len(tx[o].stmts)
      BY DEF DoneInv
    <3> QED BY <2>1, <2>2, <2>3, <3>1
  <2> QED BY <2>2, <2>4 DEF DoneInv
<1>7. ASSUME NEW o \in Owners, Commit(o) \/ Fail(o) \/ AbortDeadlocked(o) PROVE DoneInv'
  <2>1. tx' = [tx EXCEPT ![o] = Idle]
    BY <1>7 DEF Commit, Fail, AbortDeadlocked, End
  <2>2. \A p \in Owners : tx'[p] = tx[p] \/ tx'[p] = Idle
    BY <2>1 DEF PipeInv, ShapeInv
  <2> QED BY <1>1, <2>2 DEF DoneInv
<1>8. CASE ReadUsage \/ Done \/ UNCHANGED vars
  <2>1. UNCHANGED tx
    BY <1>8 DEF ReadUsage, Done, vars, mem
  <2> QED BY <2>1 DEF DoneInv
<1> QED BY <1>2, <1>3, <1>4, <1>5, <1>6, <1>7, <1>8 DEF Next

\* An open transaction of a charge has its record.
LEMMA OpenCharge ==
    ASSUME PipeInv, DoneInv, NEW o \in Open \intersect Ids
    PROVE  \E x \in made : Charge(o, x)
<1>1. o \in Owners /\ tx[o] # Idle /\ Charged(o, tx[o].recs)
  BY DEF Open, PipeInv, TxInv
<1>2. tx[o].recs # <<>>
  <2> SUFFICES ASSUME tx[o].recs = <<>> PROVE FALSE
    OBVIOUS
  <2>1. tx[o] \in Transaction /\ tx[o].stmts = Statements(<<>>) /\ Statements(<<>>) = <<>>
    BY <1>1, IdleTransaction DEF PipeInv, ShapeInv, Idle
  <2>2. tx[o].done = 0
    BY <1>1, <2>1 DEF DoneInv
  <2>3. tx[o] = Idle
    BY <2>1, <2>2 DEF Transaction, Idle
  <2> QED BY <1>1, <2>3
<1> QED BY <1>1, <1>2 DEF Charged, Charge

\* However many charges run at once, for whatever users, weeks and lifetime
\* quotas, none of them is on a cycle of waits, unless a writer is inserting a
\* record of the same user: a charge writes the hour, the day, the week and the
\* user's own row in this order, like every other charge that writes any of
\* them.  A batch keeps no such order among its records (InsertUsageBatch).
THEOREM ChargesAloneNeverDeadlock == Spec => []DeadlockNeedsBatch
<1>1. Init => DoneInv
  BY DEF Init, DoneInv, Idle
<1>2. Spec => []DoneInv
  BY <1>1, PipeInvariant, StepDone, PTL DEF Spec
<1>3. PipeInv /\ DoneInv => DeadlockNeedsBatch
  <2> SUFFICES ASSUME PipeInv, DoneInv, NEW o \in Open \intersect Ids, Deadlocked(o)
               PROVE  \E r \in Replicas : \E x \in ToSet(tx[r].recs), y \in ToSet(tx[o].recs) :
                         x.user = y.user
    BY DEF DeadlockNeedsBatch
  <2>1. PICK y \in made : Charge(o, y)
    BY OpenCharge
  <2>2. y \in ToSet(tx[o].recs)
    BY <2>1, ElementsOfOne DEF Charge
  <2>3. o \in Owners /\ Charging(o, y.user)
    BY <2>1 DEF Charging, Owners
  <2>4. ~NoBatchOf(y.user)
    BY <2>3, ChargeFree
  <2> QED BY <2>2, <2>4 DEF NoBatchOf
<1> QED BY <1>2, <1>3, PipeInvariant, PTL

-----------------------------------------------------------------------------
(* The sums of the usage tables count records                              *)

\* What a set of records counts.
Tally(S) == [requests |-> Cardinality(S), errors |-> Cardinality({x \in S : x.failed})]

\* The sum of the records of a set.
LEMMA SumOfRecords ==
    ASSUME NEW S, IsFiniteSet(S)
    PROVE  SumOf(S, AggOf) = Tally(S)
<1> DEFINE Eq(k) == k = [s \in SUBSET S |-> IF s = {} THEN Zero
                            ELSE AddAgg(k[s \ {CHOOSE x \in s : TRUE}], AggOf(CHOOSE x \in s : TRUE))]
           iter == CHOOSE k : Eq(k)
           g == [s \in SUBSET S |-> Tally(s)]
<1>1. ASSUME NEW s \in SUBSET S, s # {} 
      PROVE  First(s) \in s /\ Tally(s) = AddAgg(Tally(s \ {First(s)}), AggOf(First(s)))
  <2> DEFINE x == First(s)
             r == s \ {x}
             E(u) == {y \in u : y.failed}
  <2>1. x \in s
    BY <1>1, FirstIn
  <2> HIDE DEF x
  <2>2. IsFiniteSet(s) /\ IsFiniteSet(r) /\ IsFiniteSet(E(s)) /\ IsFiniteSet(E(r))
    BY FS_Subset
  <2>3. Cardinality(s) = Cardinality(r) + 1 /\ Cardinality(r) \in Nat
    <3>1. s = r \union {x} /\ x \notin r
      BY <2>1
    <3> HIDE DEF r
    <3> QED BY <2>2, <3>1, FS_AddElement, FS_CardinalityType
  <2>4. Cardinality(E(s)) = Cardinality(E(r)) + (IF x.failed THEN 1 ELSE 0)
    <3>1. CASE x.failed
      <4>1. E(s) = E(r) \union {x} /\ x \notin E(r)
        BY <2>1, <3>1
      <4> HIDE DEF E, r
      <4> QED BY <2>2, <3>1, <4>1, FS_AddElement
    <3>2. CASE ~x.failed
      <4>1. E(s) = E(r)
        BY <2>1, <3>2
      <4>2. Cardinality(E(r)) \in Nat
        BY <2>2, FS_CardinalityType
      <4> HIDE DEF E, r
      <4> QED BY <3>2, <4>1, <4>2
    <3> QED BY <3>1, <3>2
  <2>5. Tally(s) = AddAgg(Tally(r), AggOf(x))
    BY <2>3, <2>4 DEF Tally, AddAgg, AggOf
  <2> QED BY <2>1, <2>5 DEF x
<1>2. Tally({}) = Zero
  <2>1. {y \in {} : y.failed} = {} /\ Cardinality({}) = 0
    BY FS_EmptySet
  <2> QED BY <2>1 DEF Tally, Zero
<1>3. Eq(g)
  <2> HIDE DEF Tally
  <2>1. ASSUME NEW s \in SUBSET S, s # {}
        PROVE g[s] = AddAgg(g[s \ {CHOOSE x \in s : TRUE}], AggOf(CHOOSE x \in s : TRUE))
    BY <1>1, <2>1 DEF First
  <2> QED BY <1>2, <2>1
<1>4. Eq(iter)
  <2> HIDE DEF Eq, g
  <2> QED BY <1>3
<1>5. SumOf(S, AggOf) = iter[S]
  BY DEF SumOf, FoldSet, MapThenFoldSet
<1> HIDE DEF iter
<1>6. iter[S] = g[S]
  <2> DEFINE C == {s \in SUBSET S : iter[s] # g[s]}
  <2> SUFFICES ASSUME C # {} PROVE FALSE
    OBVIOUS
  <2>1. PICK u \in C : \A w \in C : w \subseteq u => w = u
    <3>1. C \subseteq SUBSET S
      OBVIOUS
    <3> HIDE DEF C
    <3> QED BY <3>1, LeastSubset
  <2> HIDE DEF g
  <2>2. u # {}
    BY <1>3, <1>4, <2>1
  <2>3. First(u) \in u
    BY <2>2, FirstIn
  <2>4. u \ {First(u)} \in SUBSET S /\ u \ {First(u)} \notin C
    BY <2>1, <2>3
  <2>5. iter[u \ {First(u)}] = g[u \ {First(u)}]
    BY <2>4
  <2>6. u \in SUBSET S /\ iter[u] # g[u]
    BY <2>1
  <2>7. iter[u] = AddAgg(iter[u \ {First(u)}], AggOf(First(u)))
    BY <1>4, <2>2, <2>6 DEF First
  <2>8. g[u] = AddAgg(g[u \ {First(u)}], AggOf(First(u)))
    BY <1>3, <2>2, <2>6 DEF First
  <2> QED BY <2>5, <2>6, <2>7, <2>8
<1> QED BY <1>5, <1>6

\* Disjoint finite sets add up.
LEMMA CardinalityOfUnion ==
    ASSUME NEW a, NEW b, IsFiniteSet(a), IsFiniteSet(b), a \intersect b = {}
    PROVE  Cardinality(a \union b) = Cardinality(a) + Cardinality(b)
<1>1. Cardinality(a \union b) = Cardinality(a) + Cardinality(b) - Cardinality(a \intersect b)
  BY FS_Union
<1>2. Cardinality(a \intersect b) = 0
  BY FS_EmptySet
<1>3. Cardinality(a) \in Nat /\ Cardinality(b) \in Nat
  BY FS_CardinalityType
<1> QED BY <1>1, <1>2, <1>3

\* Two sets without a common record count apart.
LEMMA TallyOfUnion ==
    ASSUME NEW a, NEW b, IsFiniteSet(a), IsFiniteSet(b), a \intersect b = {}
    PROVE  Tally(a \union b) = AddAgg(Tally(a), Tally(b))
<1> DEFINE E(u) == {y \in u : y.failed}
<1>1. E(a \union b) = E(a) \union E(b) /\ E(a) \intersect E(b) = {}
  OBVIOUS
<1>2. IsFiniteSet(E(a)) /\ IsFiniteSet(E(b))
  BY FS_Subset
<1>3. Cardinality(a \union b) = Cardinality(a) + Cardinality(b)
  BY CardinalityOfUnion
<1>4. Cardinality(E(a \union b)) = Cardinality(E(a)) + Cardinality(E(b))
  <2> HIDE DEF E
  <2> QED BY <1>1, <1>2, CardinalityOfUnion
<1> QED BY <1>3, <1>4 DEF Tally, AddAgg

\* The image of a finite set is finite.
LEMMA FiniteImage ==
    ASSUME NEW L, IsFiniteSet(L), NEW f
    PROVE  IsFiniteSet({f[x] : x \in L})
<1> DEFINE T == {f[x] : x \in L}
           k == [x \in L |-> f[x]]
<1>1. k \in [L -> T] /\ \A t \in T : \E x \in L : k[x] = t
  OBVIOUS
<1>2. k \in Surjection(L, T)
  <2> HIDE DEF T, k
  <2> QED BY <1>1 DEF Surjection
<1> HIDE DEF T, k
<1>3. IsFiniteSet(T)
  BY <1>2, FS_Surjection
<1> QED BY <1>3 DEF T

\* The records of a set that belong to some rows, when each row names those
\* that belong to it.
Under(L, row, R) == {rec \in L : row[rec] \in R}
SumOver(R, f) == SumOf(R, LAMBDA r : f[r])
Counted(f, L, row, R) == \A r \in R : f[r] = Tally(Under(L, row, {r}))

\* The sum of rows that count their records counts the records of all.
LEMMA SumOfRows ==
    ASSUME NEW L, IsFiniteSet(L), NEW row, NEW R, IsFiniteSet(R), NEW f, Counted(f, L, row, R)
    PROVE  SumOver(R, f) = Tally(Under(L, row, R))
<1> DEFINE Eq(k) == k = [s \in SUBSET R |-> IF s = {} THEN Zero
                            ELSE AddAgg(k[s \ {CHOOSE x \in s : TRUE}], f[CHOOSE x \in s : TRUE])]
           iter == CHOOSE k : Eq(k)
           g == [s \in SUBSET R |-> Tally(Under(L, row, s))]
<1>1. ASSUME NEW s \in SUBSET R, s # {} 
      PROVE  First(s) \in s /\ Tally(Under(L, row, s)) = AddAgg(Tally(Under(L, row, s \ {First(s)})), f[First(s)])
  <2> DEFINE x == First(s)
             a == Under(L, row, s \ {x})
             b == Under(L, row, {x})
  <2>1. x \in s
    BY <1>1, FirstIn
  <2> HIDE DEF x
  <2>2. Under(L, row, s) = a \union b /\ a \intersect b = {} /\ a \subseteq L /\ b \subseteq L
    BY <2>1 DEF Under
  <2>3. f[x] = Tally(b)
    BY <2>1 DEF Counted
  <2> HIDE DEF a, b
  <2>4. IsFiniteSet(a) /\ IsFiniteSet(b)
    BY <2>2, FS_Subset
  <2>8. Tally(a \union b) = AddAgg(Tally(a), Tally(b))
    BY <2>2, <2>4, TallyOfUnion
  <2> QED BY <2>1, <2>2, <2>3, <2>8 DEF x, a
<1>2. Tally(Under(L, row, {})) = Zero
  <2>1. Under(L, row, {}) = {} /\ {y \in {} : y.failed} = {} /\ Cardinality({}) = 0
    BY FS_EmptySet DEF Under
  <2> QED BY <2>1 DEF Tally, Zero
<1>3. Eq(g)
  <2> HIDE DEF Tally
  <2>1. ASSUME NEW s \in SUBSET R, s # {}
        PROVE g[s] = AddAgg(g[s \ {CHOOSE x \in s : TRUE}], f[CHOOSE x \in s : TRUE])
    BY <1>1, <2>1 DEF First
  <2> QED BY <1>2, <2>1
<1>4. Eq(iter)
  <2> HIDE DEF Eq, g
  <2> QED BY <1>3
<1>5. SumOver(R, f) = iter[R]
  BY DEF SumOver, SumOf, FoldSet, MapThenFoldSet
<1> HIDE DEF iter
<1>6. iter[R] = g[R]
  <2> DEFINE C == {s \in SUBSET R : iter[s] # g[s]}
  <2> SUFFICES ASSUME C # {} PROVE FALSE
    OBVIOUS
  <2>1. PICK u \in C : \A w \in C : w \subseteq u => w = u
    <3>1. C \subseteq SUBSET R
      OBVIOUS
    <3> HIDE DEF C
    <3> QED BY <3>1, LeastSubset
  <2> HIDE DEF g
  <2>2. u # {}
    BY <1>3, <1>4, <2>1
  <2>3. First(u) \in u
    BY <2>2, FirstIn
  <2>4. u \ {First(u)} \in SUBSET R /\ u \ {First(u)} \notin C
    BY <2>1, <2>3
  <2>5. iter[u \ {First(u)}] = g[u \ {First(u)}]
    BY <2>4
  <2>6. u \in SUBSET R /\ iter[u] # g[u]
    BY <2>1
  <2>7. iter[u] = AddAgg(iter[u \ {First(u)}], f[First(u)])
    BY <1>4, <2>2, <2>6 DEF First
  <2>8. g[u] = AddAgg(g[u \ {First(u)}], f[First(u)])
    BY <1>3, <2>2, <2>6 DEF First
  <2> QED BY <2>5, <2>6, <2>7, <2>8
<1> QED BY <1>5, <1>6

-----------------------------------------------------------------------------
(* A transaction adds its records to the statistics tables                 *)

\* The table that sums the records of a set.
SumsOf(L, size) ==
    [row \in {StatsRow(rec, size) : rec \in L} |-> Tally({rec \in L : StatsRow(rec, size) = row})]

\* One upsert counts one more record.
LEMMA UpsertAdds ==
    ASSUME NEW L, IsFiniteSet(L), NEW rec, rec \notin L, NEW size
    PROVE  Upsert(SumsOf(L, size), StatsRow(rec, size), AggOf(rec)) = SumsOf(L \union {rec}, size)
<1> DEFINE M == L \union {rec}
           mine == StatsRow(rec, size)
           t == SumsOf(L, size)
           of(S, row) == {x \in S : StatsRow(x, size) = row}
<1>1. DOMAIN t = {StatsRow(x, size) : x \in L} /\ \A row \in DOMAIN t : t[row] = Tally(of(L, row))
  BY DEF SumsOf
<1>2. {StatsRow(x, size) : x \in M} = DOMAIN t \union {mine}
  BY <1>1
<1>3. ASSUME NEW row, row # mine PROVE of(M, row) = of(L, row)
  BY <1>3
<1>4. Tally(of(M, mine)) = AddAgg(Tally(of(L, mine)), AggOf(rec))
  <2>1. of(M, mine) = of(L, mine) \union {rec} /\ of(L, mine) \intersect {rec} = {}
    OBVIOUS
  <2>2. IsFiniteSet(of(L, mine)) /\ IsFiniteSet({rec})
    BY FS_Subset, FS_Singleton
  <2>3. Tally({rec}) = AggOf(rec)
    <3>1. Cardinality({rec}) = 1 /\ Cardinality({}) = 0
      BY FS_Singleton, FS_EmptySet
    <3>2. {x \in {rec} : x.failed} = IF rec.failed THEN {rec} ELSE {}
      OBVIOUS
    <3> QED BY <3>1, <3>2 DEF Tally, AggOf
  <2> HIDE DEF of, mine, M
  <2> QED BY <2>1, <2>2, <2>3, TallyOfUnion
<1>5. mine \notin DOMAIN t => Tally(of(L, mine)) = Zero
  <2> SUFFICES ASSUME mine \notin DOMAIN t PROVE Tally(of(L, mine)) = Zero
    OBVIOUS
  <2>1. of(L, mine) = {}
    BY <1>1
  <2>2. {x \in {} : x.failed} = {} /\ Cardinality({}) = 0
    BY FS_EmptySet
  <2> HIDE DEF of
  <2> QED BY <2>1, <2>2 DEF Tally, Zero
<1>6. SumsOf(M, size) = [row \in DOMAIN t \union {mine} |-> Tally(of(M, row))]
  BY <1>2 DEF SumsOf
<1> HIDE DEF t, mine, of
<1>7. Upsert(t, mine, AggOf(rec))
        = [row \in DOMAIN t \union {mine} |->
             IF row # mine THEN t[row] ELSE AddAgg(Tally(of(L, mine)), AggOf(rec))]
  BY <1>1, <1>5 DEF Upsert
<1>8. \A row \in DOMAIN t \union {mine} :
         Tally(of(M, row)) = IF row # mine THEN t[row] ELSE AddAgg(Tally(of(L, mine)), AggOf(rec))
  BY <1>1, <1>3, <1>4
<1> HIDE DEF M
<1>9. Upsert(t, mine, AggOf(rec)) = SumsOf(M, size)
  BY <1>6, <1>7, <1>8
<1> QED BY <1>9 DEF t, mine, M

\* What the statements of a sequence make of a table.
Applied(ss, name, table) ==
    FoldLeft(LAMBDA t, s : IF s.table = name THEN Upsert(t, s.row, AggOf(s.rec)) ELSE t, table, ss)

\* The records of the statements of a table, and those at some positions.
Written(ss, name, s) == {ss[i].rec : i \in {j \in s : ss[j].table = name}}

\* The statements of one table are each about a record of its own, and about
\* the row that it belongs to.
OwnRecord(ss, name, size) ==
    \A i \in DOMAIN ss : ss[i].table = name =>
        /\ ss[i].row = StatsRow(ss[i].rec, size)
        /\ \A j \in DOMAIN ss : ss[j].table = name /\ ss[j].rec = ss[i].rec => j = i

\* Statements that each add a record of their own add them all.
LEMMA AppliedAdds ==
    ASSUME NEW P, NEW ss \in Seq(P), NEW name, NEW size, NEW L, IsFiniteSet(L),
           OwnRecord(ss, name, size), Written(ss, name, DOMAIN ss) \intersect L = {}
    PROVE  Applied(ss, name, SumsOf(L, size)) = SumsOf(L \union Written(ss, name, DOMAIN ss), size)
<1> DEFINE D == DOMAIN ss
           base == SumsOf(L, size)
           Final(s) == CHOOSE x \in s : \A y \in s : x >= y
           Eq(k) == k = [s \in SUBSET D |-> IF s = {} THEN base
                            ELSE IF ss[Final(s)].table = name
                                 THEN Upsert(k[s \ {Final(s)}], ss[Final(s)].row, AggOf(ss[Final(s)].rec))
                                 ELSE k[s \ {Final(s)}]]
           iter == CHOOSE k : Eq(k)
           g == [s \in SUBSET D |-> SumsOf(L \union Written(ss, name, s), size)]
<1>0. D = 1..Len(ss) /\ Len(ss) \in Nat
  OBVIOUS
<1>1. ASSUME NEW s \in SUBSET D, s # {} PROVE Final(s) \in s
  BY <1>0, <1>1, LastIn DEF Max
<1>2. ASSUME NEW s \in SUBSET D, NEW i \in s
      PROVE  SumsOf(L \union Written(ss, name, s), size)
             = IF ss[i].table = name
               THEN Upsert(SumsOf(L \union Written(ss, name, s \ {i}), size), ss[i].row, AggOf(ss[i].rec))
               ELSE SumsOf(L \union Written(ss, name, s \ {i}), size)
  <2> DEFINE M == L \union Written(ss, name, s \ {i})
             rec == ss[i].rec
  <2>1. CASE ss[i].table = name
    <3>1. L \union Written(ss, name, s) = M \union {rec}
      BY <2>1 DEF Written
    <3>2. rec \notin M
      <4>1. rec \in Written(ss, name, D)
        BY <2>1 DEF Written
      <4>2. rec \notin L
        BY <4>1
      <4>3. rec \notin Written(ss, name, s \ {i})
        BY <2>1 DEF Written, OwnRecord
      <4> QED BY <4>2, <4>3
    <3>3. IsFiniteSet(M)
      <4> DEFINE J == {j \in s \ {i} : ss[j].table = name}
                 f == [j \in D |-> ss[j].rec]
      <4>1. IsFiniteSet(D)
        BY <1>0, FS_Interval
      <4>2. IsFiniteSet(J)
        <5>1. J \subseteq D
          OBVIOUS
        <5> HIDE DEF J, D
        <5> QED BY <4>1, <5>1, FS_Subset
      <4>3. IsFiniteSet({f[j] : j \in J})
        <5> HIDE DEF J, f
        <5> QED BY <4>2, FiniteImage
      <4>4. Written(ss, name, s \ {i}) = {f[j] : j \in J}
        BY DEF Written
      <4>5. IsFiniteSet(Written(ss, name, s \ {i}))
        BY <4>3, <4>4
      <4> QED BY <4>5, FS_Union
    <3>4. ss[i].row = StatsRow(rec, size)
      BY <2>1 DEF OwnRecord
    <3> HIDE DEF M, rec
    <3>5. Upsert(SumsOf(M, size), StatsRow(rec, size), AggOf(rec)) = SumsOf(M \union {rec}, size)
      BY <3>2, <3>3, UpsertAdds
    <3> QED BY <2>1, <3>1, <3>4, <3>5 DEF M, rec
  <2>2. CASE ss[i].table # name
    <3>1. Written(ss, name, s) = Written(ss, name, s \ {i})
      BY <2>2 DEF Written
    <3> QED BY <2>2, <3>1
  <2> QED BY <2>1, <2>2
<1>3. Eq(g)
  <2>1. ASSUME NEW s \in SUBSET D, s # {}
        PROVE g[s] = IF ss[Final(s)].table = name
                     THEN Upsert(g[s \ {Final(s)}], ss[Final(s)].row, AggOf(ss[Final(s)].rec))
                     ELSE g[s \ {Final(s)}]
    <3>1. Final(s) \in s /\ s \ {Final(s)} \in SUBSET D
      BY <1>1, <2>1
    <3>2. g[s] = SumsOf(L \union Written(ss, name, s), size)
          /\ g[s \ {Final(s)}] = SumsOf(L \union Written(ss, name, s \ {Final(s)}), size)
      BY <3>1
    <3> HIDE DEF g, Final
    <3> QED BY <1>2, <3>1, <3>2
  <2>2. g[{}] = base
    <3>1. L \union Written(ss, name, {}) = L
      BY DEF Written
    <3> QED BY <3>1
  <2> HIDE DEF Final, base
  <2> QED BY <2>1, <2>2
<1>4. Eq(iter)
  <2> HIDE DEF Eq, g
  <2> QED BY <1>3
<1>5. Applied(ss, name, base) = iter[D]
  BY DEF Applied, FoldLeft, MapThenFoldSet, Max
<1> HIDE DEF iter
<1>6. iter[D] = g[D]
  <2> DEFINE C == {s \in SUBSET D : iter[s] # g[s]}
  <2> SUFFICES ASSUME C # {} PROVE FALSE
    OBVIOUS
  <2>1. PICK u \in C : \A w \in C : w \subseteq u => w = u
    <3>1. C \subseteq SUBSET D /\ IsFiniteSet(D)
      BY <1>0, FS_Interval
    <3> HIDE DEF C, D
    <3> QED BY <3>1, LeastSubset
  <2> HIDE DEF g, base
  <2>2. u # {}
    BY <1>3, <1>4, <2>1
  <2>3. Final(u) \in u /\ u \in SUBSET D /\ iter[u] # g[u]
    BY <1>1, <2>1, <2>2
  <2> HIDE DEF Final
  <2>4. u \ {Final(u)} \in SUBSET D /\ u \ {Final(u)} \notin C
    BY <2>1, <2>3
  <2>5. iter[u \ {Final(u)}] = g[u \ {Final(u)}]
    BY <2>4
  <2> DEFINE Step(k) == IF ss[Final(u)].table = name
                        THEN Upsert(k[u \ {Final(u)}], ss[Final(u)].row, AggOf(ss[Final(u)].rec))
                        ELSE k[u \ {Final(u)}]
  <2>6. iter[u] = Step(iter)
    BY <1>4, <2>2, <2>3
  <2>7. g[u] = Step(g)
    BY <1>3, <2>2, <2>3
  <2> QED BY <2>3, <2>5, <2>6, <2>7
<1> QED BY <1>5, <1>6

\* The statements of one table are about the records of a set, one each.
Covers(ss, name, size, A) == OwnRecord(ss, name, size) /\ Written(ss, name, DOMAIN ss) = A

\* Statements that cover one set and others that cover another cover both.
LEMMA CoversMore ==
    ASSUME NEW S, NEW s \in Seq(S), NEW t \in Seq(S), NEW name, NEW size, NEW A, NEW B,
           Covers(s, name, size, A), Covers(t, name, size, B), A \intersect B = {}
    PROVE  Covers(s \o t, name, size, A \union B)
<1> DEFINE u == s \o t
           m == Len(s)
           n == Len(t)
<1>1. /\ m \in Nat /\ n \in Nat /\ DOMAIN s = 1..m /\ DOMAIN t = 1..n /\ DOMAIN u = 1..m + n
      /\ \A i \in 1..m : u[i] = s[i]
      /\ \A i \in 1..n : u[m + i] = t[i]
  OBVIOUS
<1> HIDE DEF u, m, n
<1>2. ASSUME NEW i \in DOMAIN u
      PROVE  (i \in DOMAIN s /\ u[i] = s[i]) \/ (i - m \in DOMAIN t /\ u[i] = t[i - m] /\ i - m \in Nat)
  <2>1. CASE i <= m
    BY <1>1, <2>1
  <2>2. CASE i > m
    <3>1. i - m \in 1..n /\ m + (i - m) = i
      BY <1>1, <2>2
    <3> QED BY <1>1, <3>1
  <2> QED BY <1>1, <2>1, <2>2
<1>3. \A i \in DOMAIN s : s[i].table = name => s[i].rec \in A
  BY DEF Covers, Written
<1>4. \A i \in DOMAIN t : t[i].table = name => t[i].rec \in B
  BY DEF Covers, Written
<1>5. OwnRecord(u, name, size)
  <2> SUFFICES ASSUME NEW i \in DOMAIN u, u[i].table = name
               PROVE  /\ u[i].row = StatsRow(u[i].rec, size)
                      /\ \A j \in DOMAIN u : u[j].table = name /\ u[j].rec = u[i].rec => j = i
    BY DEF OwnRecord
  <2>1. u[i].row = StatsRow(u[i].rec, size)
    BY <1>2 DEF Covers, OwnRecord
  <2>2. ASSUME NEW j \in DOMAIN u, u[j].table = name, u[j].rec = u[i].rec PROVE j = i
    <3>1. CASE i \in DOMAIN s /\ u[i] = s[i] /\ j \in DOMAIN s /\ u[j] = s[j]
      BY <2>2, <3>1 DEF Covers, OwnRecord
    <3>2. CASE /\ i - m \in DOMAIN t /\ u[i] = t[i - m] /\ i - m \in Nat
               /\ j - m \in DOMAIN t /\ u[j] = t[j - m] /\ j - m \in Nat
      <4>1. i - m = j - m
        BY <2>2, <3>2 DEF Covers, OwnRecord
      <4> QED BY <1>1, <4>1
    <3>3. CASE /\ i \in DOMAIN s /\ u[i] = s[i]
               /\ j - m \in DOMAIN t /\ u[j] = t[j - m]
      BY <1>3, <1>4, <2>2, <3>3
    <3>4. CASE /\ j \in DOMAIN s /\ u[j] = s[j]
               /\ i - m \in DOMAIN t /\ u[i] = t[i - m]
      BY <1>3, <1>4, <2>2, <3>4
    <3> QED BY <1>2, <3>1, <3>2, <3>3, <3>4
  <2> QED BY <2>1, <2>2
<1>6. Written(u, name, DOMAIN u) \subseteq A \union B
  <2> SUFFICES ASSUME NEW i \in DOMAIN u, u[i].table = name PROVE u[i].rec \in A \union B
    BY DEF Written
  <2> QED BY <1>2, <1>3, <1>4
<1>7. A \union B \subseteq Written(u, name, DOMAIN u)
  <2>1. ASSUME NEW x \in A PROVE x \in Written(u, name, DOMAIN u)
    <3>1. PICK i \in DOMAIN s : s[i].table = name /\ x = s[i].rec
      BY DEF Covers, Written
    <3>2. i \in DOMAIN u /\ u[i] = s[i]
      BY <1>1
    <3> QED BY <3>1, <3>2 DEF Written
  <2>2. ASSUME NEW x \in B PROVE x \in Written(u, name, DOMAIN u)
    <3>1. PICK i \in DOMAIN t : t[i].table = name /\ x = t[i].rec
      BY DEF Covers, Written
    <3>2. m + i \in DOMAIN u /\ u[m + i] = t[i]
      BY <1>1
    <3> QED BY <3>1, <3>2 DEF Written
  <2> QED BY <2>1, <2>2
<1> QED BY <1>5, <1>6, <1>7 DEF Covers, u

\* The two tables of statistics and their buckets.
Statistics(name, size) == <<name, size>> \in {<<"hourly", HourLen>>, <<"daily", DayLen>>}

\* The statements of one record cover it in either table.
LEMMA CoversOne ==
    ASSUME NEW rec, NEW name, NEW size, Statistics(name, size)
    PROVE  Covers(StatementsOf(rec), name, size, {rec})
<1> DEFINE h == HourOf(rec)
           d == DayOf(rec)
           q == QuotaOf(rec)
           u == UserOf(rec)
           s == StatementsOf(rec)
<1>1. /\ h.table = "hourly" /\ h.row = StatsRow(rec, HourLen) /\ h.rec = rec
      /\ d.table = "daily" /\ d.row = StatsRow(rec, DayLen) /\ d.rec = rec
      /\ q.table = "quota" /\ u.table = "users"
  BY DEF HourOf, DayOf, QuotaOf, UserOf, HourRow, DayRow
<1>2. s = <<h, d>> \/ s = <<h, d, q>> \/ s = <<h, d, q, u>>
  BY StatementsOne
<1>3. /\ "hourly" # "daily" /\ "hourly" # "quota" /\ "daily" # "quota"
      /\ "hourly" # "users" /\ "daily" # "users"
  OBVIOUS
<1>4. (name = "hourly" /\ size = HourLen) \/ (name = "daily" /\ size = DayLen)
  BY DEF Statistics
<1> HIDE DEF h, d, q, u, s
<1>5. /\ {1, 2} \subseteq DOMAIN s /\ s[1] = h /\ s[2] = d
      /\ \A i \in DOMAIN s : i \in {1, 2} \/ s[i] = q \/ s[i] = u
  BY <1>2
<1> DEFINE k == IF name = "hourly" THEN 1 ELSE 2
<1>6. k \in DOMAIN s /\ s[k].table = name /\ s[k].rec = rec /\ s[k].row = StatsRow(rec, size)
  BY <1>1, <1>4, <1>5
<1>7. \A i \in DOMAIN s : s[i].table = name => i = k
  BY <1>1, <1>3, <1>4, <1>5
<1> HIDE DEF k
<1> QED BY <1>6, <1>7 DEF Covers, OwnRecord, Written, s

\* No record is in a sequence twice.
Distinct(recs) == \A i, j \in DOMAIN recs : recs[i] = recs[j] => i = j

\* The statements of a transaction count each of its records once.
LEMMA StatementsCover ==
    ASSUME NEW P, NEW recs \in Seq(P), Distinct(recs), NEW name, NEW size, Statistics(name, size)
    PROVE  Covers(Statements(recs), name, size, ToSet(recs))
<1> DEFINE seqs == [n \in DOMAIN recs |-> StatementsOf(recs[n])]
           S == Steps(P)
           N == Len(recs)
           Early(n) == {recs[i] : i \in 1..n}
<1>1. N \in Nat /\ DOMAIN recs = 1..N /\ \A i \in 1..N : recs[i] \in P
  OBVIOUS
<1>2. \A n \in 1..N : StatementsOf(recs[n]) \in Seq(S)
  BY <1>1, StatementsOfType
<1>3. /\ seqs \in Seq(Seq(S)) /\ Len(seqs) = N
      /\ \A n \in 1..N : seqs[n] = StatementsOf(recs[n])
  BY <1>1, <1>2
<1>4. Statements(recs) = FlattenSeq(seqs)
  BY DEF Statements
<1>5. Early(N) = ToSet(recs)
  BY <1>1 DEF ToSet
<1> HIDE DEF seqs, S, N, Early
<1>6. CASE N = 0
  <2>1. FlattenSeq(seqs) = <<>>
    BY <1>3, <1>6 DEF FlattenSeq
  <2>2. ToSet(recs) = {} /\ DOMAIN <<>> = {}
    BY <1>1, <1>6 DEF ToSet
  <2> QED BY <1>4, <2>1, <2>2 DEF Covers, OwnRecord, Written
<1>7. CASE N # 0
  <2>1. PICK g \in [1..N -> Seq(S)] :
              /\ g[1] = seqs[1]
              /\ \A i \in 1..N - 1 : g[i + 1] = g[i] \o seqs[i + 1]
              /\ FlattenSeq(seqs) = g[N]
    <3>1. Len(seqs) # 0
      BY <1>3, <1>7
    <3> QED BY <1>3, <3>1, FlattenSteps
  <2> DEFINE T == {n \in Nat : n + 1 \in 1..N => Covers(g[n + 1], name, size, Early(n + 1))}
  <2>2. 0 \in T
    <3>1. Early(1) = {recs[1]} /\ 1 \in 1..N
      BY <1>1, <1>7 DEF Early
    <3>2. Covers(StatementsOf(recs[1]), name, size, {recs[1]})
      BY CoversOne
    <3>3. g[1] = StatementsOf(recs[1])
      BY <1>3, <2>1, <3>1
    <3> HIDE DEF T
    <3>4. Covers(g[1], name, size, Early(1))
      BY <3>1, <3>2, <3>3
    <3> QED BY <3>4 DEF T
  <2>3. ASSUME NEW n \in Nat, n \in T PROVE n + 1 \in T
    <3> SUFFICES ASSUME (n + 1) + 1 \in 1..N PROVE Covers(g[(n + 1) + 1], name, size, Early((n + 1) + 1))
      OBVIOUS
    <3> DEFINE i == n + 1
    <3>1. i \in 1..N /\ i \in 1..N - 1 /\ i + 1 \in 1..N
      BY <1>1
    <3>2. Covers(g[i], name, size, Early(i))
      BY <2>3, <3>1
    <3> HIDE DEF i, T
    <3>3. g[i + 1] = g[i] \o StatementsOf(recs[i + 1])
      BY <1>3, <2>1, <3>1
    <3>4. Covers(StatementsOf(recs[i + 1]), name, size, {recs[i + 1]})
      BY CoversOne
    <3>5. Early(i) \intersect {recs[i + 1]} = {} /\ Early(i + 1) = Early(i) \union {recs[i + 1]}
      <4>1. \A j \in 1..i : j \in 1..N /\ j # i + 1
        BY <1>1, <3>1
      <4>2. \A j \in 1..i : recs[j] # recs[i + 1]
        BY <1>1, <3>1, <4>1 DEF Distinct
      <4>3. 1..(i + 1) = 1..i \union {i + 1}
        BY <3>1, <1>1
      <4> QED BY <4>2, <4>3 DEF Early
    <3>6. g[i] \in Seq(S) /\ StatementsOf(recs[i + 1]) \in Seq(S)
      BY <1>2, <2>1, <3>1
    <3>7. Covers(g[i] \o StatementsOf(recs[i + 1]), name, size, Early(i) \union {recs[i + 1]})
      <4> DEFINE t == StatementsOf(recs[i + 1])
                 B == {recs[i + 1]}
                 s == g[i]
                 A == Early(i)
      <4>1. s \in Seq(S) /\ t \in Seq(S) /\ Covers(s, name, size, A) /\ Covers(t, name, size, B) /\ A \intersect B = {}
        BY <3>2, <3>4, <3>5, <3>6
      <4> HIDE DEF t, B, s, A
      <4>2. Covers(s \o t, name, size, A \union B)
        BY <4>1, CoversMore
      <4> QED BY <4>2 DEF t, B, s, A
    <3>8. Covers(g[i + 1], name, size, Early(i + 1))
      BY <3>3, <3>5, <3>7
    <3> QED BY <3>8 DEF i
  <2>4. \A n \in Nat : n \in T
    <3> HIDE DEF T
    <3> QED BY <2>2, <2>3, AllNumbers
  <2>5. N - 1 \in Nat /\ (N - 1) + 1 = N /\ N \in 1..N
    BY <1>1, <1>7
  <2>6. Covers(g[N], name, size, Early(N))
    BY <2>4, <2>5
  <2> QED BY <1>4, <1>5, <2>1, <2>6
<1> QED BY <1>6, <1>7

-----------------------------------------------------------------------------
(* The statistics agree with the logs                                      *)

TablesInv == hourly = SumsOf(logs, HourLen) /\ daily = SumsOf(logs, DayLen)

\* A transaction inserts each of its records once, and none that is in the
\* logs.
LEMMA InsertedOnce ==
    ASSUME PipeInv, NEW o \in Owners
    PROVE  Distinct(tx[o].recs) /\ ToSet(tx[o].recs) \intersect logs = {}
<1> USE DEF PipeInv
<1>1. CASE o \in Replicas
  <2>1. tx[o].recs = batch[o] \/ tx[o].recs = <<>>
    BY <1>1, IdleTransaction DEF TxInv
  <2>2. LineOf(o, queue[o], batch[o])
    BY <1>1 DEF LineInv
  <2>3. Distinct(batch[o])
    <3> SUFFICES ASSUME NEW i \in DOMAIN batch[o], NEW j \in DOMAIN batch[o], batch[o][i] = batch[o][j]
                 PROVE  i = j
      BY DEF Distinct
    <3>1. i \in Nat /\ j \in Nat /\ batch[o][i] \in made
      BY <2>2 DEF LineOf
    <3>2. batch[o][i].id \in Nat
      BY <3>1, FS_CardinalityType DEF MadeInv
    <3>3. ~(i < j) /\ ~(j < i)
      BY <2>2, <3>2 DEF LineOf, Ascends
    <3> QED BY <3>1, <3>3
  <2>4. ToSet(batch[o]) \intersect logs = {}
    <3> SUFFICES ASSUME NEW x \in ToSet(batch[o]), x \in logs PROVE FALSE
      OBVIOUS
    <3>1. x.by = o /\ ~x.limited
      BY <2>2 DEF LineOf
    <3>2. x.id < x.id
      BY <2>2, <3>1 DEF LineOf
    <3>3. x.id \in Nat
      BY FS_CardinalityType DEF MadeInv
    <3> QED BY <3>2, <3>3
  <2>5. Distinct(<<>>)
    BY DEF Distinct
  <2> QED BY <2>1, <2>3, <2>4, <2>5, ElementsOfNone
<1>2. CASE o \in Ids
  <2>1. CASE tx[o].recs = <<>>
    BY <2>1, ElementsOfNone DEF Distinct
  <2>2. CASE tx[o].recs # <<>>
    <3>1. PICK x \in made : x \notin logs /\ tx[o].recs = <<x>>
      BY <1>2, <2>2 DEF TxInv, Charged
    <3> QED BY <3>1, ElementsOfOne DEF Distinct
  <2> QED BY <2>1, <2>2
<1> QED BY <1>1, <1>2 DEF Owners

\* The statements of a transaction add its records to a table that sums those
\* of the logs.
LEMMA WrittenAdds ==
    ASSUME PipeInv, NEW o \in Owners, NEW name, NEW size, Statistics(name, size)
    PROVE  WrittenBy(o, name, SumsOf(logs, size)) = SumsOf(logs \union ToSet(tx[o].recs), size)
<1> DEFINE recs == tx[o].recs
           ss == Statements(recs)
           P == Steps(Record)
           L == logs
<1>1. recs \in Seq(Record) /\ tx[o].stmts = ss
  BY DEF PipeInv, ShapeInv, Transaction
<1>2. Distinct(recs) /\ ToSet(recs) \intersect L = {}
  BY InsertedOnce
<1>3. IsFiniteSet(L)
  BY FS_Subset DEF PipeInv, MadeInv
<1>4. WrittenBy(o, name, SumsOf(L, size)) = Applied(ss, name, SumsOf(L, size))
  BY <1>1 DEF WrittenBy, Applied
<1> HIDE DEF recs
<1>5. ss \in Seq(P)
  BY <1>1, StatementsType
<1>6. Covers(ss, name, size, ToSet(recs))
  BY <1>1, <1>2, StatementsCover
<1> HIDE DEF ss, P, L
<1>7. OwnRecord(ss, name, size) /\ Written(ss, name, DOMAIN ss) = ToSet(recs)
  BY <1>6 DEF Covers
<1>8. Applied(ss, name, SumsOf(L, size)) = SumsOf(L \union ToSet(recs), size)
  <2>1. Written(ss, name, DOMAIN ss) \intersect L = {}
    BY <1>2, <1>7
  <2>2. Applied(ss, name, SumsOf(L, size)) = SumsOf(L \union Written(ss, name, DOMAIN ss), size)
    BY <1>3, <1>5, <1>7, <2>1, AppliedAdds
  <2> QED BY <1>7, <2>2
<1> QED BY <1>4, <1>8 DEF L, recs

\* TablesInv is inductive with PipeInv.
LEMMA StepTables == PipeInv /\ TablesInv /\ [Next]_vars => TablesInv'
<1> SUFFICES ASSUME PipeInv, TablesInv, [Next]_vars PROVE TablesInv'
  OBVIOUS
<1>1. ASSUME NEW o \in Owners, Commit(o) PROVE TablesInv'
  <2>1. /\ logs' = logs \union ToSet(tx[o].recs)
        /\ hourly' = WrittenBy(o, "hourly", SumsOf(logs, HourLen))
        /\ daily' = WrittenBy(o, "daily", SumsOf(logs, DayLen))
    BY <1>1 DEF Commit, TablesInv
  <2>2. Statistics("hourly", HourLen) /\ Statistics("daily", DayLen)
    BY DEF Statistics
  <2>3. /\ hourly' = SumsOf(logs', HourLen)
        /\ daily' = SumsOf(logs', DayLen)
    BY <2>1, <2>2, WrittenAdds
  <2> QED BY <2>3 DEF TablesInv, SumsOf
<1>2. CASE UNCHANGED tables
  BY <1>2 DEF TablesInv, tables, SumsOf
<1>3. ASSUME NEW r \in Replicas, RecordUsage(r) \/ Take(r) \/ FlushTick(r) \/ Crash(r)
      PROVE  UNCHANGED tables
  BY <1>3 DEF RecordUsage, Take, FlushTick, Crash
<1>4. ASSUME NEW o \in Owners, Execute(o) \/ Fail(o) \/ AbortDeadlocked(o) PROVE UNCHANGED tables
  BY <1>4 DEF Execute, Fail, AbortDeadlocked
<1>5. ReadUsage \/ Done \/ UNCHANGED vars => UNCHANGED tables
  BY DEF ReadUsage, Done, vars
<1> QED BY <1>1, <1>2, <1>3, <1>4, <1>5 DEF Next

\* The tables hold the sums of the logs throughout.
LEMMA TablesInvariant == Spec => []TablesInv
<1>1. Init => TablesInv
  <2> SUFFICES ASSUME Init PROVE TablesInv
    OBVIOUS
  <2>1. logs = {} /\ hourly = <<>> /\ daily = <<>>
    BY DEF Init
  <2>2. \A size : SumsOf({}, size) = <<>>
    BY DEF SumsOf
  <2> QED BY <2>1, <2>2 DEF TablesInv
<1> QED BY <1>1, PipeInvariant, StepTables, PTL DEF Spec

\* A table that sums the logs is what TablesAgree says of it.
Summed(L, size) == [row \in {StatsRow(rec, size) : rec \in L} |->
                      SumOf({rec \in L : StatsRow(rec, size) = row}, AggOf)]

\* Summing by upserts or by SumOf is the same.
LEMMA SumsAreTables ==
    ASSUME NEW L, IsFiniteSet(L), NEW size
    PROVE  SumsOf(L, size) = Summed(L, size)
<1>1. ASSUME NEW row
      PROVE  SumOf({rec \in L : StatsRow(rec, size) = row}, AggOf)
             = Tally({rec \in L : StatsRow(rec, size) = row})
  <2> DEFINE S == {rec \in L : StatsRow(rec, size) = row}
  <2>1. IsFiniteSet(S)
    BY FS_Subset
  <2> HIDE DEF S
  <2>2. SumOf(S, AggOf) = Tally(S)
    BY <2>1, SumOfRecords
  <2> QED BY <2>2 DEF S
<1> QED BY <1>1 DEF SumsOf, Summed

\* Rows of a table that sums the logs count the records that belong to them.
LEMMA RowsOfTable ==
    ASSUME NEW L, IsFiniteSet(L), NEW size, NEW table, table = SumsOf(L, size),
           NEW R, R \subseteq DOMAIN table
    PROVE  SumOver(R, table) = Tally({rec \in L : StatsRow(rec, size) \in R})
<1> DEFINE row == [rec \in L |-> StatsRow(rec, size)]
<1>1. IsFiniteSet(R)
  <2>1. DOMAIN table = {row[rec] : rec \in L}
    BY DEF SumsOf
  <2> HIDE DEF row
  <2>2. IsFiniteSet(DOMAIN table)
    BY <2>1, FiniteImage
  <2> QED BY <2>2, FS_Subset
<1>2. Counted(table, L, row, R)
  <2> SUFFICES ASSUME NEW r \in R PROVE table[r] = Tally(Under(L, row, {r}))
    BY DEF Counted
  <2>1. table[r] = Tally({rec \in L : StatsRow(rec, size) = r})
    BY DEF SumsOf
  <2>2. Under(L, row, {r}) = {rec \in L : StatsRow(rec, size) = r}
    BY DEF Under
  <2> QED BY <2>1, <2>2
<1>3. Under(L, row, R) = {rec \in L : StatsRow(rec, size) \in R}
  BY DEF Under
<1> HIDE DEF row
<1>4. SumOver(R, table) = Tally(Under(L, row, R))
  BY <1>1, <1>2, SumOfRows
<1> QED BY <1>3, <1>4

\* Each row of the statistics tables sums exactly the logged records of its
\* bucket, user and key, and a key's count from the days is that of its uses
\* in the logs: what is upserted is what is logged (InsertUsageBatch,
\* usageStatsUpsertSQL, UserAPIKeyDetails).
THEOREM StatisticsAgree == Spec => []TablesAgree
<1>1. PipeInv /\ TablesInv => TablesAgree
  <2> SUFFICES ASSUME PipeInv, TablesInv PROVE TablesAgree
    OBVIOUS
  <2>1. IsFiniteSet(logs)
    BY FS_Subset DEF PipeInv, MadeInv
  <2>2. hourly = SumsOf(logs, HourLen) /\ daily = SumsOf(logs, DayLen)
    BY DEF TablesInv
  <2>3. ASSUME NEW t \in {<<hourly, HourLen>>, <<daily, DayLen>>}
        PROVE  t[1] = [row \in {StatsRow(rec, t[2]) : rec \in logs} |->
                         SumOf({rec \in logs : StatsRow(rec, t[2]) = row}, AggOf)]
    <3>1. t[1] = SumsOf(logs, t[2])
      BY <2>2
    <3>2. t[1] = Summed(logs, t[2])
      BY <2>1, <3>1, SumsAreTables
    <3> QED BY <3>2 DEF Summed
  <2>4. ASSUME NEW rec \in made
        PROVE  LET logged == {x \in logs : x.user = rec.user /\ x.key = rec.key}
               IN /\ KeyRequests(rec.user, rec.key) = Cardinality(logged)
                  /\ KeyRequests(rec.user, rec.key) > 0 <=> KeyUses(rec.user, rec.key) # {}
    <3> DEFINE logged == {x \in logs : x.user = rec.user /\ x.key = rec.key}
               R == {row \in DOMAIN daily : row.user = rec.user /\ row.key = rec.key}
    <3>1. {x \in logs : StatsRow(x, DayLen) \in R} = logged
      BY <2>2 DEF SumsOf, StatsRow
    <3>2. R \subseteq DOMAIN daily
      OBVIOUS
    <3>3. KeyRequests(rec.user, rec.key) = SumOver(R, daily).requests
      BY DEF KeyRequests, SumOver
    <3>4. KeyUses(rec.user, rec.key) = {x.at : x \in logged}
      BY DEF KeyUses
    <3>5. IsFiniteSet(logged)
      BY <2>1, FS_Subset
    <3> HIDE DEF R, logged
    <3>6. SumOver(R, daily) = Tally({x \in logs : StatsRow(x, DayLen) \in R})
      BY <2>1, <2>2, <3>2, RowsOfTable
    <3>7. KeyRequests(rec.user, rec.key) = Cardinality(logged)
      BY <3>1, <3>3, <3>6 DEF Tally
    <3>8. Cardinality(logged) \in Nat /\ (Cardinality(logged) = 0 <=> logged = {})
      BY <3>5, FS_EmptySet, FS_CardinalityType
    <3>9. KeyRequests(rec.user, rec.key) > 0 <=> KeyUses(rec.user, rec.key) # {}
      BY <3>4, <3>7, <3>8
    <3> QED BY <3>7, <3>9 DEF logged
  <2> QED BY <2>3, <2>4 DEF TablesAgree
<1> QED BY <1>1, PipeInvariant, TablesInvariant, PTL

-----------------------------------------------------------------------------
(* Capacities and types                                                    *)

\* A queue and a batch have room, and a batch that is full is being written.
SpaceOf(q, b, t) ==
    Len(q) <= QueueCap /\ Len(b) <= BatchCap /\ (t = Idle => Len(b) < BatchCap)

BudgetInv == budget \in [{"faults", "crashes", "reads"} -> Nat]

SpaceInv == BudgetInv /\ \A r \in Replicas : SpaceOf(queue[r], batch[r], tx[r])

\* Only faults, crashes and reads take from the budget, and only what is left.
LEMMA SpendKeeps ==
    ASSUME BudgetInv, NEW kind \in {"faults", "crashes", "reads"}, Spend(kind)
    PROVE  BudgetInv'
<1>1. budget[kind] \in Nat /\ budget[kind] - 1 \in Nat
  BY DEF Spend, BudgetInv
<1> QED BY <1>1 DEF Spend, BudgetInv

\* What is left of the faults, crashes and reads stays a number.
LEMMA StepBudget == BudgetInv /\ [Next]_vars => BudgetInv'
<1> SUFFICES ASSUME BudgetInv, [Next]_vars PROVE BudgetInv'
  OBVIOUS
<1>1. ASSUME NEW r \in Replicas, RecordUsage(r) \/ Take(r) \/ FlushTick(r) PROVE UNCHANGED budget
  BY <1>1 DEF RecordUsage, Take, FlushTick
<1>2. ASSUME NEW r \in Replicas, Crash(r) PROVE BudgetInv'
  BY <1>2, SpendKeeps DEF Crash
<1>3. ASSUME NEW o \in Owners, Execute(o) \/ Commit(o) \/ AbortDeadlocked(o) PROVE UNCHANGED budget
  BY <1>3 DEF Execute, Commit, AbortDeadlocked
<1>4. ASSUME NEW o \in Owners, Fail(o) PROVE BudgetInv'
  BY <1>4, SpendKeeps DEF Fail
<1>5. CASE ReadUsage
  <2>1. (\E q \in Pages : Spend("reads")) \/ UNCHANGED budget
    BY <1>5 DEF ReadUsage, ReadTotals, ReadByKey, ReadSeries
  <2> QED BY <2>1, SpendKeeps DEF BudgetInv
<1>6. CASE Done \/ UNCHANGED vars
  BY <1>6 DEF Done, vars, BudgetInv
<1> QED BY <1>1, <1>2, <1>3, <1>4, <1>5, <1>6 DEF Next, BudgetInv

\* A transaction with records is open.
LEMMA BegunOpen ==
    ASSUME ShapeInv, NEW r \in Replicas, NEW recs \in Seq(Record), recs # <<>>, Begin(r, recs)
    PROVE  tx'[r] # Idle /\ \A q \in Replicas \ {r} : tx'[q] = tx[q]
<1>1. tx'[r].recs = recs /\ \A o \in Owners \ {r} : tx'[o] = tx[o]
  BY BeginShape
<1> QED BY <1>1, IdleTransaction DEF Owners

\* The writer flushes a batch as soon as it is full, so that it never outgrows it.
LEMMA TakeSpace ==
    ASSUME PipeInv, SpaceInv, NEW r \in Replicas, Take(r)
    PROVE  \A q \in Replicas : SpaceOf(queue[q], batch[q], tx[q])'
<1> USE DEF PipeInv
<1>1. /\ tx[r] = Idle /\ queue[r] # <<>>
      /\ queue' = [queue EXCEPT ![r] = Tail(@)]
      /\ batch' = [batch EXCEPT ![r] = Append(@, Head(queue[r]))]
      /\ IF Len(batch'[r]) >= BatchCap THEN Begin(r, batch'[r]) ELSE UNCHANGED tx
  BY DEF Take
<1>2. /\ queue[r] \in Seq(Record) /\ batch[r] \in Seq(Record) /\ SpaceOf(queue[r], batch[r], tx[r])
  BY DEF ShapeInv, SpaceInv
<1>3. /\ queue'[r] = Tail(queue[r]) /\ batch'[r] = Append(batch[r], Head(queue[r]))
      /\ \A q \in Replicas \ {r} : queue'[q] = queue[q] /\ batch'[q] = batch[q]
  BY <1>1 DEF ShapeInv
<1>4. Head(queue[r]) \in Record /\ Len(queue'[r]) = Len(queue[r]) - 1
  <2> DEFINE s == queue[r]
  <2>1. s \in Seq(Record) /\ s # <<>> /\ queue'[r] = Tail(s)
    BY <1>1, <1>2, <1>3
  <2> HIDE DEF s
  <2>2. Head(s) \in Record /\ Len(Tail(s)) = Len(s) - 1
    BY <2>1
  <2> QED BY <2>1, <2>2 DEF s
<1>5. batch'[r] \in Seq(Record) /\ Len(batch'[r]) = Len(batch[r]) + 1
  BY <1>2, <1>3, <1>4
<1>6. Len(queue'[r]) <= QueueCap /\ Len(batch'[r]) <= BatchCap
  BY <1>1, <1>2, <1>4, <1>5, SizeAssumption DEF SpaceOf
<1>7. CASE Len(batch'[r]) >= BatchCap
  <2>1. batch'[r] # <<>>
    BY <1>2, <1>5
  <2>2. tx'[r] # Idle /\ \A q \in Replicas \ {r} : tx'[q] = tx[q]
    BY <1>1, <1>5, <1>7, <2>1, BegunOpen
  <2> QED BY <1>3, <1>6, <2>2 DEF SpaceOf, SpaceInv
<1>8. CASE ~(Len(batch'[r]) >= BatchCap)
  <2>1. tx' = tx /\ Len(batch'[r]) < BatchCap
    BY <1>1, <1>5, <1>8, SizeAssumption
  <2> QED BY <1>3, <1>6, <2>1 DEF SpaceOf, SpaceInv
<1> QED BY <1>7, <1>8

\* SpaceInv is inductive with PipeInv.
LEMMA StepSpace == PipeInv /\ SpaceInv /\ [Next]_vars => SpaceInv'
<1> SUFFICES ASSUME PipeInv, SpaceInv, [Next]_vars
             PROVE  \A q \in Replicas : SpaceOf(queue[q], batch[q], tx[q])'
  BY StepBudget DEF SpaceInv
<1> USE DEF PipeInv
<1>0. SpaceOf(<<>>, <<>>, Idle) /\ \A q \in Replicas : queue[q] \in Seq(Record) /\ batch[q] \in Seq(Record)
  BY SizeAssumption DEF SpaceOf, ShapeInv
<1>1. ASSUME NEW r \in Replicas, RecordUsage(r) PROVE \A q \in Replicas : SpaceOf(queue[q], batch[q], tx[q])'
  <2> DEFINE id == Cardinality(made) + 1
  <2>0. PICK spills \in Spills(Head(todo)) : RecordedAs(r, Numbered(Head(todo), id, spills))
    BY <1>1, RecordsOne
  <2> DEFINE rec == Numbered(Head(todo), id, spills)
  <2>1. /\ todo # <<>> /\ UNCHANGED batch
        /\ \/ Begin(id, <<rec>>) /\ UNCHANGED queue
           \/ /\ UNCHANGED tx
              /\ queue' = IF Len(queue[r]) < QueueCap
                          THEN [queue EXCEPT ![r] = Append(@, rec)] ELSE queue
    <3> HIDE DEF id, rec
    <3> QED BY <1>1, <2>0, RecordsOne DEF RecordedAs, id, rec
  <2>2. id \in Ids /\ rec \in Record
    <3> HIDE DEF id, rec
    <3> QED BY <2>1, NextRecord DEF id, rec
  <2> HIDE DEF id, rec
  <2>3. CASE Begin(id, <<rec>>) /\ UNCHANGED queue
    <3>1. \A q \in Replicas : tx'[q] = tx[q]
      <4>1. \A q \in Replicas : q \in Owners /\ q # id
        BY <2>2, OwnerAssumption DEF Owners
      <4> QED BY <2>3, <4>1 DEF Begin, ShapeInv
    <3> QED BY <2>1, <2>3, <3>1 DEF SpaceInv, SpaceOf
  <2>4. CASE /\ UNCHANGED tx
             /\ queue' = IF Len(queue[r]) < QueueCap
                         THEN [queue EXCEPT ![r] = Append(@, rec)] ELSE queue
    <3>1. ASSUME NEW q \in Replicas PROVE Len(queue'[q]) <= QueueCap
      <4>1. CASE Len(queue[r]) < QueueCap /\ q = r
        <5>1. queue'[q] = Append(queue[r], rec)
          BY <2>4, <4>1 DEF ShapeInv
        <5>2. Len(queue'[q]) = Len(queue[r]) + 1 /\ Len(queue[r]) \in Nat
          BY <1>0, <2>2, <5>1
        <5> QED BY <4>1, <5>2, SizeAssumption
      <4>2. CASE ~(Len(queue[r]) < QueueCap /\ q = r)
        <5>1. queue'[q] = queue[q]
          BY <2>4, <4>2 DEF ShapeInv
        <5> QED BY <5>1 DEF SpaceInv, SpaceOf
      <4> QED BY <4>1, <4>2
    <3> QED BY <2>1, <2>4, <3>1 DEF SpaceInv, SpaceOf
  <2> QED BY <2>1, <2>3, <2>4
<1>2. ASSUME NEW r \in Replicas, FlushTick(r) PROVE \A q \in Replicas : SpaceOf(queue[q], batch[q], tx[q])'
  <2>1. Begin(r, batch[r]) /\ batch[r] # <<>> /\ UNCHANGED <<queue, batch>>
    BY <1>2 DEF FlushTick
  <2>2. tx'[r] # Idle /\ \A q \in Replicas \ {r} : tx'[q] = tx[q]
    BY <1>0, <2>1, BegunOpen
  <2> QED BY <2>1, <2>2 DEF SpaceInv, SpaceOf
<1>3. ASSUME NEW r \in Replicas, Crash(r) PROVE \A q \in Replicas : SpaceOf(queue[q], batch[q], tx[q])'
  <2>1. /\ queue' = [queue EXCEPT ![r] = <<>>] /\ batch' = [batch EXCEPT ![r] = <<>>]
        /\ tx' = [o \in Owners |-> IF o = r \/ \E n \in DOMAIN tx[o].recs : tx[o].recs[n].by = r
                                   THEN Idle ELSE tx[o]]
    BY <1>3 DEF Crash
  <2>2. queue'[r] = <<>> /\ batch'[r] = <<>> /\ tx'[r] = Idle
    BY <2>1 DEF ShapeInv, Owners
  <2>3. ASSUME NEW q \in Replicas \ {r} PROVE queue'[q] = queue[q] /\ batch'[q] = batch[q] /\ tx'[q] = tx[q]
    <3>1. q \in Owners /\ q # r
      BY DEF Owners
    <3>2. \A n \in DOMAIN tx[q].recs : tx[q].recs[n].by = q
      <4> SUFFICES ASSUME NEW n \in DOMAIN tx[q].recs PROVE tx[q].recs[n].by = q
        OBVIOUS
      <4>1. tx[q].recs[n] \in ToSet(tx[q].recs)
        BY DEF ToSet
      <4> QED BY <3>1, <4>1, InsertedRecords
    <3> QED BY <2>1, <3>1, <3>2 DEF ShapeInv
  <2> QED BY <1>0, <2>2, <2>3 DEF SpaceInv, SpaceOf
<1>4. ASSUME NEW o \in Owners, Execute(o) PROVE \A q \in Replicas : SpaceOf(queue[q], batch[q], tx[q])'
  <2>1. tx' = [tx EXCEPT ![o].done = @ + 1] /\ tx[o] # Idle /\ UNCHANGED <<queue, batch>>
    BY <1>4 DEF Execute
  <2>2. tx[o].done \in Nat
    BY DEF ShapeInv, Transaction
  <2>3. \A q \in Replicas : tx'[q] = Idle => tx[q] = Idle
    <3>1. tx'[o].done = tx[o].done + 1 /\ \A q \in Owners \ {o} : tx'[q] = tx[q]
      BY <2>1 DEF ShapeInv, Transaction
    <3>2. tx'[o].done # Idle.done
      BY <2>2, <3>1 DEF Idle
    <3> QED BY <3>1, <3>2 DEF Owners
  <2> QED BY <2>1, <2>3 DEF SpaceInv, SpaceOf
<1>5. ASSUME NEW o \in Owners, Commit(o) \/ Fail(o) \/ AbortDeadlocked(o)
      PROVE  \A q \in Replicas : SpaceOf(queue[q], batch[q], tx[q])'
  <2>1. /\ tx' = [tx EXCEPT ![o] = Idle] /\ UNCHANGED queue
        /\ batch' = IF o \in Replicas THEN [batch EXCEPT ![o] = <<>>] ELSE batch
    BY <1>5 DEF Commit, Fail, AbortDeadlocked, End
  <2>2. ASSUME NEW q \in Replicas PROVE SpaceOf(queue[q], batch[q], tx[q])'
    <3>1. CASE q = o
      <4>1. batch'[q] = <<>> /\ queue'[q] = queue[q]
        BY <2>1, <3>1 DEF ShapeInv
      <4> QED BY <1>0, <4>1 DEF SpaceInv, SpaceOf
    <3>2. CASE q # o
      <4>1. batch'[q] = batch[q] /\ queue'[q] = queue[q] /\ tx'[q] = tx[q]
        BY <2>1, <3>2 DEF ShapeInv, Owners
      <4> QED BY <4>1 DEF SpaceInv
    <3> QED BY <3>1, <3>2
  <2> QED BY <2>2
<1>6. CASE ReadUsage \/ Done \/ UNCHANGED vars
  <2>1. UNCHANGED <<queue, batch, tx>>
    BY <1>6 DEF ReadUsage, Done, vars, mem
  <2> QED BY <2>1 DEF SpaceInv
<1> QED BY <1>1, <1>2, <1>3, <1>4, <1>5, <1>6, TakeSpace DEF Next

\* Every variable of the pipeline has its type, and no queue and no batch
\* outgrows its capacity (usageCh, usageWriter).
THEOREM TypeCorrect == Spec => []TypeOK
<1>1. Init => DoneInv /\ SpaceInv
  BY SizeAssumption DEF Init, DoneInv, Idle, SpaceInv, SpaceOf, BudgetInv
<1>2. Spec => [](DoneInv /\ SpaceInv)
  BY <1>1, PipeInvariant, StepDone, StepSpace, PTL DEF Spec
<1>3. PipeInv /\ TablesInv /\ DoneInv /\ SpaceInv => TypeOK
  <2> SUFFICES ASSUME PipeInv, TablesInv, DoneInv, SpaceInv PROVE TypeOK
    OBVIOUS
  <2>1. \A S \in SUBSET logs : Cardinality(S) \in 0..MaxRecords
    <3> SUFFICES ASSUME NEW S \in SUBSET logs PROVE Cardinality(S) \in 0..MaxRecords
      OBVIOUS
    <3>1. IsFiniteSet(made) /\ S \subseteq made /\ Cardinality(made) + Len(todo) <= MaxRecords
          /\ todo \in Seq(Requests)
      BY DEF PipeInv, MadeInv
    <3>2. IsFiniteSet(S) /\ Cardinality(S) <= Cardinality(made)
      BY <3>1, FS_Subset
    <3>3. Cardinality(S) \in Nat /\ Cardinality(made) \in Nat /\ Len(todo) \in Nat
      BY <3>1, <3>2, FS_CardinalityType
    <3> QED BY <3>1, <3>2, <3>3, SizeAssumption
  <2>2. \A S \in SUBSET logs : Tally(S) \in Agg
    <3> SUFFICES ASSUME NEW S \in SUBSET logs PROVE Tally(S) \in Agg
      OBVIOUS
    <3>1. {x \in S : x.failed} \in SUBSET logs
      OBVIOUS
    <3> QED BY <2>1, <3>1 DEF Tally, Agg
  <2>3. \A row \in DOMAIN hourly : hourly[row] \in Agg
    BY <2>2 DEF TablesInv, SumsOf
  <2>4. \A row \in DOMAIN daily : daily[row] \in Agg
    BY <2>2 DEF TablesInv, SumsOf
  <2>5. made \subseteq Record /\ logs \subseteq made
    BY DEF PipeInv, MadeInv
  <2>6. \A r \in Replicas : /\ queue[r] \in Seq(Record) /\ Len(queue[r]) <= QueueCap
                            /\ batch[r] \in Seq(Record) /\ Len(batch[r]) <= BatchCap
    BY DEF PipeInv, ShapeInv, SpaceInv, SpaceOf
  <2>7. \A o \in Owners : tx[o].recs \in Seq(Record) /\ tx[o].done \in 0..Len(tx[o].stmts)
    BY DEF PipeInv, ShapeInv, Transaction, DoneInv
  <2> QED BY <2>3, <2>4, <2>5, <2>6, <2>7 DEF TypeOK, SpaceInv, BudgetInv
<1> QED BY <1>2, <1>3, PipeInvariant, TablesInvariant, PTL

-----------------------------------------------------------------------------
(* Buckets of time                                                         *)

Multiple(m, s) == \E k \in Int : m = k * s

\* Rounding down reaches the multiple just below.
LEMMA FloorBounds ==
    ASSUME NEW t \in Int, NEW s \in Nat \ {0}
    PROVE  /\ FloorTo(t, s, 0) \in Int /\ Multiple(FloorTo(t, s, 0), s)
           /\ FloorTo(t, s, 0) <= t /\ t < FloorTo(t, s, 0) + s
<1> DEFINE k == t \div s
<1>1. k \in Int /\ k * s \in Int /\ k * s <= t /\ t < k * s + s
  OBVIOUS
<1>2. FloorTo(t, s, 0) = k * s
  BY <1>1 DEF FloorTo
<1> HIDE DEF k
<1> QED BY <1>1, <1>2 DEF Multiple

\* Two multiples of a number are at least so far apart.
LEMMA MultiplesApart ==
    ASSUME NEW s \in Nat \ {0}, NEW a \in Int, NEW b \in Int, Multiple(a, s), Multiple(b, s), a < b
    PROVE  a + s <= b
<1>1. PICK i \in Int : a = i * s
  BY DEF Multiple
<1>2. PICK j \in Int : b = j * s
  BY DEF Multiple
<1>3. i < j
  <2> SUFFICES ASSUME j <= i PROVE FALSE
    OBVIOUS
  <2>1. (i - j) \in Nat /\ (i - j) * s >= 0
    OBVIOUS
  <2>2. (i - j) * s = i * s - j * s
    OBVIOUS
  <2> QED BY <1>1, <1>2, <2>1, <2>2
<1>4. (j - i - 1) \in Nat /\ (j - i - 1) * s >= 0
  BY <1>3
<1>5. (j - i - 1) * s = j * s - i * s - s
  OBVIOUS
<1> QED BY <1>1, <1>2, <1>4, <1>5

\* A bucket begins at or after a bucket's beginning if its instants do.
LEMMA FloorAbove ==
    ASSUME NEW t \in Int, NEW s \in Nat \ {0}, NEW m \in Int, Multiple(m, s)
    PROVE  FloorTo(t, s, 0) >= m <=> t >= m
<1> DEFINE F == FloorTo(t, s, 0)
<1>1. F \in Int /\ Multiple(F, s) /\ F <= t /\ t < F + s
  BY FloorBounds
<1> HIDE DEF F
<1>2. F < m => F + s <= m
  BY <1>1, MultiplesApart
<1>3. F >= m <=> t >= m
  BY <1>1, <1>2
<1> QED BY <1>3 DEF F

\* The next beginning of a bucket.
CeilTo(t, s) == IF FloorTo(t, s, 0) = t THEN t ELSE FloorTo(t, s, 0) + s

\* Rounding up reaches the multiple just above: a bucket begins at or after an
\* instant exactly when it does at or after the rounded one.
LEMMA CeilBounds ==
    ASSUME NEW t \in Int, NEW s \in Nat \ {0}
    PROVE  /\ CeilTo(t, s) \in Int /\ Multiple(CeilTo(t, s), s)
           /\ t <= CeilTo(t, s) /\ CeilTo(t, s) < t + s
           /\ \A b \in Int : Multiple(b, s) => (b >= t <=> b >= CeilTo(t, s))
<1> DEFINE F == FloorTo(t, s, 0)
           C == CeilTo(t, s)
<1>1. F \in Int /\ Multiple(F, s) /\ F <= t /\ t < F + s
  BY FloorBounds
<1>2. C = IF F = t THEN t ELSE F + s
  BY DEF CeilTo
<1> HIDE DEF F, C
<1>3. C \in Int /\ t <= C /\ C < t + s
  BY <1>1, <1>2
<1>4. Multiple(C, s)
  <2>1. PICK k \in Int : F = k * s
    BY <1>1 DEF Multiple
  <2>2. F + s = (k + 1) * s /\ k + 1 \in Int
    BY <2>1
  <2> QED BY <1>1, <1>2, <2>2 DEF Multiple
<1>5. ASSUME NEW b \in Int, Multiple(b, s) PROVE b >= t <=> b >= C
  <2>1. b > F => F + s <= b
    BY <1>1, <1>5, MultiplesApart
  <2> QED BY <1>1, <1>2, <1>3, <2>1
<1> QED BY <1>3, <1>4, <1>5 DEF C

-----------------------------------------------------------------------------
(* The usage page                                                          *)

\* The logged records that the reads of a page count.
Page(q) == IF Source(q) = "logs" THEN AskedLogs(q)
           ELSE {rec \in logs : StatsRow(rec, BucketOf(Source(q))) \in AskedRows(q)}

CountsOf(q) ==
    /\ Totals(q) = Tally(Page(q))
    /\ SumOver(DOMAIN Series(q), Series(q)) = Tally(Page(q))
    /\ DOMAIN ByKey(q) = {rec.key : rec \in Page(q)}
    /\ \A k \in DOMAIN ByKey(q) : ByKey(q)[k] = Cardinality({rec \in Page(q) : rec.key = k})

\* There are three sources, and each table has its own buckets.
LEMMA Sources ==
    ASSUME NEW q
    PROVE  /\ Source(q) \in {"logs", "hourly", "daily"}
           /\ BucketOf("hourly") = HourLen /\ BucketOf("daily") = DayLen
           /\ TableOf("hourly") = hourly /\ TableOf("daily") = daily
BY DEF Source, BucketOf, TableOf

\* The points of a series count the records of its page, if each counts those
\* of its own.
LEMMA PointsCount ==
    ASSUME NEW L, IsFiniteSet(L), NEW point, NEW f, DOMAIN f = {point[rec] : rec \in L},
           \A b \in DOMAIN f : f[b] = Tally({rec \in L : point[rec] = b})
    PROVE  SumOver(DOMAIN f, f) = Tally(L)
<1> DEFINE R == DOMAIN f
<1>1. IsFiniteSet(R)
  BY FiniteImage
<1>2. Counted(f, L, point, R)
  <2> SUFFICES ASSUME NEW b \in R PROVE f[b] = Tally(Under(L, point, {b}))
    BY DEF Counted
  <2>1. Under(L, point, {b}) = {rec \in L : point[rec] = b}
    BY DEF Under
  <2> QED BY <2>1
<1>3. Under(L, point, R) = L
  BY DEF Under
<1> HIDE DEF R
<1>4. SumOver(R, f) = Tally(Under(L, point, R))
  BY <1>1, <1>2, SumOfRows
<1> QED BY <1>3, <1>4 DEF R

\* What the logs answer counts each record of the window once.
LEMMA LogsPage ==
    ASSUME PipeInv, NEW q, Source(q) = "logs"
    PROVE  CountsOf(q)
<1> DEFINE L == AskedLogs(q)
           pt(t) == FloorBucket(t, BucketOf(Source(q)), Offset)
           point == [rec \in L |-> pt(rec.at)]
           f == Series(q)
<1>1. Page(q) = L
  BY DEF Page
<1>2. IsFiniteSet(L)
  <2>1. IsFiniteSet(logs)
    BY FS_Subset DEF PipeInv, MadeInv
  <2> QED BY <2>1, FS_Subset DEF AskedLogs
<1>3. Totals(q) = SumOf(L, AggOf)
  BY DEF Totals
<1>4. Totals(q) = Tally(L)
  <2> HIDE DEF L
  <2> QED BY <1>2, <1>3, SumOfRecords
<1>5. DOMAIN f = {point[rec] : rec \in L}
  BY DEF Series
<1>6. ASSUME NEW b \in DOMAIN f PROVE f[b] = Tally({rec \in L : point[rec] = b})
  <2> DEFINE S == {rec \in L : pt(rec.at) = b}
  <2>1. f[b] = SumOf(S, AggOf)
    BY <1>6 DEF Series
  <2>2. S = {rec \in L : point[rec] = b} /\ IsFiniteSet(S)
    BY <1>2, FS_Subset
  <2> HIDE DEF S, f, L, point
  <2>3. f[b] = Tally(S)
    BY <2>1, <2>2, SumOfRecords
  <2> QED BY <2>2, <2>3
<1>7. /\ DOMAIN ByKey(q) = {rec.key : rec \in L}
      /\ \A k \in DOMAIN ByKey(q) : ByKey(q)[k] = Cardinality({rec \in L : rec.key = k})
  BY DEF ByKey
<1> HIDE DEF L, point, f
<1>8. SumOver(DOMAIN f, f) = Tally(L)
  BY <1>2, <1>5, <1>6, PointsCount
<1> QED BY <1>1, <1>4, <1>7, <1>8 DEF CountsOf, f

\* What a statistics table answers counts each record of the window once.
LEMMA StatsPage ==
    ASSUME PipeInv, TablesInv, NEW q, Source(q) # "logs"
    PROVE  CountsOf(q)
<1> DEFINE size == BucketOf(Source(q))
           table == TableOf(Source(q))
           A == AskedRows(q)
           L == Page(q)
           pt(t) == FloorBucket(t, size, Offset)
           point == [rec \in L |-> pt(StatsRow(rec, size).bucket)]
           f == Series(q)
<1>1. IsFiniteSet(logs)
  BY FS_Subset DEF PipeInv, MadeInv
<1>2. table = SumsOf(logs, size)
  BY Sources DEF TablesInv
<1>3. A \subseteq DOMAIN table /\ L = {rec \in logs : StatsRow(rec, size) \in A}
  BY DEF AskedRows, Page
<1>4. A = {StatsRow(rec, size) : rec \in L}
  BY <1>2, <1>3 DEF SumsOf
<1>5. IsFiniteSet(L)
  BY <1>1, <1>3, FS_Subset
<1>6. ASSUME NEW R \in SUBSET A PROVE SumOver(R, table) = Tally({rec \in L : StatsRow(rec, size) \in R})
  <2>1. {rec \in L : StatsRow(rec, size) \in R} = {rec \in logs : StatsRow(rec, size) \in R}
    BY <1>3
  <2>2. R \subseteq DOMAIN table
    BY <1>3
  <2> HIDE DEF size, table, A, L
  <2>3. SumOver(R, table) = Tally({rec \in logs : StatsRow(rec, size) \in R})
    BY <1>1, <1>2, <2>2, RowsOfTable
  <2> QED BY <2>1, <2>3
<1>7. Totals(q) = Tally(L)
  <2>1. Totals(q) = SumOver(A, table)
    BY DEF Totals, SumOver
  <2>2. {rec \in L : StatsRow(rec, size) \in A} = L
    BY <1>3
  <2> HIDE DEF size, table, A, L
  <2>3. SumOver(A, table) = Tally({rec \in L : StatsRow(rec, size) \in A})
    BY <1>6
  <2> QED BY <2>1, <2>2, <2>3
<1>8. DOMAIN f = {pt(row.bucket) : row \in A} /\ DOMAIN f = {point[rec] : rec \in L}
  <2>1. DOMAIN f = {pt(row.bucket) : row \in A}
    BY DEF Series
  <2> HIDE DEF f, pt, A, L
  <2>2. {pt(row.bucket) : row \in A} = {pt(StatsRow(rec, size).bucket) : rec \in L}
    BY <1>4
  <2> QED BY <2>1, <2>2
<1>9. ASSUME NEW b \in DOMAIN f PROVE f[b] = Tally({rec \in L : point[rec] = b})
  <2> DEFINE R == {row \in A : pt(row.bucket) = b}
  <2>1. f[b] = SumOver(R, table)
    BY <1>9 DEF Series, SumOver
  <2>2. {rec \in L : StatsRow(rec, size) \in R} = {rec \in L : point[rec] = b}
    <3> HIDE DEF pt, L
    <3> QED BY <1>4
  <2>3. SumOver(R, table) = Tally({rec \in L : StatsRow(rec, size) \in R})
    <3>1. R \in SUBSET A
      OBVIOUS
    <3> HIDE DEF R, A, L, table, size
    <3> QED BY <1>6, <3>1
  <2> QED BY <2>1, <2>2, <2>3
<1>10. DOMAIN ByKey(q) = {rec.key : rec \in L}
  <2>1. DOMAIN ByKey(q) = {row.key : row \in A}
    BY DEF ByKey
  <2>2. \A rec : StatsRow(rec, size).key = rec.key
    BY DEF StatsRow
  <2> HIDE DEF A, L, size
  <2> QED BY <1>4, <2>1, <2>2
<1>11. ASSUME NEW k \in DOMAIN ByKey(q) PROVE ByKey(q)[k] = Cardinality({rec \in L : rec.key = k})
  <2> DEFINE R == {row \in A : row.key = k}
  <2>1. ByKey(q)[k] = SumOver(R, table).requests
    BY <1>11 DEF ByKey, SumOver
  <2>2. {rec \in L : StatsRow(rec, size) \in R} = {rec \in L : rec.key = k}
    <3>1. \A rec : StatsRow(rec, size).key = rec.key
      BY DEF StatsRow
    <3> HIDE DEF L, A, size
    <3> QED BY <1>4, <3>1
  <2>3. SumOver(R, table) = Tally({rec \in L : StatsRow(rec, size) \in R})
    <3>1. R \in SUBSET A
      OBVIOUS
    <3> HIDE DEF R, A, L, table, size
    <3> QED BY <1>6, <3>1
  <2> HIDE DEF R, A, L, table, size
  <2>4. SumOver(R, table) = Tally({rec \in L : rec.key = k})
    BY <2>2, <2>3
  <2> QED BY <2>1, <2>4 DEF Tally
<1>12. SumOver(DOMAIN f, f) = Tally(L)
  <2> HIDE DEF f, point, L, size
  <2> QED BY <1>5, <1>8, <1>9, PointsCount
<1> QED BY <1>7, <1>10, <1>11, <1>12 DEF CountsOf

\* What SummaryExact says a page counts.
InWindow(q) == {rec \in logs : /\ rec.user = q.user /\ q.key \in {AnyKey, rec.key}
                               /\ Window(q)[1] # NoTime => rec.at >= Window(q)[1]
                               /\ Window(q)[2] # NoTime => rec.at < Window(q)[2]}

\* A bucket begins within a range, its ends taken to the next beginnings of
\* buckets, when its instants lie in it.
LEMMA BucketWithin ==
    ASSUME NEW at \in Int, NEW s \in Nat \ {0}, NEW from \in Int, NEW to \in Int
    PROVE  FloorTo(at, s, 0) >= from /\ FloorTo(at, s, 0) < to
           <=> at >= CeilTo(from, s) /\ at < CeilTo(to, s)
<1> DEFINE F == FloorTo(at, s, 0)
           a == CeilTo(from, s)
           b == CeilTo(to, s)
<1>1. F \in Int /\ Multiple(F, s)
  BY FloorBounds
<1>2. a \in Int /\ Multiple(a, s) /\ (F >= from <=> F >= a)
  BY <1>1, CeilBounds
<1>3. b \in Int /\ Multiple(b, s) /\ (F >= to <=> F >= b)
  BY <1>1, CeilBounds
<1>4. (F >= a <=> at >= a) /\ (F >= b <=> at >= b)
  BY <1>2, <1>3, FloorAbove
<1> HIDE DEF F, a, b
<1>5. F >= from /\ F < to <=> at >= a /\ at < b
  BY <1>1, <1>2, <1>3, <1>4
<1> QED BY <1>5 DEF F, a, b

\* The beginning of an hour is its own next beginning.
LEMMA CeilOfMultiple ==
    ASSUME NEW m \in Int, NEW s \in Nat \ {0}, Multiple(m, s)
    PROVE  CeilTo(m, s) = m
<1>1. FloorTo(m, s, 0) >= m <=> m >= m
  BY FloorAbove
<1>2. FloorTo(m, s, 0) <= m /\ FloorTo(m, s, 0) \in Int
  BY FloorBounds
<1> QED BY <1>1, <1>2 DEF CeilTo

\* The page counts the records of its window.
LEMMA PageIsWindow ==
    ASSUME PipeInv, TablesInv, NEW q \in Queries
    PROVE  /\ Page(q) = InWindow(q)
           /\ Source(q) = "hourly" =>
                 /\ q.from - HourLen < Window(q)[1] /\ Window(q)[1] <= q.from
                 /\ q.to <= Window(q)[2] /\ Window(q)[2] < q.to + HourLen
<1>1. CASE Source(q) = "logs"
  <2>1. Window(q)[1] = q.from /\ Window(q)[2] = q.to
    BY <1>1 DEF Window
  <2> QED BY <1>1, <2>1 DEF Page, AskedLogs, Asked, InWindow
<1>2. CASE Source(q) # "logs"
  <2> DEFINE source == Source(q)
             size == BucketOf(source)
             lo == FloorTo(q.from, HourLen, 0)
             hi == CeilHour(q.to)
  <2>1. q.from \in Int /\ q.to \in Int /\ NoTime \notin Int
    BY <1>2, QueryAssumption DEF Source
  <2>2. HourLen \in Nat \ {0} /\ DayLen \in Nat \ {0}
    <3>1. PICK h \in 1..DayLen : DayLen = h * HourLen
      BY TimeAssumption
    <3>2. h \in Nat \ {0} /\ h * HourLen \in Nat \ {0}
      BY <3>1, TimeAssumption
    <3> QED BY <3>1, <3>2, TimeAssumption
  <2>3. /\ source \in {"hourly", "daily"}
        /\ size = IF source = "hourly" THEN HourLen ELSE DayLen
        /\ TableOf(source) = SumsOf(logs, size)
    BY <1>2, Sources DEF TablesInv
  <2>4. hi = CeilTo(q.to, HourLen)
    BY DEF CeilHour, CeilTo
  <2>5. /\ lo \in Int /\ Multiple(lo, HourLen) /\ lo <= q.from /\ q.from - HourLen < lo
        /\ hi \in Int /\ Multiple(hi, HourLen) /\ q.to <= hi /\ hi < q.to + HourLen
    <3> HIDE DEF lo, hi
    <3>1. lo \in Int /\ Multiple(lo, HourLen) /\ lo <= q.from /\ q.from < lo + HourLen
      BY <2>1, <2>2, FloorBounds DEF lo
    <3>2. hi \in Int /\ Multiple(hi, HourLen) /\ q.to <= hi /\ hi < q.to + HourLen
      BY <2>1, <2>2, <2>4, CeilBounds
    <3> QED BY <2>1, <2>2, <3>1, <3>2
  <2>6. Window(q)[1] = CeilTo(lo, size) /\ Window(q)[2] = CeilTo(hi, size)
    <3>1. CASE source = "hourly"
      <4>1. Window(q)[1] = lo /\ Window(q)[2] = hi /\ size = HourLen
        BY <2>3, <3>1 DEF Window
      <4> HIDE DEF lo, hi, size, source
      <4> QED BY <2>2, <2>5, <4>1, CeilOfMultiple
    <3>2. CASE source = "daily"
      <4>1. Window(q)[1] = CeilDay(lo) /\ Window(q)[2] = CeilDay(hi) /\ size = DayLen
        BY <2>3, <3>2 DEF Window
      <4> HIDE DEF lo, hi, size, source
      <4> QED BY <4>1 DEF CeilDay, CeilTo
    <3> QED BY <2>3, <3>1, <3>2
  <2>7. ASSUME NEW rec \in logs
        PROVE  StatsRow(rec, size) \in AskedRows(q)
               <=> /\ rec.user = q.user /\ q.key \in {AnyKey, rec.key}
                   /\ FloorTo(rec.at, size, 0) >= lo /\ FloorTo(rec.at, size, 0) < hi
    <3>1. StatsRow(rec, size) \in DOMAIN TableOf(source)
      BY <2>3 DEF SumsOf
    <3>2. StatsRow(rec, size) = [bucket |-> FloorTo(rec.at, size, 0), user |-> rec.user, key |-> rec.key]
      BY DEF StatsRow
    <3>3. q.from # NoTime /\ q.to # NoTime
      BY <2>1
    <3> QED BY <1>2, <3>1, <3>2, <3>3 DEF AskedRows, Asked
  <2>8. ASSUME NEW rec \in logs
        PROVE  FloorTo(rec.at, size, 0) >= lo /\ FloorTo(rec.at, size, 0) < hi
               <=> rec.at >= Window(q)[1] /\ rec.at < Window(q)[2]
    <3>1. rec.at \in Int
      BY ScriptAssumption DEF PipeInv, MadeInv, Record, Numbered
    <3>2. size \in Nat \ {0}
      BY <2>2, <2>3
    <3> HIDE DEF size, lo, hi, source
    <3> QED BY <2>5, <2>6, <3>1, <3>2, BucketWithin
  <2>9. Window(q)[1] \in Int /\ Window(q)[2] \in Int
    <3>1. size \in Nat \ {0}
      BY <2>2, <2>3
    <3> HIDE DEF size, lo, hi, source
    <3> QED BY <2>5, <2>6, <3>1, CeilBounds
  <2>10. Page(q) = InWindow(q)
    <3>1. Page(q) = {rec \in logs : StatsRow(rec, size) \in AskedRows(q)}
      BY <1>2 DEF Page
    <3>2. InWindow(q) = {rec \in logs : /\ rec.user = q.user /\ q.key \in {AnyKey, rec.key}
                                        /\ rec.at >= Window(q)[1] /\ rec.at < Window(q)[2]}
      BY <2>1, <2>9 DEF InWindow
    <3> HIDE DEF size, lo, hi, source
    <3> QED BY <2>7, <2>8, <3>1, <3>2
  <2>11. source = "hourly" => Window(q)[1] = lo /\ Window(q)[2] = hi
    BY DEF Window
  <2> HIDE DEF lo, hi, size
  <2> QED BY <2>5, <2>10, <2>11
<1> QED BY <1>1, <1>2

\* A summary counts each logged record of its window once, in the totals, by
\* key and in the series, whichever of the three tables answers, and the
\* window is the range asked for, widened by less than an hour at either end
\* unless the days answer (usageStatsSource, usageStatsWhere, usageSeries,
\* usageSeriesFromStats, usageByKey, usageByKeyFromStats).
THEOREM SummariesExact == Spec => []SummaryExact
<1>1. PipeInv /\ TablesInv => SummaryExact
  <2> SUFFICES ASSUME PipeInv, TablesInv, NEW q \in Queries
               PROVE  /\ Totals(q) = SumOf(InWindow(q), AggOf)
                      /\ SumOver(DOMAIN Series(q), Series(q)) = Totals(q)
                      /\ \A k \in DOMAIN ByKey(q) :
                            ByKey(q)[k] = Cardinality({rec \in InWindow(q) : rec.key = k})
                      /\ Source(q) = "hourly" =>
                            /\ q.from - HourLen < Window(q)[1] /\ Window(q)[1] <= q.from
                            /\ q.to <= Window(q)[2] /\ Window(q)[2] < q.to + HourLen
    BY DEF SummaryExact, InWindow, SumOver
  <2>1. CountsOf(q)
    BY LogsPage, StatsPage
  <2>2. IsFiniteSet(InWindow(q))
    <3>1. IsFiniteSet(logs)
      BY FS_Subset DEF PipeInv, MadeInv
    <3> QED BY <3>1, FS_Subset DEF InWindow
  <2>3. SumOf(InWindow(q), AggOf) = Tally(InWindow(q))
    BY <2>2, SumOfRecords
  <2> QED BY <2>1, <2>3, PageIsWindow DEF CountsOf
<1> QED BY <1>1, PipeInvariant, TablesInvariant, PTL

-----------------------------------------------------------------------------
(* The three reads of a page                                               *)

\* A record is on a page for what it is, whatever else is logged.
Chosen(q, rec) ==
    IF Source(q) = "logs" THEN Asked(q, rec, rec.at)
    ELSE LET row == StatsRow(rec, BucketOf(Source(q))) IN Asked(q, row, row.bucket)

\* The records a query counts are those logged whose instant, user and key it chooses.
LEMMA PageChosen == TablesInv => \A q : Page(q) = {rec \in logs : Chosen(q, rec)}
<1> SUFFICES ASSUME TablesInv, NEW q PROVE Page(q) = {rec \in logs : Chosen(q, rec)}
  OBVIOUS
<1>1. CASE Source(q) = "logs"
  BY <1>1 DEF Page, AskedLogs, Chosen
<1>2. CASE Source(q) # "logs"
  <2>1. TableOf(Source(q)) = SumsOf(logs, BucketOf(Source(q)))
    BY <1>2, Sources DEF TablesInv
  <2>2. \A rec \in logs : StatsRow(rec, BucketOf(Source(q))) \in DOMAIN TableOf(Source(q))
    BY <2>1 DEF SumsOf
  <2> QED BY <1>2, <2>2 DEF Page, AskedRows, Chosen
<1> QED BY <1>1, <1>2

\* PageChosen of the next state.
LEMMA PageChosenNext == (TablesInv => \A q : Page(q) = {rec \in logs : Chosen(q, rec)})'
BY PageChosen, PTL

\* No step takes a record out of the logs, so none takes one off a page.
LEMMA PageGrows ==
    ASSUME PipeInv, TablesInv, [Next]_vars, NEW q
    PROVE  /\ Page(q) \subseteq Page(q)' /\ IsFiniteSet(Page(q)')
           /\ Cardinality(Page(q)) \in Nat /\ Cardinality(Page(q)') \in Nat
           /\ Cardinality(Page(q)) <= Cardinality(Page(q)')
<1>1. PipeInv' /\ TablesInv'
  BY StepPipe, StepTables
<1>2. logs \subseteq logs'
  <2>1. ASSUME NEW r \in Replicas, RecordUsage(r) \/ Take(r) \/ FlushTick(r) \/ Crash(r)
        PROVE  UNCHANGED logs
    BY <2>1 DEF RecordUsage, Take, FlushTick, Crash, tables
  <2>2. ASSUME NEW o \in Owners, Execute(o) \/ Fail(o) \/ AbortDeadlocked(o) PROVE UNCHANGED logs
    BY <2>2 DEF Execute, Fail, AbortDeadlocked, tables
  <2>3. ReadUsage \/ Done \/ UNCHANGED vars => UNCHANGED logs
    BY DEF ReadUsage, Done, vars, tables
  <2>4. ASSUME NEW o \in Owners, Commit(o) PROVE logs \subseteq logs'
    BY <2>4 DEF Commit
  <2> QED BY <2>1, <2>2, <2>3, <2>4 DEF Next
<1>3. Page(q) = {rec \in logs : Chosen(q, rec)}
  BY PageChosen
<1>4. Page(q)' = {rec \in logs' : Chosen(q, rec)}
  BY <1>1, PageChosenNext DEF Chosen, Asked, StatsRow, BucketOf, Source
<1>5. IsFiniteSet(logs')
  BY <1>1, FS_Subset DEF PipeInv, MadeInv
<1> DEFINE S == Page(q)
           T == Page(q)'
<1>6. IsFiniteSet(T) /\ S \subseteq T
  BY <1>2, <1>3, <1>4, <1>5, FS_Subset
<1> HIDE DEF S, T
<1>7. Cardinality(S) \in Nat /\ Cardinality(T) \in Nat /\ Cardinality(S) <= Cardinality(T)
  BY <1>6, FS_Subset, FS_CardinalityType
<1> QED BY <1>6, <1>7 DEF S, T

\* The counts of all keys add up to the number of the records.
LEMMA KeysCount ==
    ASSUME NEW L, IsFiniteSet(L), NEW f, DOMAIN f = {rec.key : rec \in L},
           \A k \in DOMAIN f : f[k] = Cardinality({rec \in L : rec.key = k})
    PROVE  Total(DOMAIN f, f) = Cardinality(L)
<1> DEFINE K == DOMAIN f
           of(s) == {rec \in L : rec.key \in s}
           C == {s \in SUBSET K : Total(s, f) # Cardinality(of(s))}
<1>1. of(K) = L
  OBVIOUS
<1>2. IsFiniteSet(K)
  <2> DEFINE key == [rec \in L |-> rec.key]
  <2>1. K = {key[rec] : rec \in L}
    OBVIOUS
  <2> HIDE DEF key, K
  <2> QED BY <2>1, FiniteImage
<1>3. \A s : IsFiniteSet(of(s)) /\ Cardinality(of(s)) \in Nat
  <2> TAKE s
  <2>1. of(s) \subseteq L
    OBVIOUS
  <2> HIDE DEF of
  <2> QED BY <2>1, FS_Subset, FS_CardinalityType
<1>4. \A k \in K : f[k] = Cardinality(of({k}))
  <2> TAKE k \in K
  <2>1. of({k}) = {rec \in L : rec.key = k}
    OBVIOUS
  <2> QED BY <2>1
<1>5. C = {}
  <2> SUFFICES ASSUME C # {} PROVE FALSE
    OBVIOUS
  <2>1. PICK s \in C : \A w \in C : w \subseteq s => w = s
    <3>1. C \subseteq SUBSET K
      OBVIOUS
    <3> HIDE DEF C, K
    <3> QED BY <1>2, <3>1, LeastSubset
  <2>2. s # {}
    <3>1. of({}) = {} /\ Cardinality({}) = 0
      BY FS_EmptySet
    <3> QED BY <2>1, <3>1, TotalEmpty
  <2>3. PICK k \in s : TRUE
    BY <2>2
  <2> DEFINE r == s \ {k}
  <2>4. r \notin C /\ r \in SUBSET K /\ s \in SUBSET K /\ k \in K
    BY <2>1, <2>3
  <2>5. Total(r, f) = Cardinality(of(r)) /\ Total(s, f) # Cardinality(of(s))
    BY <2>1, <2>4
  <2>6. of(s) = of({k}) \union of(r) /\ of({k}) \intersect of(r) = {}
    BY <2>3
  <2>7. Total(s, f) = f[k] + Total(r, f)
    <3>1. IsFiniteSet(s) /\ \A x \in s : f[x] \in Int
      <4> HIDE DEF of, C, K
      <4>1. \A x \in s : x \in K
        BY <2>4
      <4>2. \A x \in s : f[x] \in Nat
        BY <1>3, <1>4, <4>1
      <4> QED BY <1>2, <2>4, <4>2, FS_Subset
    <3> HIDE DEF C
    <3> QED BY <2>3, <3>1, TotalTake
  <2> HIDE DEF r, of, C, K
  <2>8. Cardinality(of(s)) = Cardinality(of({k})) + Cardinality(of(r))
    BY <1>3, <2>6, CardinalityOfUnion
  <2> QED BY <1>4, <2>4, <2>5, <2>7, <2>8
<1> QED BY <1>1, <1>5

\* What has been read of a page is no more than what is on it now.
Keys(f) == Total(DOMAIN f, f)
Points(f) == SumOver(DOMAIN f, f).requests
Seen(q) == Cardinality(Page(q))

ReportInv ==
    /\ report.stage \in {"none", "totals", "keys", "done"}
    /\ report.stage = "totals" => report.totals.requests \in 0..Seen(report.query)
    /\ report.stage = "keys" =>
          /\ report.totals.requests \in Nat
          /\ Keys(report.byKey) \in report.totals.requests..Seen(report.query)
    /\ report.stage = "done" =>
          /\ report.totals.requests <= Keys(report.byKey)
          /\ Keys(report.byKey) <= Points(report.series)

\* What one read of a page finds.
LEMMA ReadsAll ==
    ASSUME PipeInv, TablesInv, NEW q
    PROVE  /\ Seen(q) \in Nat /\ Totals(q).requests = Seen(q)
           /\ Keys(ByKey(q)) = Seen(q) /\ Points(Series(q)) = Seen(q)
<1>1. CountsOf(q)
  BY LogsPage, StatsPage
<1>2. IsFiniteSet(Page(q))
  <2>1. IsFiniteSet(logs)
    BY FS_Subset DEF PipeInv, MadeInv
  <2>2. Page(q) \subseteq logs
    BY DEF Page, AskedLogs
  <2> QED BY <2>1, <2>2, FS_Subset
<1>3. Totals(q).requests = Seen(q) /\ Points(Series(q)) = Seen(q)
  BY <1>1 DEF CountsOf, Tally, Seen, Points
<1>4. Keys(ByKey(q)) = Seen(q)
  <2> DEFINE f == ByKey(q)
             L == Page(q)
  <2>1. DOMAIN f = {rec.key : rec \in L} /\ \A k \in DOMAIN f : f[k] = Cardinality({rec \in L : rec.key = k})
    BY <1>1 DEF CountsOf
  <2> HIDE DEF f, L
  <2>2. Total(DOMAIN f, f) = Cardinality(L)
    BY <1>2, <2>1, KeysCount DEF L
  <2> QED BY <2>2 DEF f, L, Keys, Seen
<1> QED BY <1>2, <1>3, <1>4, FS_CardinalityType DEF Seen

\* ReportInv is inductive with PipeInv and TablesInv.
LEMMA StepReport == PipeInv /\ TablesInv /\ ReportInv /\ [Next]_vars => ReportInv'
<1> SUFFICES ASSUME PipeInv, TablesInv, ReportInv, [Next]_vars PROVE ReportInv'
  OBVIOUS
<1>1. \A q : Seen(q) \in Nat /\ Seen(q)' \in Nat /\ Seen(q) <= Seen(q)'
  BY PageGrows DEF Seen
<1>2. ASSUME NEW q \in Pages, ReadTotals(q) PROVE ReportInv'
  <2>1. report' = [stage |-> "totals", query |-> q, totals |-> Totals(q)]
    BY <1>2 DEF ReadTotals
  <2>2. Totals(q).requests = Seen(q)
    BY ReadsAll
  <2> QED BY <1>1, <2>1, <2>2 DEF ReportInv
<1>3. CASE ReadByKey
  <2> DEFINE q == report.query
  <2>1. /\ report.stage = "totals"
        /\ report' = [stage |-> "keys", query |-> q, totals |-> report.totals, byKey |-> ByKey(q)]
    BY <1>3 DEF ReadByKey
  <2>2. Keys(ByKey(q)) = Seen(q) /\ report.totals.requests \in 0..Seen(q)
    BY <2>1, ReadsAll DEF ReportInv
  <2> HIDE DEF q
  <2> QED BY <1>1, <2>1, <2>2 DEF ReportInv, Keys
<1>4. CASE ReadSeries
  <2> DEFINE q == report.query
  <2>1. /\ report.stage = "keys"
        /\ report' = [stage |-> "done", query |-> q, totals |-> report.totals,
                      byKey |-> report.byKey, series |-> Series(q)]
    BY <1>4 DEF ReadSeries
  <2>2. Points(Series(q)) = Seen(q)
    BY ReadsAll
  <2>3. report.totals.requests \in Nat /\ Keys(report.byKey) \in report.totals.requests..Seen(q)
    BY <2>1 DEF ReportInv
  <2> HIDE DEF q
  <2> QED BY <1>1, <2>1, <2>2, <2>3 DEF ReportInv, Keys, Points
<1>5. CASE UNCHANGED report
  <2>1. Seen(report.query) \in Nat /\ Seen(report.query)' \in Nat /\ Seen(report.query) <= Seen(report.query)'
    BY <1>1, <1>5
  <2> QED BY <1>5, <2>1 DEF ReportInv, Keys, Points
<1>6. ASSUME NEW r \in Replicas, RecordUsage(r) \/ Take(r) \/ FlushTick(r) \/ Crash(r)
      PROVE  UNCHANGED report
  BY <1>6 DEF RecordUsage, Take, FlushTick, Crash
<1>7. ASSUME NEW o \in Owners, Execute(o) \/ Commit(o) \/ Fail(o) \/ AbortDeadlocked(o)
      PROVE  UNCHANGED report
  BY <1>7 DEF Execute, Commit, Fail, AbortDeadlocked, End
<1>8. Done \/ UNCHANGED vars => UNCHANGED report
  BY DEF Done, vars
<1> QED BY <1>2, <1>3, <1>4, <1>5, <1>6, <1>7, <1>8 DEF Next, ReadUsage

\* While records are being inserted, a later read of a summary never counts
\* less than an earlier one did: nothing that was counted disappears
\* (UsageSummary, UsageSummaryFromStats).
THEOREM SummariesOrdered == Spec => []SummaryOrdered
<1>1. Init => ReportInv
  BY DEF Init, NoReport, ReportInv
<1>2. Spec => []ReportInv
  BY <1>1, PipeInvariant, TablesInvariant, StepReport, PTL DEF Spec
<1>3. PipeInv /\ TablesInv /\ ReportInv => SummaryOrdered
  <2> SUFFICES ASSUME ReportInv
               PROVE  /\ report.stage \in {"keys", "done"} => report.totals.requests <= Keys(report.byKey)
                      /\ report.stage = "done" => Keys(report.byKey) <= Points(report.series)
    BY DEF SummaryOrdered, Keys, Points, SumOver, Total
  <2> QED BY DEF ReportInv
<1> QED BY <1>2, <1>3, PipeInvariant, TablesInvariant, PTL

=============================================================================
