---------------------------- MODULE UsagePipeline ----------------------------
(***************************************************************************)
(* The recording of usage (usage.go) and the usage tables (store_usage.go) *)
(* of several replicas over one database.  A request that goes by a copy   *)
(* of its user without a quota is queued for the replica's one writer,     *)
(* which inserts in batches; one whose copy has a quota is inserted by the *)
(* request itself and charged.  The copies of one user may differ, between *)
(* replicas and in the course of time (see QuotaLedger).  An insertion is  *)
(* one transaction that runs statement after statement and waits for the   *)
(* rows other transactions have written.                                   *)
(*                                                                         *)
(* Time is counted in units, HourLen to the hour and DayLen to the day.    *)
(***************************************************************************)
EXTENDS Integers, Sequences, FiniteSets, SequencesExt, FiniteSetsExt

CONSTANTS Replicas,    \* the processes that share the database
          Scripts,     \* sequences of requests that end, each at a replica (by) and at
                       \* an instant (at), in that order: whose copy of the user has a
                       \* quota (limited), the week that is charged or NoTime, if
                       \* nothing is, and whether the copy has a lifetime quota
          MaxRecords,  \* bound: the length of the longest script
          QueueCap,    \* the capacity of usageCh (1024 in the code)
          BatchCap,    \* the size at which a batch is written (64 in the code)
          Budgets,     \* bounds: [faults, crashes, reads], how many statements fail,
                       \* processes die and usage pages are asked for
          HourLen,     \* units of time in an hour
          DayLen,      \* units of time in a day
          RawSpan,     \* the longest range answered from the logs (5 hours)
          HourlySpan,  \* the longest range answered from the hours (4 days)
          Offset,      \* the offset of the time zone of the reader
          AnyKey,      \* a query that does not name a key
          NoTime,      \* a query without that end, and no week
          Queries,     \* [user, key, from, to]: what may be asked
          Pages        \* those asked while records are being inserted

Ids == 1..MaxRecords
Requests == UNION {ToSet(s) : s \in Scripts}

ASSUME SizeAssumption == /\ MaxRecords \in Nat /\ QueueCap \in Nat /\ BatchCap \in Nat \ {0}
                         /\ IsFiniteSet(Replicas)
                         /\ Budgets \subseteq [{"faults", "crashes", "reads"} -> Nat]
ASSUME TimeAssumption == /\ HourLen \in Nat \ {0}
                         /\ \E h \in 1..DayLen : DayLen = h * HourLen
ASSUME OwnerAssumption == Replicas \intersect Ids = {}
ASSUME ScriptAssumption ==
    /\ \A q \in Requests : /\ q.by \in Replicas /\ q.at \in Nat
                           /\ q.failed \in BOOLEAN /\ q.limited \in BOOLEAN
                           /\ q.lifetime \in BOOLEAN
                           /\ q.period # NoTime => q.limited
    /\ \A s \in Scripts : /\ s \in Seq(Requests) /\ Len(s) <= MaxRecords
                          /\ \A m, n \in DOMAIN s : m <= n => s[m].at <= s[n].at
ASSUME QueryAssumption ==
    /\ NoTime \notin Int
    /\ \A q \in Queries \union Pages : {q.from, q.to} \subseteq Int \union {NoTime}

VARIABLES todo,     \* the requests that have not ended yet, in order
          made,     \* every record built by recordUsage (history)
          queue,    \* queue[r]: usageCh of replica r
          batch,    \* batch[r]: what the writer of r has taken from it
          tx,       \* tx[o]: the open transaction of o, or Idle
          logs,     \* usage_logs
          hourly,   \* usage_stats_hourly, by row
          daily,    \* usage_stats_daily, by row
          report,   \* the usage page being put together, read by read
          budget    \* what is left of the faults, crashes and reads

mem == <<queue, batch, tx>>
tables == <<logs, hourly, daily>>
vars == <<todo, made, mem, tables, report, budget>>

\* A transaction belongs to the writer of a replica, or to a request that is
\* charged, named by its record.
Owners == Replicas \union Ids
Idle == [recs |-> <<>>, stmts |-> <<>>, done |-> 0]

------------------------------------------------------------------------------
(* Buckets and ranges of time *)

FloorTo(t, step, offset) == ((t + offset) \div step) * step - offset

\* floorUsageBucketInLocation; a bucket below the hour is one unit here.
FloorBucket(t, size, offset) == FloorTo(t, size, offset)

CeilHour(t) == IF FloorTo(t, HourLen, 0) = t THEN t ELSE FloorTo(t, HourLen, 0) + HourLen

\* usageStatsSource: which table answers a query.
Source(q) ==
    IF q.from = NoTime \/ q.to = NoTime THEN "logs"
    ELSE IF q.from >= q.to \/ q.to - q.from <= RawSpan THEN "logs"
    ELSE IF q.to - q.from <= HourlySpan THEN "hourly" ELSE "daily"

BucketOf(source) == CASE source = "logs" -> 1
                      [] source = "hourly" -> HourLen
                      [] source = "daily" -> DayLen

\* A mutant: the beginning of the range is not floored to the hour.
AskedFromInside(q, row, t) ==
    /\ row.user = q.user
    /\ q.key \in {AnyKey, row.key}
    /\ q.from # NoTime => t >= q.from
    /\ q.to # NoTime => t < (IF Source(q) # "logs" THEN CeilHour(q.to) ELSE q.to)

\* usageWhere and usageStatsWhere: whether a row of instant t is asked for.
\* The ends are widened to hours, whichever the statistics table.
Asked(q, row, t) ==
    LET stats == Source(q) # "logs"
    IN /\ row.user = q.user
       /\ q.key \in {AnyKey, row.key}
       /\ q.from # NoTime => t >= (IF stats THEN FloorTo(q.from, HourLen, 0) ELSE q.from)
       /\ q.to # NoTime => t < (IF stats THEN CeilHour(q.to) ELSE q.to)

------------------------------------------------------------------------------
(* The statistics tables: a row per bucket, user and key, with its sums *)

StatsRow(rec, size) == [bucket |-> FloorTo(rec.at, size, 0), user |-> rec.user, key |-> rec.key]
HourRow(rec) == StatsRow(rec, HourLen)
DayRow(rec) == StatsRow(rec, DayLen)

Zero == [requests |-> 0, errors |-> 0]
AddAgg(a, b) == [requests |-> a.requests + b.requests, errors |-> a.errors + b.errors]
AggOf(rec) == [requests |-> 1, errors |-> IF rec.failed THEN 1 ELSE 0]

\* A mutant: the row keeps the values of its last record only.
UpsertReplaces(table, row, agg) ==
    [x \in DOMAIN table \union {row} |-> IF x # row THEN table[x] ELSE agg]

\* The upsert of usageStatsUpsertSQL with the values of insertUsageStats.
Upsert(table, row, agg) ==
    [x \in DOMAIN table \union {row} |->
        IF x # row THEN table[x]
        ELSE AddAgg(IF row \in DOMAIN table THEN table[row] ELSE Zero, agg)]

SumOf(S, agg(_)) == FoldSet(LAMBDA x, acc : AddAgg(acc, agg(x)), Zero, S)

------------------------------------------------------------------------------
(* The statements of InsertUsageBatch, and the rows they lock *)

QuotaRow(rec) == [user |-> rec.user, period |-> rec.period]

\* A mutant: what grows the lifetime quota is charged before it is counted.
ChargedFirst(rec) ==
    LET stats  == <<[table |-> "hourly", row |-> HourRow(rec), rec |-> rec],
                    [table |-> "daily", row |-> DayRow(rec), rec |-> rec]>>
        weekly == <<[table |-> "quota", row |-> QuotaRow(rec), rec |-> rec]>>
        whole  == <<[table |-> "users", row |-> [user |-> rec.user], rec |-> rec]>>
    IN  IF rec.period = NoTime THEN stats
        ELSE IF rec.spills THEN weekly \o whole \o stats ELSE stats \o weekly

\* Per record, after the insertion into usage_logs that waits for no one: the
\* upserts of the statistics, that of the week's usage, and the update of the
\* user, if the lifetime quota is used.
StatementsOf(rec) ==
    LET charge == <<[table |-> "quota", row |-> QuotaRow(rec), rec |-> rec],
                    [table |-> "users", row |-> [user |-> rec.user], rec |-> rec]>>
    IN  <<[table |-> "hourly", row |-> HourRow(rec), rec |-> rec],
          [table |-> "daily", row |-> DayRow(rec), rec |-> rec]>>
        \o (IF rec.period = NoTime THEN <<>> ELSE IF rec.spills THEN charge ELSE <<charge[1]>>)

Statements(recs) == FlattenSeq([n \in DOMAIN recs |-> StatementsOf(recs[n])])

RowOf(s) == <<s.table, s.row>>
Holds(o) == {RowOf(tx[o].stmts[n]) : n \in 1..tx[o].done}
Finished(o) == tx[o].done = Len(tx[o].stmts)
Wants(o) == RowOf(tx[o].stmts[tx[o].done + 1])

Open == {o \in Owners : tx[o] # Idle}

\* Who o waits for: the transaction that has written the row o wants.
WaitsFor(o) == IF Finished(o) THEN {} ELSE {p \in Open \ {o} : Wants(o) \in Holds(p)}

\* Whoever waits waits for one transaction, so a cycle is found by following
\* the waits for as many steps as there are transactions.
Deadlocked(o) ==
    LET reach[n \in 0..Cardinality(Open)] ==
            IF n = 0 THEN WaitsFor(o) ELSE UNION {WaitsFor(p) : p \in reach[n - 1]}
    IN o \in UNION {reach[n] : n \in 0..Cardinality(Open)}

------------------------------------------------------------------------------
(* The usage page: UsageSummary makes three reads without a transaction *)

TableOf(source) == IF source = "hourly" THEN hourly ELSE daily
AskedRows(q) == {row \in DOMAIN TableOf(Source(q)) : Asked(q, row, row.bucket)}
AskedLogs(q) == {rec \in logs : Asked(q, rec, rec.at)}

Totals(q) == IF Source(q) = "logs" THEN SumOf(AskedLogs(q), AggOf)
             ELSE SumOf(AskedRows(q), LAMBDA row : TableOf(Source(q))[row])

\* usageByKey, usageByKeyFromStats: requests by key.
ByKey(q) ==
    IF Source(q) = "logs"
    THEN [k \in {rec.key : rec \in AskedLogs(q)} |->
            Cardinality({rec \in AskedLogs(q) : rec.key = k})]
    ELSE [k \in {row.key : row \in AskedRows(q)} |->
            SumOf({row \in AskedRows(q) : row.key = k},
                  LAMBDA row : TableOf(Source(q))[row]).requests]

\* A mutant: a bucket keeps the last row that falls into it.
SeriesReplaces(q) ==
    LET pointOf(t) == FloorBucket(t, BucketOf(Source(q)), Offset)
    IN IF Source(q) = "logs"
       THEN [b \in {pointOf(rec.at) : rec \in AskedLogs(q)} |->
               AggOf(CHOOSE rec \in AskedLogs(q) : pointOf(rec.at) = b)]
       ELSE [b \in {pointOf(row.bucket) : row \in AskedRows(q)} |->
               TableOf(Source(q))[CHOOSE row \in AskedRows(q) : pointOf(row.bucket) = b]]

\* usageSeries, usageSeriesFromStats: one point per bucket of the reader's zone.
Series(q) ==
    LET size == BucketOf(Source(q))
        pointOf(t) == FloorBucket(t, size, Offset)
    IN IF Source(q) = "logs"
       THEN [b \in {pointOf(rec.at) : rec \in AskedLogs(q)} |->
               SumOf({rec \in AskedLogs(q) : pointOf(rec.at) = b}, AggOf)]
       ELSE [b \in {pointOf(row.bucket) : row \in AskedRows(q)} |->
               SumOf({row \in AskedRows(q) : pointOf(row.bucket) = b},
                     LAMBDA row : TableOf(Source(q))[row])]

\* UserAPIKeyDetails: a key's requests from the days, its last use from the logs.
KeyRequests(user, key) ==
    SumOf({row \in DOMAIN daily : row.user = user /\ row.key = key}, LAMBDA row : daily[row]).requests
KeyUses(user, key) == {rec.at : rec \in {x \in logs : x.user = user /\ x.key = key}}

------------------------------------------------------------------------------
NoReport == [stage |-> "none"]

Init == /\ todo \in Scripts /\ made = {}
        /\ queue = [r \in Replicas |-> <<>>] /\ batch = [r \in Replicas |-> <<>>]
        /\ tx = [o \in Owners |-> Idle]
        /\ logs = {} /\ hourly = <<>> /\ daily = <<>>
        /\ report = NoReport /\ budget \in Budgets

Spend(kind) == budget[kind] > 0 /\ budget' = [budget EXCEPT ![kind] = @ - 1]

Begin(o, recs) == tx' = [tx EXCEPT ![o] = [recs |-> recs, stmts |-> Statements(recs), done |-> 0]]

\* The record that recordUsage builds of a request.  Whether the week's usage
\* grows beyond its limit (spills) is chosen, where the lifetime quota counts.
Numbered(q, id, spills) ==
    [id |-> id, user |-> q.user, key |-> q.key, failed |-> q.failed, by |-> q.by, at |-> q.at,
     limited |-> q.limited, period |-> q.period, spills |-> spills]

Spills(q) == {FALSE, q.lifetime}

\* A mutant: a record that finds the queue full is written at once.
RecordOvertakes(r) ==
    /\ todo # <<>> /\ Head(todo).by = r
    /\ \E spills \in Spills(Head(todo)) :
          LET id == Cardinality(made) + 1
              rec == Numbered(Head(todo), id, spills)
          IN /\ made' = made \union {rec}
             /\ IF ~rec.limited /\ Len(queue[r]) < QueueCap
                THEN queue' = [queue EXCEPT ![r] = Append(@, rec)] /\ UNCHANGED tx
                ELSE Begin(id, <<rec>>) /\ UNCHANGED queue
    /\ todo' = Tail(todo)
    /\ UNCHANGED <<batch, tables, report, budget>>

\* recordUsage: written at once if the request's copy of the user is limited,
\* otherwise queued, or dropped when the queue is full.
RecordUsage(r) ==
    /\ todo # <<>> /\ Head(todo).by = r
    /\ \E spills \in Spills(Head(todo)) :
          LET id == Cardinality(made) + 1
              rec == Numbered(Head(todo), id, spills)
          IN /\ made' = made \union {rec}
             /\ \/ /\ rec.limited
                   /\ Begin(id, <<rec>>)
                   /\ UNCHANGED queue
                \/ /\ ~rec.limited
                   /\ queue' = IF Len(queue[r]) < QueueCap
                               THEN [queue EXCEPT ![r] = Append(@, rec)] ELSE queue
                   /\ UNCHANGED tx
    /\ todo' = Tail(todo)
    /\ UNCHANGED <<batch, tables, report, budget>>

\* A mutant: the batch is written when it has grown beyond its size.
TakeOneMore(r) ==
    /\ tx[r] = Idle /\ queue[r] # <<>>
    /\ queue' = [queue EXCEPT ![r] = Tail(@)]
    /\ batch' = [batch EXCEPT ![r] = Append(@, Head(queue[r]))]
    /\ IF Len(batch'[r]) > BatchCap THEN Begin(r, batch'[r]) ELSE UNCHANGED tx
    /\ UNCHANGED <<todo, made, tables, report, budget>>

\* usageWriter receives a record and writes the batch when it is full.
Take(r) ==
    /\ tx[r] = Idle /\ queue[r] # <<>>
    /\ queue' = [queue EXCEPT ![r] = Tail(@)]
    /\ batch' = [batch EXCEPT ![r] = Append(@, Head(queue[r]))]
    /\ IF Len(batch'[r]) >= BatchCap THEN Begin(r, batch'[r]) ELSE UNCHANGED tx
    /\ UNCHANGED <<todo, made, tables, report, budget>>

\* A mutant: the ticker only writes full batches.
FlushFull(r) ==
    /\ tx[r] = Idle /\ Len(batch[r]) >= BatchCap
    /\ Begin(r, batch[r])
    /\ UNCHANGED <<todo, made, queue, batch, tables, report, budget>>

\* usageWriter: the ticker of one second writes what there is.
FlushTick(r) ==
    /\ tx[r] = Idle /\ batch[r] # <<>>
    /\ Begin(r, batch[r])
    /\ UNCHANGED <<todo, made, queue, batch, tables, report, budget>>

\* One statement of InsertUsageBatch, once no other transaction holds its row.
Execute(o) ==
    /\ tx[o] # Idle /\ ~Finished(o) /\ WaitsFor(o) = {}
    /\ tx' = [tx EXCEPT ![o].done = @ + 1]
    /\ UNCHANGED <<todo, made, queue, batch, tables, report, budget>>

\* The transaction is over, well or badly: the error is only logged, and the
\* writer's batch is emptied in both cases.
End(o) == /\ tx' = [tx EXCEPT ![o] = Idle]
          /\ batch' = IF o \in Replicas THEN [batch EXCEPT ![o] = <<>>] ELSE batch
          /\ UNCHANGED <<todo, made, queue, report>>

\* The statements of o that write one of the statistics tables, in their order.
WrittenBy(o, name, table) ==
    FoldLeft(LAMBDA t, s : IF s.table = name THEN Upsert(t, s.row, AggOf(s.rec)) ELSE t,
             table, tx[o].stmts)

\* All of the transaction becomes visible.  An error of Commit that arrives
\* after the database has committed has the same effect.
Commit(o) ==
    /\ tx[o] # Idle /\ Finished(o)
    /\ logs' = logs \union ToSet(tx[o].recs)
    /\ hourly' = WrittenBy(o, "hourly", hourly)
    /\ daily' = WrittenBy(o, "daily", daily)
    /\ End(o) /\ UNCHANGED budget

\* A statement fails, or the commit: the transaction is rolled back.
Fail(o) ==
    /\ tx[o] # Idle /\ Spend("faults")
    /\ End(o) /\ UNCHANGED tables

\* The database ends a deadlock by aborting one of those who wait.
AbortDeadlocked(o) ==
    /\ tx[o] # Idle /\ WaitsFor(o) # {} /\ Deadlocked(o)
    /\ End(o) /\ UNCHANGED <<tables, budget>>

\* The process dies and starts again with an empty queue: nothing flushes it
\* (Run), and the database rolls back what it had open.
Crash(r) ==
    /\ Spend("crashes")
    /\ queue' = [queue EXCEPT ![r] = <<>>]
    /\ batch' = [batch EXCEPT ![r] = <<>>]
    /\ tx' = [o \in Owners |->
                IF o = r \/ \E n \in DOMAIN tx[o].recs : tx[o].recs[n].by = r THEN Idle ELSE tx[o]]
    /\ UNCHANGED <<todo, made, tables, report>>

\* UsageSummary, UsageSummaryFromStats: the totals, then the map by key, then
\* the series, each in a statement of its own.
ReadTotals(q) ==
    /\ report.stage = "none" /\ Spend("reads")
    /\ report' = [stage |-> "totals", query |-> q, totals |-> Totals(q)]
ReadByKey ==
    /\ report.stage = "totals" /\ UNCHANGED budget
    /\ report' = [stage |-> "keys", query |-> report.query, totals |-> report.totals,
                  byKey |-> ByKey(report.query)]
ReadSeries ==
    /\ report.stage = "keys" /\ UNCHANGED budget
    /\ report' = [stage |-> "done", query |-> report.query, totals |-> report.totals,
                  byKey |-> report.byKey, series |-> Series(report.query)]
ReadUsage ==
    /\ (\E q \in Pages : ReadTotals(q)) \/ ReadByKey \/ ReadSeries
    /\ UNCHANGED <<todo, made, mem, tables>>

\* Everything has ended: the system may stop.
Done == /\ todo = <<>> /\ Open = {}
        /\ \A r \in Replicas : queue[r] = <<>> /\ batch[r] = <<>>
        /\ UNCHANGED vars

Next == \/ ReadUsage \/ Done
        \/ \E r \in Replicas : RecordUsage(r) \/ Take(r) \/ FlushTick(r) \/ Crash(r)
        \/ \E o \in Owners : Execute(o) \/ Commit(o) \/ Fail(o) \/ AbortDeadlocked(o)

\* The writer's loop and its ticker run, the database answers every statement
\* and looks for deadlocks: one of these steps is taken as long as there is
\* one.  Requests, faults and readers owe nothing.
SystemStep == \/ \E r \in Replicas : Take(r) \/ FlushTick(r)
              \/ \E o \in Owners : Execute(o) \/ Commit(o) \/ AbortDeadlocked(o)

Fairness == WF_vars(SystemStep)

Spec == Init /\ [][Next]_vars /\ Fairness

------------------------------------------------------------------------------
Record == {Numbered(q, i, spills) : q \in Requests, i \in Ids, spills \in BOOLEAN}
Agg == [requests : 0..MaxRecords, errors : 0..MaxRecords]

\* Every variable has its type; a queue and a batch stay within their
\* capacities (usageCh, usageWriter).
TypeOK ==
    /\ made \subseteq Record /\ logs \subseteq made
    /\ \A r \in Replicas : /\ queue[r] \in Seq(Record) /\ Len(queue[r]) <= QueueCap
                           /\ batch[r] \in Seq(Record) /\ Len(batch[r]) <= BatchCap
    /\ \A o \in Owners : tx[o].recs \in Seq(Record) /\ tx[o].done \in 0..Len(tx[o].stmts)
    /\ \A row \in DOMAIN hourly : hourly[row] \in Agg
    /\ \A row \in DOMAIN daily : daily[row] \in Agg
    /\ budget \in [{"faults", "crashes", "reads"} -> Nat]

\* Whatever batches were committed, aborted or lost, and in whatever order,
\* each row of the hourly and of the daily table sums exactly the logged
\* records of its bucket, user and key, and no row is without one; so a key's
\* request count, taken from the days, is that of its uses in the logs
\* (InsertUsageBatch, usageStatsUpsertSQL, UserAPIKeyDetails).
TablesAgree ==
    /\ \A t \in {<<hourly, HourLen>>, <<daily, DayLen>>} :
          t[1] = [row \in {StatsRow(rec, t[2]) : rec \in logs} |->
                    SumOf({rec \in logs : StatsRow(rec, t[2]) = row}, AggOf)]
    /\ \A rec \in made :
          LET logged == {x \in logs : x.user = rec.user /\ x.key = rec.key}
          IN /\ KeyRequests(rec.user, rec.key) = Cardinality(logged)
             /\ KeyRequests(rec.user, rec.key) > 0 <=> KeyUses(rec.user, rec.key) # {}

\* The window a query is really answered over.
CeilDay(t) == IF FloorTo(t, DayLen, 0) = t THEN t ELSE FloorTo(t, DayLen, 0) + DayLen
Window(q) == LET up(t) == IF Source(q) = "daily" THEN CeilDay(t) ELSE t
             IN IF Source(q) = "logs" THEN <<q.from, q.to>>
                ELSE <<up(FloorTo(q.from, HourLen, 0)), up(CeilHour(q.to))>>

\* A summary counts each logged record of its window once, in the totals, by
\* key and in the series alike, from whichever of the three tables it is
\* read; the window covers the range asked for and less than an hour around
\* it, unless the days answer (usageStatsSource, usageStatsWhere, usageSeries,
\* usageSeriesFromStats, usageByKey, usageByKeyFromStats).
SummaryExact ==
    \A q \in Queries :
        LET inWindow == {rec \in logs : /\ rec.user = q.user /\ q.key \in {AnyKey, rec.key}
                                        /\ Window(q)[1] # NoTime => rec.at >= Window(q)[1]
                                        /\ Window(q)[2] # NoTime => rec.at < Window(q)[2]}
        IN /\ Totals(q) = SumOf(inWindow, AggOf)
           /\ SumOf(DOMAIN Series(q), LAMBDA b : Series(q)[b]) = Totals(q)
           /\ \A k \in DOMAIN ByKey(q) :
                 ByKey(q)[k] = Cardinality({rec \in inWindow : rec.key = k})
           /\ Source(q) = "hourly" =>
                 /\ q.from - HourLen < Window(q)[1] /\ Window(q)[1] <= q.from
                 /\ q.to <= Window(q)[2] /\ Window(q)[2] < q.to + HourLen

\* The three reads of a summary see the tables at three instants: what a later
\* one counts is never less than what an earlier one did (UsageSummary).
SummaryOrdered ==
    LET keys == MapThenSumSet(LAMBDA k : report.byKey[k], DOMAIN report.byKey)
        points == SumOf(DOMAIN report.series, LAMBDA b : report.series[b])
    IN /\ report.stage \in {"keys", "done"} => report.totals.requests <= keys
       /\ report.stage = "done" => keys <= points.requests

InFlight == (UNION {ToSet(queue[r]) \union ToSet(batch[r]) : r \in Replicas})
            \union (UNION {ToSet(tx[o].recs) : o \in Owners})

\* The queued records of a replica reach the database in the order in which
\* their requests ended: when a later one is counted, an earlier one is counted
\* or will never be (recordUsage, usageWriter).
OrderKept ==
    \A x \in InFlight, y \in logs :
        ~(x.by = y.by /\ x.id < y.id /\ ~x.limited /\ ~y.limited)

\* Charges never deadlock among themselves, whichever weeks and lifetime quotas
\* they use: a charge takes part in a deadlock only while some writer inserts a
\* record of the same user, made by a copy of him without a quota.  Then it may
\* be the victim, and the user is not charged (recordUsage, InsertUsageBatch).
DeadlockNeedsBatch ==
    \A o \in Open \intersect Ids : Deadlocked(o) =>
        \E r \in Replicas : \E x \in ToSet(tx[r].recs), y \in ToSet(tx[o].recs) : x.user = y.user

\* The pipeline implements UsageBook: a record is counted once or lost for
\* good, and with a live writer and database it does not stay undecided.
Book == INSTANCE UsageBook WITH
            made <- {rec.id : rec \in made},
            counted <- {rec.id : rec \in logs},
            lost <- {rec.id : rec \in made \ (logs \union InFlight)}
CountedOnceOrLost == Book!Spec
==============================================================================
