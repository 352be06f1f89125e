---------------------------- MODULE QuotaLedger ----------------------------
(***************************************************************************)
(* The credit ledger of one user.  A user's rows are reached only through  *)
(* the user's id, so users do not interact and one of them is enough.      *)
(*                                                                         *)
(* The limits and the anchor of the quota week live in the users row; the  *)
(* consumption of a week lives in user_quota_usage, one row per            *)
(* (user, period_start).  Every replica of the proxy keeps a copy of the   *)
(* limits in its map of API keys (authTokens).  A request takes its copy   *)
(* when it authenticates, is admitted by what the database says and, when  *)
(* it is over, is charged by what its copy says.  Administrators change    *)
(* the row and then reload the map of the replica that served them.        *)
(*                                                                         *)
(* Abstractions.  Credits and microcredits are one unit.  An anchor (an    *)
(* instant) is a number in the order in which anchors are written, and a   *)
(* period is the pair of its anchor and the number of whole weeks since:   *)
(* two anchors never lie a whole number of weeks apart.                    *)
(***************************************************************************)
EXTENDS Integers, FiniteSets, FiniteSetsExt

CONSTANTS
    Replicas,   \* proxy processes that share the database
    Requests,   \* requests of the user that can be in progress at once
    Admins,     \* admin handlers that can be in progress at once
    Grants,     \* the limits an administrator can set
    NoReplica,  \* an admin handler that serves no replica yet
    MaxCost,    \* the most one request can cost
    MaxMicro,   \* the largest value of a BIGINT column
    MaxAnchor,  \* bound: how many times a quota week is started anew
    MaxAge      \* bound: how many weeks pass after an anchor

ASSUME QuotaAssumption ==
    /\ Grants \subseteq [weekly : Nat, lifetime : Nat]
    /\ Grants # {}
    /\ NoReplica \notin Replicas
    /\ MaxCost \in Nat /\ MaxMicro \in Nat /\ MaxAnchor \in Nat /\ MaxAge \in Nat

Anchors == 0..MaxAnchor
Ages    == 0..MaxAge
Periods == Anchors \X Ages
Micro   == 0..MaxMicro

\* The quota fields of an AuthToken: a copy of three columns of the users row.
Token == [weekly : Nat, lifetime : Nat, anchor : Anchors]

VARIABLES
    user,      \* the users row: limits, lifetime credits spent, anchor
    used,      \* user_quota_usage: credits used in each period
    anchors,   \* the newest anchor
    age,       \* whole weeks that have passed since each anchor
    token,     \* each replica's copy of the user's limits
    req,       \* the requests
    adm,       \* the admin handlers
    weeklyAt,  \* history: the weekly limit each anchor was written with
    real       \* history: the credits that were really used, see Counted below

vars == <<user, used, anchors, age, token, req, adm, weeklyAt, real>>

User == [weekly : Nat, lifetime : Nat, spent : Micro, anchor : Anchors]

Copy(u) == [weekly |-> u.weekly, lifetime |-> u.lifetime, anchor |-> u.anchor]
Limited(t) == t.weekly > 0 \/ t.lifetime > 0
Overage(amount, limit) == IF amount <= limit THEN 0 ELSE amount - limit

\* weeklyQuotaPeriod: the period that an instant of now falls into.
Period(anchor) == <<anchor, age[anchor]>>

\* The history real: what the requests that ended have really cost, whoever
\* booked it, since the limits and the week in force began, or since the last
\* request that was admitted with other limits than those (by a replica that
\* has not reloaded).  It counts while the user has limits.
Counted(cost) == real' = IF Limited(user) THEN real + cost ELSE real
BeganAnew     == real' = 0
LimitsWritten == real' = IF Copy(user') = Copy(user) THEN real ELSE 0

-----------------------------------------------------------------------------
(* Requests: authenticate, enforceUserQuota (two queries), recordUsage.    *)

NoToken == [weekly |-> 0, lifetime |-> 0, anchor |-> 0]
NoRow   == [weekly |-> 0, spare |-> FALSE]
Done    == [pc |-> "idle", tok |-> NoToken, row |-> NoRow, period |-> <<0, 0>>]
Request == [pc : {"idle", "checking", "counting", "running"},
            tok : Token, row : [weekly : Nat, spare : BOOLEAN], period : Periods]

\* A request is bound to the limits its replica holds; a user without limits
\* is let through without a look at the database.
Authenticate(r, b) ==
    /\ req[r].pc = "idle"
    /\ req' = [req EXCEPT ![r].tok = token[b],
                          ![r].pc = IF Limited(token[b]) THEN "checking" ELSE "running"]
    /\ IF token[b] = Copy(user) THEN UNCHANGED real ELSE BeganAnew
    /\ UNCHANGED <<user, used, anchors, age, token, adm, weeklyAt>>

\* Mutant of ReadRow: the last lifetime credit does not count as spent.
ReadRowSpareLate(r) ==
    /\ req[r].pc = "checking"
    /\ req' = [req EXCEPT ![r].pc = "counting",
                          ![r].row = [weekly |-> user.weekly,
                                      spare  |-> user.spent <= user.lifetime],
                          ![r].period = Period(user.anchor)]
    /\ UNCHANGED <<user, used, anchors, age, token, adm, weeklyAt, real>>

\* UserQuotaStatus, first query: the weekly limit, whether lifetime credits are
\* left, and the period of now.
ReadRow(r) ==
    /\ req[r].pc = "checking"
    /\ req' = [req EXCEPT ![r].pc = "counting",
                          ![r].row = [weekly |-> user.weekly,
                                      spare  |-> user.spent < user.lifetime],
                          ![r].period = Period(user.anchor)]
    /\ UNCHANGED <<user, used, anchors, age, token, adm, weeklyAt, real>>

\* Nothing remains of either quota (UserQuotaStatus clamps both at zero).
Exhausted(row, period) == used[period] >= row.weekly /\ ~row.spare

\* UserQuotaStatus, second query, and the verdict of enforceUserQuota.
Admit(r) ==
    /\ req[r].pc = "counting"
    /\ ~Exhausted(req[r].row, req[r].period)
    /\ req' = [req EXCEPT ![r] = [Done EXCEPT !.pc = "running", !.tok = req[r].tok]]
    /\ UNCHANGED <<user, used, anchors, age, token, adm, weeklyAt, real>>

Reject(r) ==
    /\ req[r].pc = "counting"
    /\ Exhausted(req[r].row, req[r].period)
    /\ req' = [req EXCEPT ![r] = Done]
    /\ UNCHANGED <<user, used, anchors, age, token, adm, weeklyAt, real>>

\* Mutants of Spill: the whole cost is billed once the week is over its limit;
\* and the limit is taken from the row, not from the record.
SpillWhole(t, period, cost) ==
    IF t.lifetime > 0 /\ used[period] + cost > t.weekly THEN cost ELSE 0
SpillByRow(t, period, cost) ==
    IF t.lifetime > 0
    THEN Overage(used[period] + cost, user.weekly) - Overage(used[period], user.weekly)
    ELSE 0

\* The credits of a record that go to the lifetime counter.
Spill(t, period, cost) ==
    IF t.lifetime > 0
    THEN Overage(used[period] + cost, t.weekly) - Overage(used[period], t.weekly)
    ELSE 0

\* Mutant of Charge: the counters wrap nowhere and stop nowhere.
ChargeUnchecked(r, cost) ==
    LET t == req[r].tok
        p == Period(t.anchor)
    IN  /\ req[r].pc = "running"
        /\ Limited(t) /\ cost > 0
        /\ used' = [used EXCEPT ![p] = @ + cost]
        /\ user' = [user EXCEPT !.spent = @ + Spill(t, p, cost)]
        /\ req' = [req EXCEPT ![r] = Done]
        /\ Counted(cost)
        /\ UNCHANGED <<anchors, age, token, adm, weeklyAt>>

\* recordUsage with InsertUsageBatch: one transaction, which counts the cost
\* in the period of the request's own copy and moves the overage to the row.
\* (The instant of the record and the transaction are one step.)
Charge(r, cost) ==
    LET t == req[r].tok
        p == Period(t.anchor)
    IN  /\ req[r].pc = "running"
        /\ Limited(t) /\ cost > 0
        /\ used[p] + cost \in Micro
        /\ user.spent + Spill(t, p, cost) \in Micro
        /\ used' = [used EXCEPT ![p] = @ + cost]
        /\ user' = [user EXCEPT !.spent = @ + Spill(t, p, cost)]
        /\ req' = [req EXCEPT ![r] = Done]
        /\ Counted(cost)
        /\ UNCHANGED <<anchors, age, token, adm, weeklyAt>>

\* recordUsage for a copy without limits: the record goes to the usage queue
\* and no credit is booked, whatever limits the row has by now.
EndUnlimited(r, cost) ==
    /\ req[r].pc = "running"
    /\ ~Limited(req[r].tok)
    /\ req' = [req EXCEPT ![r] = Done]
    /\ Counted(cost)
    /\ UNCHANGED <<user, used, anchors, age, token, adm, weeklyAt>>

\* The request ends and nothing is recorded: it cost nothing, the transaction
\* failed (a database error, or a sum that no BIGINT holds), or the check
\* itself failed.
EndUncharged(r) ==
    /\ req[r].pc # "idle"
    /\ req' = [req EXCEPT ![r] = Done]
    /\ UNCHANGED <<user, used, anchors, age, token, adm, weeklyAt, real>>

-----------------------------------------------------------------------------
(* Admin handlers: change the row, then reload the replica's copies.       *)

NoGrant == [weekly |-> 0, lifetime |-> 0]
Resting == [pc |-> "idle", rep |-> NoReplica, grant |-> NoGrant, seen |-> NoToken]
Admin == [pc : {"idle", "failed", "writing", "reloading", "installing"},
          rep : Replicas \union {NoReplica}, grant : Grants \union {NoGrant}, seen : Token]

Free(a) == adm[a].pc \in {"idle", "failed"}

\* UpdateUserQuota reads the row outside any transaction ...
BeginUpdate(a, b, g) ==
    /\ Free(a)
    /\ adm' = [adm EXCEPT ![a] = [pc |-> "writing", rep |-> b, grant |-> g, seen |-> Copy(user)]]
    /\ UNCHANGED <<user, used, anchors, age, token, req, weeklyAt, real>>

\* Limits in force from a fresh anchor on.
Restart(weekly, lifetime) ==
    /\ anchors < MaxAnchor
    /\ anchors' = anchors + 1
    /\ user' = [user EXCEPT !.weekly = weekly, !.lifetime = lifetime, !.anchor = anchors + 1]
    /\ weeklyAt' = [weeklyAt EXCEPT ![anchors + 1] = weekly]
    /\ BeganAnew

\* Mutant of WriteUpdate: the week is never restarted.
WriteUpdateSameWeek(a) ==
    LET g == adm[a].grant IN
    /\ adm[a].pc = "writing"
    /\ user' = [user EXCEPT !.weekly = g.weekly, !.lifetime = g.lifetime]
    /\ adm' = [adm EXCEPT ![a] = [Resting EXCEPT !.pc = "reloading", !.rep = adm[a].rep]]
    /\ LimitsWritten
    /\ UNCHANGED <<used, anchors, age, token, req, weeklyAt>>

\* ... and writes all three columns: a new anchor when the weekly limit is
\* not the one it read, and otherwise the anchor that it read.
WriteUpdate(a) ==
    LET g == adm[a].grant IN
    /\ adm[a].pc = "writing"
    /\ IF adm[a].seen.weekly # g.weekly
       THEN Restart(g.weekly, g.lifetime)
       ELSE /\ user' = [user EXCEPT !.weekly = g.weekly, !.lifetime = g.lifetime,
                                    !.anchor = adm[a].seen.anchor]
            /\ LimitsWritten
            /\ UNCHANGED <<anchors, weeklyAt>>
    /\ adm' = [adm EXCEPT ![a] = [Resting EXCEPT !.pc = "reloading", !.rep = adm[a].rep]]
    /\ UNCHANGED <<used, age, token, req>>

\* Mutant of ResetUserQuota: the runtime is not reloaded.
ResetWithoutReload(a, b) ==
    /\ Free(a)
    /\ Restart(user.weekly, user.lifetime)
    /\ adm' = [adm EXCEPT ![a] = [Resting EXCEPT !.rep = b]]
    /\ UNCHANGED <<used, age, token, req>>

\* ResetUserQuota: a new anchor, whatever the limits are.
ResetUserQuota(a, b) ==
    /\ Free(a)
    /\ Restart(user.weekly, user.lifetime)
    /\ adm' = [adm EXCEPT ![a] = [Resting EXCEPT !.pc = "reloading", !.rep = b]]
    /\ UNCHANGED <<used, age, token, req>>

\* ResetWeeklyQuotas: the same for a user with a weekly limit only.
ResetWeeklyQuotas(a, b) ==
    /\ Free(a)
    /\ IF user.weekly > 0
       THEN Restart(user.weekly, user.lifetime)
       ELSE UNCHANGED <<user, anchors, weeklyAt, real>>
    /\ adm' = [adm EXCEPT ![a] = [Resting EXCEPT !.pc = "reloading", !.rep = b]]
    /\ UNCHANGED <<used, age, token, req>>

\* reloadRuntimeState reads the rows first and swaps the map afterwards.
ReadTokens(a) ==
    /\ adm[a].pc = "reloading"
    /\ adm' = [adm EXCEPT ![a].pc = "installing", ![a].seen = Copy(user)]
    /\ UNCHANGED <<user, used, anchors, age, token, req, weeklyAt, real>>

InstallTokens(a) ==
    /\ adm[a].pc = "installing"
    /\ token' = [token EXCEPT ![adm[a].rep] = adm[a].seen]
    /\ adm' = [adm EXCEPT ![a] = [Resting EXCEPT !.rep = adm[a].rep]]
    /\ UNCHANGED <<user, used, anchors, age, req, weeklyAt, real>>

\* A query of the reload fails: the handler answers 500, the row stays changed.
FailReload(a) ==
    /\ adm[a].pc = "reloading"
    /\ adm' = [adm EXCEPT ![a] = [Resting EXCEPT !.pc = "failed"]]
    /\ UNCHANGED <<user, used, anchors, age, token, req, weeklyAt, real>>

\* A whole week since an anchor has passed.
PassWeek(k) ==
    /\ k <= anchors /\ age[k] < MaxAge
    /\ age' = [age EXCEPT ![k] = @ + 1]
    /\ IF k = user.anchor THEN BeganAnew ELSE UNCHANGED real
    /\ UNCHANGED <<user, used, anchors, token, req, adm, weeklyAt>>

-----------------------------------------------------------------------------
Init ==
    \E g \in Grants :
        /\ user = [weekly |-> g.weekly, lifetime |-> g.lifetime, spent |-> 0, anchor |-> 0]
        /\ used = [p \in Periods |-> 0]
        /\ anchors = 0
        /\ age = [k \in Anchors |-> 0]
        /\ token = [b \in Replicas |-> Copy(user)]
        /\ req = [r \in Requests |-> Done]
        /\ adm = [a \in Admins |-> Resting]
        /\ weeklyAt = [k \in Anchors |-> g.weekly]
        /\ real = 0

RequestStep(r) ==
    \/ \E b \in Replicas : Authenticate(r, b)
    \/ ReadRow(r)
    \/ Admit(r)
    \/ Reject(r)
    \/ \E cost \in 1..MaxCost : Charge(r, cost) \/ EndUnlimited(r, cost)
    \/ EndUncharged(r)

AdminStep(a) ==
    \/ \E b \in Replicas, g \in Grants : BeginUpdate(a, b, g)
    \/ WriteUpdate(a)
    \/ \E b \in Replicas : ResetUserQuota(a, b) \/ ResetWeeklyQuotas(a, b)
    \/ ReadTokens(a)
    \/ InstallTokens(a)
    \/ FailReload(a)

Next ==
    \/ \E r \in Requests : RequestStep(r)
    \/ \E a \in Admins : AdminStep(a)
    \/ \E k \in Anchors : PassWeek(k)

Spec == Init /\ [][Next]_vars

-----------------------------------------------------------------------------
(* Properties                                                              *)

\* Every variable has its type; no counter leaves the range of a BIGINT column,
\* however often requests are charged (InsertUsageBatch).
TypeOK ==
    /\ user \in User
    /\ used \in [Periods -> Micro]
    /\ anchors \in Anchors
    /\ age \in [Anchors -> Ages]
    /\ token \in [Replicas -> Token]
    /\ req \in [Requests -> Request]
    /\ adm \in [Admins -> Admin]
    /\ weeklyAt \in [Anchors -> Nat]
    /\ real \in Nat

\* An anchor fixes the weekly limit of its weeks.  Whoever holds a weekly
\* limit together with an anchor - the row, a replica's copy, a request, a
\* handler between its read and its write - holds the limit that the anchor
\* was written with, however the updates, resets and reloads interleave.
\* InsertUsageBatch takes differences of overages against the limit of the
\* record, which telescope over a period only because of this.
Pairs(t) == weeklyAt[t.anchor] = t.weekly

AnchorFixesLimit ==
    /\ Pairs(user)
    /\ \A b \in Replicas : Pairs(token[b])
    /\ \A r \in Requests : Limited(req[r].tok) => Pairs(req[r].tok)
    /\ \A a \in Admins : adm[a].pc \in {"writing", "installing"} => Pairs(adm[a].seen)

\* The lifetime counter is exactly the sum, over all periods, of what was used
\* beyond the weekly limit of the period (at most that, if for some time the
\* user had no lifetime quota to draw from): InsertUsageBatch never bills the
\* same credit to both quotas and never forgets one, in whatever order the
\* requests of different weeks and different copies of the limits end.
OverageOf == [p \in Periods |-> Overage(used[p], weeklyAt[p[1]])]
TotalOverage == MapThenSumSet(LAMBDA p : OverageOf[p], Periods)

LifetimeIsOverage ==
    /\ user.spent <= TotalOverage
    /\ (\A g \in Grants : g.lifetime > 0) => user.spent = TotalOverage

\* A step that moves the lifetime counter moves it by the growth, in that
\* step, of one period's overage over the limit in force in that period, even
\* when the request carries limits that have been replaced since.
ChargesLimitInForce ==
    [][user'.spent # user.spent =>
        \E p \in Periods :
            /\ used'[p] > used[p]
            /\ user'.spent - user.spent
                 = Overage(used'[p], weeklyAt[p[1]]) - Overage(used[p], weeklyAt[p[1]])]_vars

\* The quota is checked before a request and charged after it, without a
\* reservation, by copies that may be old.  What is really used, whoever books
\* it (an old copy is charged to its old anchor's week, a copy without limits
\* to nobody), stays all the same below both quotas together and what two full
\* sets of requests can cost: the set that was in progress when the limits or
\* the week changed, and the set that passed the check together.
\*   Nothing bounds what a replica that has not reloaded goes on admitting: it
\* is limited by nothing its requests are charged to.  The count begins anew
\* at every request admitted with other limits than the row's, and the bound
\* is on any stretch without one.  Nor does it count the cost of a record that
\* is lost (EndUncharged).  It supposes one administrator at a time, and a
\* weekly limit that determines the lifetime limit, so that nobody lowers a
\* limit under what is already used.
Slack == Cardinality(Requests) * MaxCost

OvershootBounded ==
    Limited(user) => real < user.weekly + user.lifetime + 2 * Slack

\* When no admin handler is at work and none has failed, the replica that
\* served the last one holds the limits and the anchor of the row: the change
\* an administrator saw confirmed is in force there for the requests to come.
SnapshotCurrent ==
    (\A a \in Admins : adm[a].pc = "idle") =>
        \A a \in Admins : adm[a].rep # NoReplica => token[adm[a].rep] = Copy(user)

\* A quota update that leaves the weekly limit as it is does not restart, or
\* take back, the quota week.
LifetimeUpdateKeepsWeek ==
    [][\A a \in Admins :
        (WriteUpdate(a) /\ user'.weekly = user.weekly) => user'.anchor = user.anchor]_vars
=============================================================================
