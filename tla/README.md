# Formal models of Buzz

Buzz (`src/`) is a self-hosted proxy for LLM APIs: a Go server in front of several
providers, with users and API keys, quotas, provider keys that rotate and cool down,
routes from public models to upstream models, translation between four protocols, and
an admin page. Several replicas may run against one Postgres database and one Redis.

This directory holds TLA+ models of the parts of it where steps of different requests,
handlers and replicas meet, the TLC runs that check them, and machine-checked proofs of
what matters most in them. Paths below are relative to `src/internal/`.

## 1. The system

### How a request runs

`ServeHTTP` (server.go) authenticates the request against the replica's map of API keys.
The handler of the inbound protocol resolves the routes of the model, selects and rotates
them (`selectRouteTargets`), checks the quota (`enforceUserQuota`), and calls
`doProviderTargetLoop`, which prefers the target of the sticky session, walks targets
and keys until a provider answers, and remembers the target. The answer is passed through or
converted, and after it the request is recorded (`recordProviderResultUsage`): at once for a
user with limits, otherwise through a queue. The admin API changes rows in the database,
then reloads the copies of the replica that served it (`reloadRuntimeState`), and no other.

### Inventory

| component | state | operations | hard parts | what makes it correct |
|---|---|---|---|---|
| **Quota accounting** (quota.go, store_quota.go, usage.go, store_usage.go, store_users.go) | the limits, the anchor of the quota week and the lifetime counter in `users`; use per week in `user_quota_usage`; copies of the limits in `authTokens` of every replica | check, charge, update of the limits, reset of one user or of all, reload | check and charge are apart; stale copies; read-then-write updates; weeks that end while a request runs | each credit goes to exactly one quota, against the limit in force; bounded overrun; a confirmed change is in force |
| **Provider keys and failover** (key_state.go, key_cooldown.go, provider.go, runtime_cache.go) | `KeyState` of a replica: keys, cursor, cooldowns; cooldowns in Redis; enabled keys in the database | give out a key, cool it, heal it, disable it, flush, replace; two nested loops | a cursor shared by all requests, two layers of cooldowns, removal under the cursor, a reload in flight | a bounded number of calls, every healthy key has its turn, a disabled key stays out, every request ends |
| **Admin users and sessions** (admin_api.go, runtime_cache.go, store_users.go) | `users`; sessions, per-user indexes and revocation markers in Redis | setup, login, lookup, renewal, logout, change of role and status, revocation | renewals that overlap revocations, expiry of markers, retries after a partial failure, mutual demotion | revoked sessions stay out, an administrator remains, a confirmed change holds |
| **Route selection and sticky sessions** (provider.go 127-237, route_session.go) | `routeNext`, `routeSessions`, their copies in Redis | select by protocol, rotate, weigh, prefer, remember, forget | a cursor that all protocols share, rows of one route in any order, deletion of a session that another request has just replaced | an order has every usable route once, at its best endpoint; in a full turn each route comes first as often as its weight |
| **Usage records and statistics** (usage.go, store_usage.go) | the queue (1024), the writer's batch (64), logs, hourly and daily rows | enqueue, drop, flush, insert, aggregate | full queue, failed batches, lock order of upserts, deadlocks, crashes, pages read while records are written | logs and statistics agree; a record counts once or is lost for good; a page counts each record once |
| **User keys and runtime reload** (store_users.go, store_runtime.go, admin_api.go) | `user_api_keys`, `authTokens`, `providers`, key list | create, disable, delete, reload | reloads that overlap or fail; three reads that are no snapshot | what is disabled in the database is out of the replica that disabled it |
| **Provider and model administration** (store_provider_admin.go, store_provider.go) | providers, endpoints, keys, models, routes | CRUD | several statements outside one transaction | no dangling routes, endpoints agree with their provider |
| **Tool signatures** (tool_signatures.go) | a map with ages, and Redis | remember, apply, purge, trim | eviction at 4096 entries, two layers, restarts, calls that look alike | a call gets its own signature back while a layer has it, and never that of other arguments |
| **Streaming conversion** (stream_convert.go) | tool tracker, open blocks, usage | start, delta, done, finish | event orders that differ by provider, streams that break off, end early or report errors | a client's stream is legal; text, calls, reasons and usage arrive whole and once; no false success |
| **Protocol conversion** (protocol/) | none | pure functions through a canonical form | roles that must alternate, pairing of calls and results, options one protocol has no word for | a conversation goes on with any provider: words, calls, results and options are kept or refused |
| **Protocol handlers** (openai_chat.go, canonical_proxy.go, anthropic.go, openai_responses.go, proxy.go) | none of their own | the sequence above | order of check, call and record; one request converted for several targets | what is prepared for one target does not depend on the others |
| **Server, store schema, catalogs, admin web interface** | configuration, DDL, static data | start, dispatch, render | - | not modelled |

## 2. Modules

| module | what it is |
|---|---|
| `QuotaLedger` | the quota of one user across replicas, requests and administrators |
| `QuotaLedgerProofs` | its proofs: the split of credits, and how far quotas are overrun |
| `KeyPool` | `KeyState` as a record and functions from pools to pools |
| `Failover` | the two loops over a `KeyPool` per replica, with Redis, database and reloads |
| `AdminSessions` | users, sessions and revocation |
| `AdminSessionsProofs` | its proofs |
| `RouteSelection` | the order in which a request tries the routes of its model |
| `RoutingProofs` | the proofs of `Failover` (types, the budget of calls, disabled keys, the rotation) and of `RouteSelection` (orders lose no target and no route) |
| `UsageBook` | what the recording of usage promises: a record counts once, or is lost |
| `UsagePipeline` | queue, writer, transactions and usage pages of several replicas |
| `UsagePipelineProofs` | its proofs |
| `FoldTheorems` | lemmas about the folds over sets and sequences that the models use |
| `LeftFolds` | induction along a sequence, for any fold from the left |
| `Canonical` | the canonical form: parts, calls, events, reasons, usage |
| `StreamReaders` | the four readers of provider streams and the tracker of tool calls |
| `StreamEncoders` | the four encoders of client streams |
| `WholeAnswers` | the conversion of answers that are not streamed |
| `StreamPeers` | providers and clients, the other ends of the streams (external) |
| `ToolSignatures` | the map of signatures with its copy in Redis |
| `AnswerRelay` | what an exchange promises its client |
| `Exchange` | one request and its answer, for any two protocols |
| `ExchangeProofs` | its proofs: types, no success before the provider's end, legal streams |
| `MessageFormats`, `RequestOptions` | the conversion of messages and of options, in and out, for all protocols |
| `Conversation` | an exchange, a restart or a day, and the next request |
| `ConversationProofs` | its proofs: no early success along a conversation, options kept, usage recorded |
| `MCQuotaLedger`, `MCFailover`, `MCAdminSessions`, `MCUsagePipeline`, `MCConversation` | constants and symmetry for TLC |

`MCFailover` composes `Failover` with `RouteSelection`, which gives it its orders. `Exchange`
extends `WholeAnswers`, which extends `StreamPeers`, readers and encoders; `Conversation` extends
`Exchange` with the formats and the options. `UsagePipeline` implements `UsageBook`, `Exchange`
implements `AnswerRelay`.

A definition keeps the name of the function it models where there is one; `PROJECT.json`
("map") gives the lines. A definition whose comment says "Mutant of X", or "A mutant:" just
before X, is X with a plausible bug; every property is known to fail with one of them.
Variables commented "history" record what the program does not, and no guard of an action
reads them.

### QuotaLedger

Users never meet in a row, so there is one. `user` is its row, `used` the rows of
`user_quota_usage`, `token[b]` the copy of replica b. A request goes through `Authenticate`
(copy the limits), `ReadRow` and `Admit`/`Reject` (the two queries of `UserQuotaStatus` and
the verdict), and `Charge` (`InsertUsageBatch`, one transaction). A request whose copy has no
limits checks nothing and ends in `EndUnlimited`, uncharged; one with an old copy is admitted by
the row's week and charged to the week of its own anchor. What such requests use is booked on
no week that counts, so the history `real` follows what the user really used since the limits or
the week last changed, and begins anew when a request with limits other than the row's is
admitted. An admin handler goes
through `BeginUpdate` and `WriteUpdate` (the read and the write of `UpdateUserQuota`), or
`ResetUserQuota`, or `ResetWeeklyQuotas`, and then `ReadTokens` and `InstallTokens` or
`FailReload`. Anchors are numbered as they are written. A period is the pair of its anchor
and the number of weeks since; the code identifies it by its start, and two anchors are
taken never to lie a whole number of weeks apart to the microsecond. Costs are any number in
`1..MaxCost`; a charge that leaves a BIGINT fails, and the record is lost (`EndUncharged`).
The clock moves by `PassWeek`, per anchor. That the instant of a record and its transaction
are one step leaves out only the choice between two adjacent periods, which `PassWeek`
before or after the step covers.

### KeyPool and Failover

A pool is its keys, the cursor `next`, and the set of cooling (target, key name) pairs. Every
method of `KeyState` holds its mutex throughout, so it is a function. `Failover` runs a
request through `pc`: "target" is the outer loop, "pick" the head of the inner loop, "peek"
and "adopt" the body of `nextProviderKey`, "call" the upstream call, and "share", "heal",
"disable", "remove" the writes that follow an answer, in the order of the code. What the
upstream answers, and the order of the targets, are inputs. The messages of last errors, the
count of hits and the length of cooldowns are left out: a cooldown lasts until `Lapse` or
`LapseShared` ends it. (An entry that has expired when `MarkRedisExhausted` is called is
ignored by the code; in the model it is adopted and lapses.) A cancelled request sees errors
until it gives up, which is `CallError`.

### RouteSelection

`ResolveModelRoutes` is the set of sequences the query may return, for its `ORDER BY` leaves the
rows of one route in any order; `selectRouteTargets` is the fold of the loop of that name, `Turn`
the rotation with or without weights (a step under `routeMu`), and `Prefer` what the route of a
sticky session does to the order. All are functions of their arguments: the cursor and the
session are whatever earlier requests left. `EveryRouteOnce` and `TurnsByWeight` compare them
with a reference over the catalogs of `MCFailover`, where TLC evaluates them as assumptions; the
first is also a theorem.

### AdminSessions

Redis is configured. `GetSession` and `CheckMarker` are the two reads of
`RuntimeCache.AdminSession`, `Renew` is `renewAdminSessionIfNeeded`, `EditUser`,
`UpdateAppUser`, `ReadMembers`, `Stamp`, `Wipe` are `handleUserAdmin` down to the Redis
transaction of `RevokeAdminSessions`; the instant of the marker (`Stamp`) is taken before the
transaction. `Leave` is any failure on the way. Instants of issue and revocation are numbered in
their order. Lives are in days, which stand for pieces of time of any length: what is set in the
same one ends with it, and one may end between any two steps of a handler, so that a renewal may
be written a day later than the marker and outlive it. `late` notes that a day has ended
between a handler's reads and its write. Assumed: the replicas' clocks agree. Sessions without an issue instant, written by versions before per-user indexes,
are left out, and so is the mode without Redis.

### UsagePipeline

`RecordUsage` ends a request. Each brings its own copy of the user (`limited`, `period`, `lifetime`),
so two requests of one user may differ: the copies of two replicas do, and one replica's before
and after a reload. The record is queued, dropped if the queue is full, or, where the copy is
limited, inserted by the request itself. `Take` and `FlushTick` are the loop of `usageWriter`.
`InsertUsageBatch` is a transaction that runs statement after statement: for each record the row of
the hour and that of the day, and for a charge the row of its week and, where the week's use goes over
into the lifetime quota (`Spills`), the row of the user. Each statement locks
the row it writes and waits while another transaction holds it; the database aborts one of the
transactions that wait for each other, a statement may fail, and a process may die with its queue,
its batch and its transactions. A usage page is the three reads of `UsageSummary`, with the choice
of table, the widened ends and the buckets of `store_usage.go`. `todo` is the rest of a script of
requests with their instants, so that time is part of the input; `made` is history. The promise
is `UsageBook`: a record that was made counts once in the log and in both statistics, at once, or
it is lost and never counts. Tokens and latencies are summed like requests and errors, which
stand for them; the log of a record is one row. Left out are a server without the queue
(`s.usageCh == nil`), which only tests make, and the administrator's lock of the `users` table
(`UpdateAppUser`): a charge writes its user last, so whoever holds that table waits for no charge
that waits for it.

### Exchange

`ask` says which protocols meet and how, `answer` what the provider says and `sent` how much of
it has gone out. `ChunkArrives` takes any next chunk of `StreamPeers` (the orders a provider may
interleave its items in), reads it (`Read`), writes the events (`Encode`) and lets the client hear
them (`Hear`), which notes every breach of its protocol. `BadChunkArrives` and `BodyEnds` are the
faults: a line that cannot be read, an error reported in the stream, an end at any point, a broken
connection. `WholeArrives` converts an answer that is not streamed, and `AnswerRefused` is
anything else the handlers answer with an error. A call that is done is remembered in the map
of signatures as it passes (`rememberingEmit`). Texts are sequences of fragments: concatenation
is kept, characters are not. `shown` is derived from `client` for the refinement. `Asked` leaves
out what the program does not pass on whole (section 7).

### ToolSignatures

`Remember` puts a signature under the keys of its call, by identifier and by function and
arguments, in the map and in Redis, whose writes may fail; `Trimmed` evicts the oldest entry.
`Recall` looks into the map, then into Redis, and puts what it finds there back into the map.
Another replica has a map of its own.

### Conversation

After a whole answer, or a stream that told the client it was complete, the client sends the
conversation back in its protocol, with results of the calls, in one of several manners (with or
without the signatures it was given, results in order or reversed, with more to say). `Continue`
is the handler from the parsed request to what is sent to every target of the route:
`proxyMixedCanonicalRoutes` with `prepareCanonicalProviderRequest` on a copy of the canonical request
per target, the raw passthrough, or the refusal. `Restart` empties the map of the replica, and
`DayPasses` lets every signature expire. The other replica may serve the second request, and
Redis may be out of its reach.

## 3. Runs

| run | bounds | shows |
|---|---|---|
| `quota_ledger` | 1 replica, 2 requests, 2 administrators, two grants both with a lifetime quota, costs 1-2, counters to 4, one restart of the week | `AnchorFixesLimit`, `LifetimeIsOverage`, `ChargesLimitInForce` |
| `quota_overshoot` | 2 replicas, 2 requests, 1 administrator, no limits or both (a replica may still have none), one restart, one week passing | `OvershootBounded`, `SnapshotCurrent` |
| `quota_lost_reset` (violation) | 2 administrators, 1 replica | `LifetimeUpdateKeepsWeek` fails |
| `quota_stale_reload` (violation) | 2 administrators, 1 replica | `SnapshotCurrent` fails |
| `failover_rotation` | 1 request, 3 keys of 2 providers with a shared name, 4 targets (one without a provider) in the 8 orders that selection gives for two models, 3 calls, 2 events, Redis failing at will; for selection 51 catalogs of 2 or 3 routes, weights 0 to 5 with a cap of 3, 3 cursors, 2 preferences, all sessions | `BudgetRespected`, `EveryKeyTried`, and by assumption `EveryRouteOnce`, `TurnsByWeight` |
| `failover_shared` | 2 replicas, 2 requests, 1 key, 2 calls, 1 event, fairness | `DisabledStaysOut`, `Answered` |
| `failover_skip` (violation) | 3 keys of one provider, 4 calls | `EveryKeyTried` fails once a key is disabled |
| `sessions` | 2 users, 2 tokens, 2 handlers, 3 instants, 3 days, life of 1 day, users are only disabled | `RevokedStaysOut`, `AdminRemains` |
| `sessions_retry` (violation) | 2 users, 2 tokens, 1 handler, disabled or made a plain user | `ConfirmedChangeHolds` fails |
| `usage_pipeline` | 2 replicas, 3 users, requests of one of them with limits and without, 5 scripts of up to 4 records, a queue of 1, batches of 2, an hour of 2 units and a day of 4, one failed statement, one crash and one page per behaviour, fairness | `TablesAgree`, `SummaryExact`, `SummaryOrdered`, `OrderKept`, `DeadlockNeedsBatch`, and `CountedOnceOrLost` (`UsageBook` is implemented) |
| `conversation` | 10 answers, 12 pairs of protocols, streamed, streamed in one event, and whole; 2 routes of 4 targets in opposite orders, a map of 4 signatures, one failed write to Redis, fairness | `StreamLegal`, `NoFalseSuccess`, `CallsKept`, `SignatureKept`, `ReasonKept`, `UsageRecorded`, `UsageKept`, `Relayed` (`AnswerRelay` is implemented); `LoopCloses`, `WordsSent`, `PlainGoesOn`, `SignaturesRestored`, `SignaturesRight`, `OptionsKept` |
| `exchange_invented` (violation) | the same | `NoInventedCalls` fails |

Why the bounds suffice. In the ledger, a wrong split needs two charges of one period with two
copies of the limits, or an update between a read and a write: two requests, two handlers, one
restart; costs up to 2 straddle the limits 0 and 1, and 4 lets both requests straddle. The
overrun needs as many requests as can be in flight at once, each on a replica of its own. The
rotation goes wrong with two keys of the provider, a foreign key between them, a name that two
providers share and a budget one below, at, or above the number of keys. Races on cooldowns
need two replicas and one key, for with a second key a request could only leave them earlier.
A revocation races a renewal and a login with two handlers; a marker expires in one day and a
renewed session on the next, and the third day is one on which only the session is left. Three overlapping handlers were run once as well: see below.

A queue of 1 overflows with two records, and a batch of 2 is written full, by the tick, and with
one record; two batches of two records that touch the same rows in opposite orders are the
smallest deadlock, and a charge joins it as a third transaction; a batch of two hours against a
charge of the same user in the later one is the smallest with a charge in it. Two charges of one
user at two replicas use the same week and another, with and without a lifetime quota. Four records fall into two
hours and two days. Pages are asked for with ends inside, at and across the buckets.

The ten answers have every kind of part, alone and after each other, two and three calls, calls
with the same function and the same or other arguments, calls without an identifier and without
arguments, a refusal alone and after text, and text and arguments in two fragments, so that
something can be lost, doubled or put in the wrong place between any two chunks. A map of 4
entries is full after two calls. To keep the run within minutes, media and options vary one at a
time and only after whole answers without calls; after a stream a client that returns what it
was given is one that has more to say; where signatures may be out of reach it has the plainest
manner; and a day passes, or a replica restarts, only where there is something to forget.

### What the violations show

* `quota_lost_reset`: `UpdateUserQuota` reads the anchor and writes it back. A reset in between
  is taken back: use that had been forgiven counts again.
* `quota_stale_reload`: two overlapping reloads, the older of which installs last, leave the
  replica with the old limits until the next change. With one administrator at a time it cannot
  happen (`quota_overshoot` checks `SnapshotCurrent`).
* `failover_skip`: `KeyState.Remove` does not move the cursor back with the keys. With keys a, b,
  c: a fails, b is disabled, a is called again, and the request leaves the target without having
  called c. Without disabled keys the rotation is right (`failover_rotation`).
* `exchange_invented`: `readAnthropicStreamAsCanonical` passes every `content_block_stop` on as the
  end of a tool call, and the tracker makes up a call for an index it does not know. A client of
  Responses or Gemini is told of a call without a name that no provider made. The other
  properties speak of the calls that have a name.
* `sessions_retry`: when the reload fails after the commit, the second, successful request does
  not revoke the sessions.

Known limits of `RevokedStaysOut`: it exempts behaviours in which a marker was replaced by an
older one (`crossed`). Two revocations of one user may take their instants in one order and write
them in the other; with a login between the two instants, and three handlers, its session
outlives the revocation. It also exempts those in which a request was caught by the end of a day
(`straddled`). A renewal that passed the check before a revocation and writes after the day has ended
lives a day longer than the marker; once the marker is gone the revoked session is accepted, and
renewed for a full life (`admin_api.go:615`, `runtime_cache.go:135` and `:213`). And the session and its
marker may both run out between the two reads of a request, which then finds the session still
there and the marker gone. In the code the gap is as long as the handler takes between its
check and its write. TLC finds each of these when its exemption is
taken away, the two of `straddled` in the bounds of `sessions`, `crossed` with three handlers and four
instants.

### Fairness

`failover_shared`, `usage_pipeline` and `conversation` check liveness. In `failover_shared`,
`FairSpec` asks that a request that can go on does:
goroutines are scheduled, the HTTP client has a timeout, and calls to Redis and to the database
return. Nothing is assumed of clocks, administrators or new requests. There Redis does not fail
(`Flaky = FALSE`), and cooldowns lapse a bounded number of times: with a cooldown that lapses in
the pool and not in Redis again and again, `nextProviderKey` may turn as long as it does.

`UsagePipeline` assumes weak fairness of `SystemStep`: a replica that has something queued takes
it, its ticker ticks, and the database answers: a statement that can run runs or fails, and the
database notices a deadlock. Requests, crashes and pages are not assumed. So every record
is counted or lost in the end, which `UsageBook` asks for.

`Exchange` assumes that the body of an answer ends, whatever the provider does: the HTTP client of
the server has a timeout, and a body it gives up on is one that broke off. Its `Fairness` is
`WF_vars(Proceeds)`, written with the guard `Open` in place of `ENABLED`, for as long as an exchange is
open `BodyEnds` or `WholeArrives` can happen. The next request of the client is not assumed.

`usage_pipeline` checks that nothing deadlocks before everything has ended (`Done`). The other runs
do not check deadlock: their counters are bounded, and a system whose requests are all answered
may rest.

## 4. Proofs

| theorem | statement |
|---|---|
| `QuotaLedgerProofs!TypeCorrect` | `Spec => []TypeOK` |
| `QuotaLedgerProofs!AnchorLimit` | `Spec => []AnchorFixesLimit` |
| `QuotaLedgerProofs!Charges` | `Spec => ChargesLimitInForce` |
| `QuotaLedgerProofs!LifetimeSum` | `Spec => []LifetimeIsOverage` |
| `QuotaLedgerProofs!LastChangeInForce` | `Spec => []SnapshotCurrent`, with one administrator |
| `QuotaLedgerProofs!OvershootLimit` | `Spec => []OvershootBounded`, of what is really used until somebody is admitted with old limits; with one administrator, finitely many requests and `WeeklyDecides` |
| `RoutingProofs!TypeCorrect` | `Spec => []TypeOK` |
| `RoutingProofs!CallsBounded` | `Spec => []BudgetRespected` |
| `RoutingProofs!DisabledKeysStayOut` | `Spec => []DisabledStaysOut` |
| `RoutingProofs!NoKeyPassedOver` | `Spec => EveryKeyTried`, where no key is declared invalid |
| `AdminSessionsProofs!TypeCorrect` | `Spec => []TypeOK` |
| `AdminSessionsProofs!LastAdmin` | `Spec => []AdminRemains` |
| `AdminSessionsProofs!Revocation` | `Spec => []RevokedStaysOut`, for behaviours that are neither `crossed` nor `straddled` |
| `RoutingProofs!PreferKeepsTargets` | a sticky session permutes the targets, its own to the front |
| `RoutingProofs!OrderKeepsTargets` | rotation and session together permute the targets |
| `RoutingProofs!EveryRouteReached` | `EveryRouteOnce`: selection, rotation and session lose and double no route |
| `UsagePipelineProofs!TypeCorrect` | `Spec => []TypeOK` |
| `UsagePipelineProofs!RecordsInOrder` | `Spec => []OrderKept` |
| `UsagePipelineProofs!PipelineIsBook` | `Spec => Book!Init /\ [][Book!Next]_Book!vars`: the safety half of `CountedOnceOrLost` |
| `UsagePipelineProofs!ChargesAloneNeverDeadlock` | `Spec => []DeadlockNeedsBatch` |
| `UsagePipelineProofs!StatisticsAgree` | `Spec => []TablesAgree` |
| `UsagePipelineProofs!SummariesExact` | `Spec => []SummaryExact` |
| `UsagePipelineProofs!SummariesOrdered` | `Spec => []SummaryOrdered` |
| `ExchangeProofs!NoEarlySuccess` | `Spec => []NoFalseSuccess`, of `Exchange`, and that a stream recorded with status 200 was ended |
| `ExchangeProofs!ExchangeType` | `Spec => []TypeOK`, of `Exchange` |
| `ExchangeProofs!LegalAnswers` | `Spec => []StreamLegal`, for Anthropic and Gemini clients (the latter may be told an error beside a finish), and for every client of a whole answer |
| `ConversationProofs!NoEarlySuccessAlong` | what `NoEarlySuccess` says, of `ConversationSpec` |
| `ConversationProofs!OptionsKeptAlong` | `ConversationSpec => []OptionsKept` |
| `ConversationProofs!UsageRecordedAlong` | `ConversationSpec => []UsageRecorded` |

They hold for all values of the constants under the assumptions of the models. `QuotaAssumption`,
`KeyPoolAssumption`, `FailoverAssumption` and `SessionsAssumption` type the constants, ask for
finitely many keys and users, for rows of keys that differ (`Rows` is a primary key's order), and
for a session to be renewed only when less than its whole life is left. `SizeAssumption`,
`TimeAssumption`, `OwnerAssumption`, `ScriptAssumption` and `QueryAssumption` type those of
`UsagePipeline`: a day is a number of whole hours, requests come in the order of their
instants, and the instant that stands for "not given" is none. `SelectionAssumption`,
`CatalogAssumption` and `PreferenceAssumption` say of the catalogs that they are finite, that a
route is its identifier (a primary key) and that weights are integers, and of the handlers that
each names a protocol once. `AnswersAssumption` says that the parts of an answer are a sequence, and
`UsageAssumption` that its tokens are natural numbers, not all zero (a provider that counts nothing
sends no usage, and there is nothing to record). `SignatureAssumption` bounds the map of signatures.
`RoutesAssumption` types the routes of a conversation, and
`OptionsAssumption` the options of its requests: a client names functions only with a word for the
choice that takes names, as the APIs have it ("auto" with names is no choice of OpenAI's, nor an
unspecified mode one of Gemini's; the code would drop the names).

Three theorems have a hypothesis of their own, without which they are false:

* `OneAdmin`, one administrator at a time. With two, `quota_stale_reload` is the counterexample.
* `WeeklyDecides`: the weekly limit determines the lifetime limit, and no grant has a lifetime limit
  alone. A new weekly limit starts a new week, but a lifetime limit can be lowered under what has
  been used, after which the use is over the limit by any amount and no request is to blame. The
  grants of `quota_overshoot` satisfy it.
* `"invalid" \notin Answers`: no upstream disables a key while requests run. With a removal in the
  middle of a rotation, `failover_skip` is the counterexample.

**Ledger.** `AnchorFixesLimit` is not inductive: a fresh anchor changes `weeklyAt`, and a copy
could name that anchor already. `LedgerInv` adds that no anchor in anybody's hands is newer than
`anchors` (`Issued`). Each action keeps the pairs it copies, `Restart` makes a pair of a new
anchor, and `WriteUpdate` with an unchanged weekly limit writes back the pair it read, which is
old but still a pair: this is why the lost reset, a flaw, does not break the split of credits.
`Charges` follows: a charge uses `Spill` with the limit of the copy, which is the limit of the
period.

`LifetimeIsOverage` (`SumInv`) needs in addition that the weeks of an anchor not yet written are
empty (`Unused`), so that writing its limit moves no overage, and that whoever can be charged has a
lifetime limit if every grant has one (`AllBacked`), so that `Spill` forgets nothing. A charge then
moves one summand and the counter by the same amount (`TotalChange`).

**Limits.** `SnapshotCurrent` is about the moments at which no handler works. `CurrentInv` follows
the only handler through its reload: what it has read is the row, since requests do not write the
limits, and what it installs is what it has read.

`OvershootBounded` bounds `real`, in two steps. The first is about what is booked on the row's week,
which decides who is admitted; a request is admitted before it is charged. `BoundInv` counts in what is still out: the requests that run with limits, and those the
second query is about to admit (`Outstanding`), may each cost `MaxCost` more. As long as there is a
limit, use plus what is due stays under that limit by `Slack` (`WithinSlack`). A request that is
admitted is one more that is due, and the quota it was admitted by was not exhausted; a charge moves
its cost from what is due to what is used; a new week or a new anchor starts empty
(`FutureUnused`). The second step, `RealInv`, is about what is booked elsewhere or nowhere. Only a
request whose copy is not the row's does that (`Strays`); while `real` counts on no new one is
admitted, so what it has cost already and what the rest of them may still cost (`Stray`) stays within
one set of requests: `RealWithin` says `real + Stray <= ThisWeek + Slack`. A change of the limits
makes strays of all requests in progress and sets `real` to 0. To get from the week to the limits,
`WeekBacked` says that what the week has over its limit is on the lifetime counter, since whoever is
charged to that week has the row's lifetime quota (`AllGranted` and `WeeklyDecides`).

**Failover.** `FailInv` adds to `TypeOK` where a request stands (`Placed`): off "idle" it has a
replica; inside a target its order is not empty; it has a key while it works with one; at "peek"
and "call" it may still call (`left > 0`); and `attempts + left` is at most `MaxAttempts`.
`BudgetRespected` is part of the last, which `EnterTarget` keeps by setting `left` to no more than
what remains, and `Count` by moving one from `left` to `attempts`. Lemmas give what `NextFor`,
`RemoveKey`, `Cool` and `Replace` return, on any pool.

`DisabledStaysOut` is about the pool, into which keys come only from a reload. `OustInv` says that
a disabled key is in no row of the database and in no list that a reload has read since, that
the keys of a pool, of a list and of the rows differ, so that one removal is enough, and that the cursor
is on a key.

`EveryKeyTried` is a property of a step; `RotateInv` is what makes it true at every step before.
For a request whose pool nobody else has touched, one of three things holds (`Rotated`): it will use
up the budget; or it has called every usable key; or it is in its first round, which began at
some place `f`: every usable key between `f` and the cursor has been called (`Behind`), and there is a
call left for each matching key that has not. `NextFor` moves the cursor to the first usable key at
or after it, so that it either calls a new key or has come round.

**Sessions.** `AdminRemains` needs two facts (`AdminInv`): before there is a user nobody is past
the setup page, and the row an update is about exists. A step then writes at most one row
(`UsersStep`), and where that row is not an active administrator's, somebody else is one: for a
demotion since `Allowed` counted two, otherwise since an administrator was there already.

`RevokedStaysOut` says nothing of where sessions and markers are in Redis, which is what it depends
on. `SessionInv` says it: every copy of a session has the issue instant of its login; the marker of
a user is that of the latest revocation; a stored session that is revoked has a marker that lives at
least as long (`Marked`), as long as its day has not gone by, and so has one between `GetSession` and
`CheckMarker`; one that is about to be renewed has a marker with a full life from today if it
has been revoked since it was checked, unless a day has ended meanwhile (`late`). A renewal then keeps `Marked`
because it does not change the issue instant, a day because what lives on has a marker that lives
on with it, and a revocation because its marker has a full life. `CheckMarker` lets through only a
session issued after the latest revocation. All of it is subject to `Ordinary`:
without `~crossed` the marker need not be that of the latest revocation, and without `~straddled` a
renewal may outlive it.

**Route selection.** That an order is a permutation is stated with the places its targets had: a
function that is injective on places of the same number (`Reorders`). `RotateTo` and `MoveFirst` are
given theirs explicitly, case by case, and permutations compose. `SlotsByWeight` shows of
`expandWeightedTargets` that its slots are places of targets, each as often as its weight, along
the concatenation of the blocks (`FlattenSteps`).

Selection is an induction over the rows (`SelectsAll`, from `FoldSteps`): after each, every route
seen so far that is supported was chosen once, at no worse a rank than any of its rows
(`Selected`). The step (`ChooseSelects`) needs that a route that names its protocol has one row
(`CatalogRowsApart`), because the loop appends such a row without looking for an earlier one, and
the join gives that. At the end the rank of a chosen row is the least of those its route may use,
so its protocol is `BestOf` (`ChosenReach`), and the chosen rows are as many as the reachable
routes, since each has one and only one (`ChosenCount`). `EveryRouteReached` puts this and the
permutation together.

**Usage.** `PipeInv` is the ground of the rest. Records are numbered in the order in which they
were made, without gaps (`MadeInv`); the batch of a writer comes before its queue, both ascend, and
what it has logged comes before both (`LineInv`); the transaction of a writer inserts its batch, and
that of a charge one record that is not logged (`TxInv`); the statements of a transaction are
those of its records (`ShapeInv`). `OrderKept` is read off it. So is the refinement: a record that ends
is `Make`, or `Make` into the lost ones; a commit moves what is in flight into the logs, where it
was not before; a failed batch, an aborted transaction and a crash take records out of flight
without a trace in the tables; and all other steps stutter.

`DeadlockNeedsBatch`: a charge writes the hour, the day, the week and the row of one user, in this
order. As long as no writer inserts a record of that user (`NoBatchOf`), only another charge of
the same user writes any of them, and in the same order, so whoever holds the row that a charge
waits for is further on than the charge (`ChargeWaits`), and so on round any cycle (`ChargeFree`).
Following the waits is a recursive function; its values are shown to stay ahead of the charge for
every number of steps. With a batch of the same user in progress the conclusion is false: see
section 7.

`TablesAgree`: with `TablesInv`, each table is the sum of the logs by row (`SumsOf`). The statements of
a batch are a concatenation of those of its records, one for each table (`Covers`); each upsert adds
its record to one row (`UpsertAdds`); so the statements of a transaction, applied in order, add
each of its records once (`StatementsCover`, `AppliedAdds`), and it commits only after the last
(`DoneInv`).

`SummaryExact`: rounding down and up reaches the multiples on either side, for any hour length
and day length (`FloorBounds`, `CeilBounds`), and a bucket is within a range exactly when its
instants are, once the ends are taken to the beginnings of buckets (`BucketWithin`). The rows a page
reads then count the records of its window (`StatsPage`, `LogsPage`), and the points of a series
those of the page (`PointsCount`). `SummaryOrdered` follows from it with `ReportInv`: each read finds what is
on the page at its time, and no step takes a record off a page (`PageGrows`).

**Streams.** `NoFalseSuccess` speaks of the client, of which `Next` says little: an answer is a fold of
chunks by a reader into events, of events by an encoder into what is written, and of that by the
client. `Unfinished` says, as long as the provider has not sent its end, that none of the four has
it: the reader has emitted no "response_done", is not over and holds no finish back (`Reading`), the
encoder has written none of the tokens that end a stream (`Encoding`), the client has not been told
(`Hearing`), and the record has no status 200. A lemma for each step of the tracker and of the four
readers shows that a chunk from before the end (`Midway`) keeps `Reading`, one for each encoder that
events from before the end keep `Encoding`, and one that such a stream does not complete a client.
`BodyEnds` before the provider's end is then an error in each protocol: the terminated flag of the
readers is what the proof uses there. What the chunks of the script are before its end is read off
the definitions of `StreamPeers`; of what is answered only `AnswersAssumption` is used. Along a
conversation nothing changes: what comes between two exchanges touches neither end of a stream.

**Types.** `TypeOK` of `Exchange` is not inductive, since a reader and an encoder are records whose
fields steps add to. `TypeInv` says of the reader that it reads, or has returned (`Reading`,
`Returned`), of the encoder that it has what an encoder writes with while the exchange is open
(`Encoding`), and of the script how far it is (`Progress`). The lemmas of **Streams** serve here a
second time: each says how much of an answer may have been read, nothing of its end ("before"), a finish
that is kept back ("held") or all of it ("any"). That the map of signatures never
outgrows its capacity (`Stored`) is a fold of `Remember`, each of which ends in `Trimmed`.

**Legal streams.** `StreamLegal` says that the client found nothing wrong, so `LegalInv` must say why it
will not. For an Anthropic client, what the encoder has open is what the client has open, and the
encoder's next block is the one the client expects (`BlocksMatch`); what is written but not yet heard
is taken into account by hearing it (`Heard`, `Joint`). Each write then closes what is open, or opens
the next, and after the finish the encoder writes nothing. A Gemini client is written whole
chunks, of which a finish must be the last. The encoder would write on after a finish, so the
proof looks at the readers: those of Responses and Anthropic tell the end as the last of their
events; Chat's holds it back, and only calls that are done may come with it (`Ended`, `Stopping`), which
add nothing that is heard. Until then the client has been told no finish, and an error may come at any
time (`Fresh`). A whole answer is collected in one step (`Collecting`).

**Usage recorded.** Usage comes before, with or after the end of a stream, in one part or in two, and is
recorded when the exchange is over. `UsageInv` says what the reader has counted by then
(`RightCount`): of Anthropic nothing, then the input, then all of it; of the others all of it, once the
part of the ending that carries it is sent. Each chunk is followed through its reader: the events it
becomes tell of usage at most what the chunk says, and the last that tells decides (`Counted`,
`UsageAfter`); an event of any other kind is mute (`Mute`). The two parts of Anthropic add up
(`UsageMerges`), for any tokens. That nothing is said after the ending needs that the ending
comes last (`EndsLast`), and the record is written from the reader in every way an exchange can
close (`PassOn`, `BodyEnds`, a whole answer). The client is not mentioned: it may have gone wrong.

**Options.** `OptionsKept` compares what is sent to the last of several targets with what the
client asked for, two conversions earlier. `Translates` says that the canonical options mean the same as
the client's (`InboundMeans`, a lemma for each protocol), `Serves` that those of a provider keep
what the canonical ones say (`OutboundMeans`, likewise), and `KeptThrough` puts the two together. That
both meet in the same canonical options, for every target of the route, is an induction along the
route (`RoutePrepared`), through all the ways signatures can be looked up, and rests on the copy that
`cloneCanonicalRequest` makes. Where the request cannot be converted at all, the route is only passed
on to targets of the client's protocol (`RoutePassed`).

**Folds.** The community modules compute sums and concatenations by recursive folds, and the provers
cannot use the induction theorems of the library, whose premises are about an operator. `FoldTheorems`
has what is needed without: the least number that fails (`LeastNumber`) and a least subset that
fails (`LeastSubset`) are given as facts about sets of numbers and of sets, a fold over a set is shown
to be the same in whatever order its elements are taken (`FoldsAgree`), and a fold over a sequence is
followed prefix by prefix (`FlattenSteps`).

`LeftFolds` has the induction along a sequence itself: what the base of a fold from the left has and
each step keeps, its result has (`FoldKeeps`); what a step brings about and the later ones keep,
the fold reaches (`FoldReaches`); and a fold over one element more is one more step (`FoldOneMore`).
The step and the property are constants of the module, with a first argument `p` that tells one
fold from another, so that one instance without parameters serves many folds: `Along`, `Memory`,
`Legally` and `Sending` in `ExchangeProofs`, `Counts` and `Route` in `ConversationProofs`.

Only model-checked:

* liveness: `Answered`, that nothing stays undecided (`Settled` of `UsageBook`) and `Relayed`, since fairness
  and `ENABLED` are out of the prover's reach;
* `StreamLegal` for streams to Chat and Responses clients. It depends there on what the provider sends and
  in which order: that the arguments of a finished call are those its deltas made, that a call
  is started before it grows, that an answer has at most one reasoning. An invariant would have to
  relate the script, the tracker and the items of the client, call by call;
* of `Exchange`, `CallsKept`, `SignatureKept`, `ReasonKept` and `UsageKept`, and of `Conversation`
  `LoopCloses`, `WordsSent`, `PlainGoesOn`, `SignaturesRestored` and `SignaturesRight`: they relate what
  comes out at one end, in full, to what went in at the other, through readers and encoders that
  distinguish dozens of events by protocol; TLC goes through all of them for the answers of
  `MCConversation`;
* `TurnsByWeight`: TLC evaluates it on the catalogs of `MCFailover`; proved is what it rests on, that
  the slots hold each target as often as its weight.

## 5. Plan

1. `RouteSessions`: the two stores of sticky sessions, with requests that overlap, over
   `RouteSelection` and `Failover`.
2. `RuntimeReload`: user keys, provider keys and users with reloads, over the same rows as
   `QuotaLedger` and `Failover`.
3. `Cooldown`: hits and durations in both layers, for one key, refining the boolean cooldowns of
   `KeyPool`.
4. `ProviderAdmin`: providers, endpoints, keys and routes, written in several statements, of which one
   may fail.
5. Proofs: `StreamLegal` for Chat and Responses clients, with the answers' order as an assumption;
   `UsageKept`, from `UsageRecorded` and what the encoders do with usage; the safety half of `Relayed`;
   `TurnsByWeight`, from `SlotsByWeight`; that `Failover` implements "at most MaxAttempts calls, then
   an answer".

## 6. What is not modelled

The database and Redis are their committed effects: statements are atomic, and transactions
serialise on the rows they update; only `UsagePipeline` looks into a transaction. Process crashes
are modelled where something is lost with the process that a property speaks of: the queue and
the batch in `UsagePipeline`, the map of signatures in `Conversation`. Elsewhere pools and
copies are rebuilt at start from the database.

Of the conversions, what passes unchanged is left out: schemas of tools, temperature and other
numbers, metadata, the bytes of media. So are the checks of method, path and model, the diagnosis log,
and the direct relay of an answer in the client's own protocol, which copies bytes. Of usage, the
counters in memory that the admin page shows (`statsSnapshot`) and the rates that turn tokens into
credits. Of sticky sessions, their stores. Of the admin page, the CRUD of providers, endpoints,
keys, models and routes, mostly one statement each. Without Redis, sessions live in a map that
dies with the process. Schema, static catalogs, configuration and the web interface have no
behaviour of their own worth a model.

What a provider may refuse by rules of its own is not claimed: that Chat wants the results next
to their calls, or Anthropic a thinking budget below the limit of tokens.

## 7. What the program does not pass on

Met while modelling; the models do what the code does, and the properties exempt it by name.

Streams:
* The refusal of a stream that ends with "stop" is not told to an Anthropic client.
* A Chat stream that fails after its finish gives a Gemini client both a finish and an error:
  `StreamLegal` does not count it as a breach.
* A Chat client is given the index of the block or output as that of the choice, so that a second
  block goes to a second choice: `StreamLegal` does not look at the index.
* A Gemini client loses the calls of a Chat stream that ends with `[DONE]` and no finish reason.
* The encoder for Responses writes the text and the signature of the first reasoning again in
  a second one.
* Of a Responses stream that is only `response.completed`, reasoning is not read, and a Chat
  client is given calls without arguments.
* A refusal after text in one item of Responses is appended to the text; an Anthropic client is
  given calls in the order in which they were completed.

Whole answers:
* For a Chat client text beside calls is dropped, for any client text beside a refusal, and for an
  Anthropic client everything beside a refusal.

Requests:
* Stop sequences are dropped on the way to Responses, although
  `docs/canonical-protocol-task.zh-CN.md:37` forbids to drop anything silently.
* A thinking budget of 0 is dropped on the way to Chat and Responses; Anthropic's "enabled" with a
  budget is always refused for them.
* A Gemini response type other than JSON is passed to Responses as text.
* A result that is a string comes to Responses quoted twice from Anthropic, and as
  `{"result": ...}` from Gemini; `LoopCloses` compares the bare contents.
* Words and results in one message: Chat is refused, Responses is given the words before the results.
* A call without a signature is given that of an earlier call of the same function with the
  same arguments.

Quotas, sessions and usage:
* Nothing bounds what a replica that has not reloaded admits: an old copy with limits is charged to
  the week of an old anchor, one without limits to nobody (`quota.go:9`, `usage.go:89` and `:111`).
  `docs/horizontal-scaling-assessment.zh-CN.md:132` names the failure; `OvershootBounded` counts
  only until such a replica admits somebody.
* A session that is renewed while a revocation and the end of a day overtake the handler outlives its
  marker (see "Known limits" in section 3).
* A charge can deadlock with a queued batch of the same user, made from a copy without limits: the batch
  has the day and wants the next hour, the charge has that hour and wants the day. The
  database may abort the charge, whose record is then only logged as failed, and the user is
  not charged. Among themselves charges never deadlock (`DeadlockNeedsBatch`).

That no stream which breaks off is told as a success (line 91 of that document) holds:
`NoFalseSuccess`.
