------------------------------ MODULE Failover ------------------------------
(***************************************************************************)
(* A request looks for a provider that answers: doProviderTargetLoop walks *)
(* the targets of its model and doProviderAttemptLoop walks the keys of a  *)
(* target, with a budget of upstream calls for the whole request.          *)
(*                                                                         *)
(* All requests of a replica rotate one KeyPool.  The replicas share the   *)
(* cooldowns in Redis and the keys in the database.  A request runs in     *)
(* steps between which other requests, reloads, flushes and the clock act: *)
(* it holds the pool's mutex for one operation at a time.                  *)
(*                                                                         *)
(* The order in which a request tries the targets is an input here (it is  *)
(* what route selection and the sticky session decide), and so is what the *)
(* upstream answers.                                                       *)
(***************************************************************************)
EXTENDS KeyPool

CONSTANTS
    Replicas,     \* proxy processes
    Requests,     \* requests that can be in progress at once
    Orders,       \* the orders of targets a request may be given
    Registered,   \* the targets whose provider is in the replica's registry
    Answers,      \* what the upstream may answer
    Rows,         \* the keys as RuntimeProviderAPIKeys orders them
    Flaky,        \* whether a call to Redis may fail
    MaxAttempts,  \* Retry.MaxAttempts
    MaxEvents,    \* bound: lapses, flushes and reloads
    None          \* no key, no replica, no reload in flight

\* "error" is a transport error or a 5xx, "limited" 429, "invalid" a status or
\* a body that disables the key, "refused" any other status from 400 on.
AllAnswers == {"ok", "error", "limited", "invalid", "refused"}

ASSUME FailoverAssumption ==
    /\ Orders \subseteq Seq(Targets)
    /\ Registered \subseteq Targets
    /\ Answers \subseteq AllAnswers
    /\ Rows \in Seq(Keys) /\ \A i, j \in DOMAIN Rows : Rows[i] = Rows[j] => i = j
    /\ Flaky \in BOOLEAN
    /\ MaxAttempts \in Nat \ {0}
    /\ MaxEvents \in Nat
    /\ None \notin Keys \union Replicas \union Seq(Keys)

VARIABLES
    pool,     \* each replica's KeyState
    shared,   \* the cooldowns in Redis
    enabled,  \* the keys enabled in the database, in the order of Rows
    fetched,  \* the keys a reload of the replica has read and not yet installed
    req,      \* the requests
    events,   \* how many of MaxEvents have happened
    tried,    \* history: the keys a request has called for its target, as
              \* long as nobody else has changed the pool, else None
    ousted,   \* history: the keys this replica has disabled
    overtook  \* history: a key was disabled while a reload was in flight

world   == <<shared, enabled, fetched, events>>
history == <<tried, ousted, overtook>>
vars    == <<pool, world, req, history>>

PCs == {"idle", "target", "pick", "peek", "adopt", "call", "share", "heal", "disable", "remove"}

Idle    == [pc |-> "idle", at |-> None, order |-> <<>>,
            attempts |-> 0, left |-> 0, key |-> None]
Request == [pc : PCs, at : Replicas \union {None}, order : Seq(Targets), attempts : 0..MaxAttempts,
            left : 0..MaxAttempts, key : Keys \union {None}]

Target(r) == Head(req[r].order)
Home(r)   == pool[req[r].at]
Id(r)     == CooldownId(Target(r), req[r].key)

SetPool(b, p) == pool' = [pool EXCEPT ![b] = p]

\* A write to Redis, whose failure is not noticed.
RedisWrite(ids) == shared' = ids \/ (Flaky /\ UNCHANGED shared)

\* The history of a step that changes the pool of b: the requests that are on
\* a target of it, other than those in "own", are no longer undisturbed.
Stir(b, own) ==
    tried' = [q \in Requests |->
                IF req[q].at = b /\ req[q].pc # "target" /\ q \notin own /\ pool' # pool
                THEN None ELSE tried[q]]
Note(r, keys) == tried' = [tried EXCEPT ![r] = keys]

\* The request is over.
End(r) == req' = [req EXCEPT ![r] = Idle] /\ Note(r, {})

-----------------------------------------------------------------------------
(* doProviderTargetLoop                                                    *)

Start(r, b, order) ==
    /\ req[r].pc = "idle"
    /\ req' = [req EXCEPT ![r] = [Idle EXCEPT !.pc = "target", !.at = b, !.order = order]]
    /\ UNCHANGED <<pool, world, history>>

Smaller(a, b) == IF a <= b THEN a ELSE b

\* Mutant of Budget: every target has the whole budget of the request.
BudgetPerTarget(remaining, keys) == IF keys > 0 THEN Smaller(MaxAttempts, keys) ELSE MaxAttempts

\* The budget for one target: what is left for the request, and no more than
\* one call per matching key.
Budget(remaining, keys) == IF keys > 0 THEN Smaller(remaining, keys) ELSE remaining

EnterTarget(r) ==
    LET remaining == MaxAttempts - req[r].attempts IN
    /\ req[r].pc = "target" /\ req[r].order # <<>> /\ remaining > 0
    /\ Target(r) \in Registered
    /\ req' = [req EXCEPT ![r].pc = "pick",
                          ![r].left = Budget(remaining, AvailableFor(Home(r), Target(r)))]
    /\ Note(r, {})
    /\ UNCHANGED <<pool, world, ousted, overtook>>

\* "provider not found": no call was made, the next target has its turn.
SkipTarget(r) ==
    /\ req[r].pc = "target" /\ req[r].order # <<>> /\ req[r].attempts < MaxAttempts
    /\ Target(r) \notin Registered
    /\ req' = [req EXCEPT ![r].order = Tail(@)]
    /\ UNCHANGED <<pool, world, history>>

\* No target is left, or no call: the last failure (or 429) is the answer.
GiveUp(r) ==
    /\ req[r].pc = "target"
    /\ req[r].order = <<>> \/ req[r].attempts >= MaxAttempts
    /\ End(r)
    /\ UNCHANGED <<pool, world, ousted, overtook>>

-----------------------------------------------------------------------------
(* doProviderAttemptLoop with nextProviderKey                              *)

\* The budget of the target is spent, or every key of it is cooling.
LeaveTarget(r) ==
    /\ req[r].pc = "pick"
    /\ req[r].left = 0 \/ Stops(Home(r), Target(r)) = {}
    /\ req' = [req EXCEPT ![r].pc = "target", ![r].order = Tail(@), ![r].left = 0]
    /\ Note(r, {})
    /\ UNCHANGED <<pool, world, ousted, overtook>>

\* Mutant of Pick: the budget is not looked at.
PickUnbudgeted(r) ==
    LET given == NextFor(Home(r), Target(r)) IN
    /\ req[r].pc = "pick"
    /\ Stops(Home(r), Target(r)) # {}
    /\ SetPool(req[r].at, given.pool)
    /\ req' = [req EXCEPT ![r].pc = "peek", ![r].key = given.key]
    /\ Stir(req[r].at, {r})
    /\ UNCHANGED <<world, ousted, overtook>>

Pick(r) ==
    LET given == NextFor(Home(r), Target(r)) IN
    /\ req[r].pc = "pick"
    /\ req[r].left > 0 /\ Stops(Home(r), Target(r)) # {}
    /\ SetPool(req[r].at, given.pool)
    /\ req' = [req EXCEPT ![r].pc = "peek", ![r].key = given.key]
    /\ Stir(req[r].at, {r})
    /\ UNCHANGED <<world, ousted, overtook>>

\* Redis knows of a cooldown of the key; or it does not, or does not answer,
\* which redisKeyCooldown takes for the same.
PeekCooling(r) ==
    /\ req[r].pc = "peek"
    /\ Id(r) \in shared
    /\ req' = [req EXCEPT ![r].pc = "adopt"]
    /\ UNCHANGED <<pool, world, history>>

PeekClear(r) ==
    /\ req[r].pc = "peek"
    /\ Id(r) \notin shared \/ Flaky
    /\ req' = [req EXCEPT ![r].pc = "call"]
    /\ UNCHANGED <<pool, world, history>>

\* Mutant of Adopt: the pool does not hear of the cooldown.
AdoptNothing(r) ==
    /\ req[r].pc = "adopt"
    /\ req' = [req EXCEPT ![r].pc = "pick", ![r].key = None]
    /\ UNCHANGED <<pool, world, history>>

\* MarkRedisExhausted, of a cooldown read from Redis or written to it.
Adopt(r) ==
    /\ req[r].pc = "adopt"
    /\ SetPool(req[r].at, Cool(Home(r), Id(r)))
    /\ req' = [req EXCEPT ![r].pc = "pick", ![r].key = None]
    /\ Stir(req[r].at, {r})
    /\ UNCHANGED <<world, ousted, overtook>>

\* One upstream call has been made and has failed.
Count(r, pc, key) ==
    /\ req[r].pc = "call"
    /\ req' = [req EXCEPT ![r].pc = pc, ![r].attempts = @ + 1, ![r].left = @ - 1, ![r].key = key]

Tried(r) == IF tried[r] = None THEN None ELSE tried[r] \union {req[r].key}

CallError(r) ==
    /\ "error" \in Answers
    /\ Count(r, "pick", None)
    /\ Note(r, Tried(r))
    /\ UNCHANGED <<pool, world, ousted, overtook>>

\* markProviderKeyExhausted: the pool first, then Redis, then the pool again.
CallLimited(r) ==
    /\ "limited" \in Answers
    /\ Count(r, "share", req[r].key)
    /\ SetPool(req[r].at, Cool(Home(r), Id(r)))
    /\ Stir(req[r].at, {r})
    /\ UNCHANGED <<world, ousted, overtook>>

Share(r) ==
    /\ req[r].pc = "share"
    /\ RedisWrite(shared \union {Id(r)})
    /\ req' = [req EXCEPT ![r].pc = "adopt"]
    /\ Note(r, Tried(r))
    /\ UNCHANGED <<pool, enabled, fetched, events, ousted, overtook>>

CallInvalid(r) ==
    /\ "invalid" \in Answers
    /\ Count(r, "disable", req[r].key)
    /\ Note(r, Tried(r))
    /\ UNCHANGED <<pool, world, ousted, overtook>>

\* disableAPIKey: the database first; if that fails, the pool keeps the key.
Disable(r) ==
    /\ req[r].pc = "disable"
    /\ enabled' = RemoveFirst(enabled, req[r].key)
    /\ req' = [req EXCEPT ![r].pc = "remove"]
    /\ ousted' = [ousted EXCEPT ![req[r].at] = @ \union {req[r].key}]
    /\ overtook' = (overtook \/ fetched[req[r].at] # None)
    /\ UNCHANGED <<pool, shared, fetched, events, tried>>

DisableFails(r) ==
    /\ req[r].pc = "disable"
    /\ req' = [req EXCEPT ![r].pc = "pick", ![r].key = None]
    /\ UNCHANGED <<pool, world, history>>

RemoveDisabled(r) ==
    /\ req[r].pc = "remove"
    /\ SetPool(req[r].at, RemoveKey(Home(r), req[r].key))
    /\ req' = [req EXCEPT ![r].pc = "pick", ![r].key = None]
    /\ Stir(req[r].at, {r})
    /\ UNCHANGED <<world, ousted, overtook>>

\* A client error of another kind goes back to the client as it is.
CallRefused(r) ==
    /\ "refused" \in Answers
    /\ req[r].pc = "call"
    /\ End(r)
    /\ UNCHANGED <<pool, world, ousted, overtook>>

\* markProviderKeyHealthy: the pool first, then Redis.
CallOk(r) ==
    /\ "ok" \in Answers
    /\ req[r].pc = "call"
    /\ SetPool(req[r].at, MarkHealthy(Home(r), Id(r)))
    /\ req' = [req EXCEPT ![r].pc = "heal"]
    /\ Stir(req[r].at, {r})
    /\ UNCHANGED <<world, ousted, overtook>>

Heal(r) ==
    /\ req[r].pc = "heal"
    /\ RedisWrite(shared \ {Id(r)})
    /\ End(r)
    /\ UNCHANGED <<pool, enabled, fetched, events, ousted, overtook>>

-----------------------------------------------------------------------------
(* The world around: the clock, the admin page.                            *)

Event == events < MaxEvents /\ events' = events + 1

\* A cooldown is over in one pool, or in Redis.
Lapse(b, id) ==
    /\ Event
    /\ id \in pool[b].cooling
    /\ SetPool(b, MarkHealthy(pool[b], id))
    /\ Stir(b, {})
    /\ UNCHANGED <<shared, enabled, fetched, req, ousted, overtook>>

LapseShared(id) ==
    /\ Event
    /\ id \in shared
    /\ shared' = shared \ {id}
    /\ UNCHANGED <<pool, enabled, fetched, req, history>>

\* handleFlushExhausted: this replica's cooldowns, not those in Redis.
FlushExhausted(b) ==
    /\ Event
    /\ SetPool(b, Flush(pool[b]))
    /\ Stir(b, {})
    /\ UNCHANGED <<shared, enabled, fetched, req, ousted, overtook>>

\* Mutant of FetchKeys: the disabled keys are read as well.
FetchEveryKey(b) ==
    /\ Event
    /\ fetched[b] = None
    /\ fetched' = [fetched EXCEPT ![b] = Rows]
    /\ UNCHANGED <<pool, shared, enabled, req, history>>

\* reloadRuntimeState reads the enabled keys and replaces the pool later.
FetchKeys(b) ==
    /\ Event
    /\ fetched[b] = None
    /\ fetched' = [fetched EXCEPT ![b] = enabled]
    /\ UNCHANGED <<pool, shared, enabled, req, history>>

InstallKeys(b) ==
    /\ fetched[b] # None
    /\ SetPool(b, Replace(fetched[b]))
    /\ fetched' = [fetched EXCEPT ![b] = None]
    /\ Stir(b, {})
    /\ UNCHANGED <<shared, enabled, events, req, ousted, overtook>>

-----------------------------------------------------------------------------
Init ==
    /\ pool = [b \in Replicas |-> Replace(Rows)]
    /\ shared = {}
    /\ enabled = Rows
    /\ fetched = [b \in Replicas |-> None]
    /\ req = [r \in Requests |-> Idle]
    /\ events = 0
    /\ tried = [r \in Requests |-> {}]
    /\ ousted = [b \in Replicas |-> {}]
    /\ overtook = FALSE

\* What a request does once it has begun.
Proceed(r) ==
    \/ EnterTarget(r) \/ SkipTarget(r) \/ GiveUp(r)
    \/ LeaveTarget(r) \/ Pick(r)
    \/ PeekCooling(r) \/ PeekClear(r) \/ Adopt(r)
    \/ CallError(r) \/ CallLimited(r) \/ Share(r)
    \/ CallInvalid(r) \/ Disable(r) \/ DisableFails(r) \/ RemoveDisabled(r)
    \/ CallRefused(r) \/ CallOk(r) \/ Heal(r)

World ==
    \/ \E b \in Replicas :
        \/ \E id \in Ids : Lapse(b, id)
        \/ FlushExhausted(b) \/ FetchKeys(b) \/ InstallKeys(b)
    \/ \E id \in Ids : LapseShared(id)

Next ==
    \/ \E r \in Requests, b \in Replicas, order \in Orders : Start(r, b, order)
    \/ \E r \in Requests : Proceed(r)
    \/ World

Spec == Init /\ [][Next]_vars

\* A goroutine that can go on does; upstream calls end (the client's timeout)
\* and so do the calls to Redis and to the database.  Nothing is assumed of
\* the clock, of the administrators or of new requests.
FairSpec == Spec /\ \A r \in Requests : WF_vars(Proceed(r))

-----------------------------------------------------------------------------
(* Properties                                                              *)

\* Every variable has its type: a pool has each key once and its cursor on one
\* (KeyState), and a request has no more calls left than the budget
\* (doProviderTargetLoop).
TypeOK ==
    /\ pool \in [Replicas -> Pool]
    /\ shared \subseteq Ids
    /\ enabled \in Seq(Keys)
    /\ fetched \in [Replicas -> Seq(Keys) \union {None}]
    /\ req \in [Requests -> Request]
    /\ events \in 0..MaxEvents
    /\ tried \in [Requests -> (SUBSET Keys) \union {None}]
    /\ ousted \in [Replicas -> SUBSET Keys]
    /\ overtook \in BOOLEAN

\* A request never makes more than Retry.MaxAttempts upstream calls, over all
\* of its targets together: what it has made and what it may still make for
\* its target never exceed the budget, so a retry storm stays bounded.
BudgetRespected ==
    \A r \in Requests : req[r].attempts + req[r].left <= MaxAttempts

\* A request leaves a target only when it has called every key of it that is
\* not cooling, or has made all the calls it may make in total - provided
\* nobody else has used or changed the pool since it entered the target.  This
\* is what the rotation promises to failover: with a healthy key left, no
\* other key is called twice.
EveryKeyTried ==
    [][\A r \in Requests :
        (LeaveTarget(r) /\ tried[r] # None /\ req[r].attempts < MaxAttempts) =>
            \A k \in Keys :
                Holds(Home(r), k) /\ Usable(Home(r), Target(r), k) => k \in tried[r]]_vars

\* A key that this replica has disabled is in its pool only until the request
\* that disabled it removes it, and no later reload brings it back (unless the
\* reload had read the keys before the key was disabled).
DisabledStaysOut ==
    ~overtook =>
        \A b \in Replicas : \A k \in ousted[b] :
            Holds(pool[b], k) =>
                \E r \in Requests : req[r].at = b /\ req[r].pc = "remove" /\ req[r].key = k

\* Every request is answered: no loop between the pool and the cooldowns in
\* Redis holds it forever.
Answered == \A r \in Requests : req[r].pc # "idle" ~> req[r].pc = "idle"
=============================================================================
