---------------------------- MODULE RouteSelection ----------------------------
(***************************************************************************)
(* The order in which a request tries the routes of a model (provider.go   *)
(* and preferRouteSessionTarget): the routes the database offers, one      *)
(* endpoint for each, rotated by a cursor that all requests for the model  *)
(* share on a replica, and the route of the sticky session first.  The     *)
(* cursor is read and moved under a mutex, so a turn is a function.        *)
(*                                                                         *)
(* Protocols, providers and models are names, routes numbers.              *)
(***************************************************************************)
EXTENDS Integers, Sequences, FiniteSets, FiniteSetsExt, SequencesExt

CONSTANTS
    Catalogs,     \* [routes, endpoints, policy]: the rows of a model, where a route is
                  \* [id, provider, protocol, model, priority, weight] and an endpoint
                  \* [provider, protocol], of those that are enabled
    Preferences,  \* the orders in which the handlers prefer the protocols
    Cursors,      \* bound: where earlier requests may have left the cursor
    WeightCap,    \* the largest weight that counts (100 in the code)
    NoRoute       \* no sticky session

ASSUME SelectionAssumption == WeightCap \in Nat \ {0} /\ Cursors \subseteq Nat

\* The identifier of a route is a primary key, and its weight an integer.
ASSUME CatalogAssumption ==
    \A c \in Catalogs :
        /\ IsFiniteSet(c.routes) /\ IsFiniteSet(c.endpoints)
        /\ \A r, s \in c.routes : r.id = s.id => r = s
        /\ \A r \in c.routes : r.weight \in Int

\* A handler names each protocol once.
ASSUME PreferenceAssumption ==
    \A p \in Preferences :
        /\ p \in Seq(ToSet(p))
        /\ \A m, n \in DOMAIN p : p[m] = p[n] => m = n

AnyProtocol == "auto"

\* The join of ResolveModelRoutes: a row for each endpoint a route may use.
MayUse(r, e) == e.provider = r.provider /\ r.protocol \in {AnyProtocol, e.protocol}

RowOf(r, e, policy) ==
    [route |-> r.id, provider |-> r.provider, asked |-> r.protocol, protocol |-> e.protocol,
     model |-> r.model, priority |-> r.priority, weight |-> r.weight, policy |-> policy]

Offered(catalog) ==
    UNION {{RowOf(r, e, catalog.policy) : e \in {e \in catalog.endpoints : MayUse(r, e)}} :
             r \in catalog.routes}

\* Its ORDER BY, which leaves the rows of one route in any order.
Precedes(a, b) ==
    \/ a.priority > b.priority
    \/ a.priority = b.priority /\ a.weight > b.weight
    \/ a.priority = b.priority /\ a.weight = b.weight /\ a.route < b.route

ResolveModelRoutes(catalog) ==
    {rows \in SetToSeqs(Offered(catalog)) :
        \A i, j \in DOMAIN rows : Precedes(rows[i], rows[j]) => i < j}

Rank(preference, row) == CHOOSE n \in DOMAIN preference : preference[n] = row.protocol

\* The loop of selectRouteTargets, over the rows whose protocol is preferred at
\* all: a route that may use any protocol has the place of its first row and the
\* endpoint of the best rank.
Choose(preference, chosen, row) ==
    LET known == row.asked = AnyProtocol /\ \E n \in DOMAIN chosen : chosen[n].route = row.route
        Better(c) == c.route = row.route /\ Rank(preference, row) < Rank(preference, c)
    IN IF row.protocol \notin ToSet(preference) THEN chosen
       ELSE IF known THEN [n \in DOMAIN chosen |-> IF Better(chosen[n]) THEN row ELSE chosen[n]]
       ELSE Append(chosen, row)

selectRouteTargets(preference, rows) ==
    FoldLeft(LAMBDA chosen, row : Choose(preference, chosen, row), <<>>, rows)

Weight(row) == IF row.weight <= 0 THEN 1 ELSE IF row.weight > WeightCap THEN WeightCap ELSE row.weight

\* expandWeightedTargets: the place of each row, as often as its weight.
Slots(rows) == FlattenSeq([n \in DOMAIN rows |-> [w \in 1..Weight(rows[n]) |-> n]])

RotateTo(rows, n) == SubSeq(rows, n, Len(rows)) \o SubSeq(rows, 1, n - 1)

\* rotateRouteTargets and rotateWeightedRouteTargets: the order, and where the
\* cursor is left.
Turn(next, rows) ==
    LET slots == IF Len(rows) > 1 /\ rows[1].policy = "weighted" THEN Slots(rows)
                 ELSE [n \in DOMAIN rows |-> n]
        start == next % Len(slots)
    IN IF Len(rows) <= 1 THEN [order |-> rows, next |-> next]
       ELSE [order |-> RotateTo(rows, slots[start + 1]), next |-> (start + 1) % Len(slots)]

MoveFirst(rows, n) == <<rows[n]>> \o SubSeq(rows, 1, n - 1) \o SubSeq(rows, n + 1, Len(rows))

\* preferRouteSessionTarget: the route of the session first.  (A session whose
\* route is not among the rows is deleted.)
Prefer(session, rows) ==
    LET places == {n \in DOMAIN rows : rows[n].route = session}
    IN IF Len(rows) <= 1 \/ places = {} THEN rows ELSE MoveFirst(rows, Min(places))

\* The orders a request may be given.
Ordered(catalog) ==
    {Prefer(session, Turn(next, selectRouteTargets(preference, rows)).order) :
        session \in {r.id : r \in catalog.routes} \union {NoRoute}, next \in Cursors,
        preference \in Preferences, rows \in ResolveModelRoutes(catalog)}

-----------------------------------------------------------------------------
(* What an order is to be, checked by TLC over the catalogs of an instance *)

\* What a route of a catalog may use, and what of it a preference asks for.
EndpointsOf(catalog, r) ==
    {e.protocol : e \in {e \in catalog.endpoints : MayUse(r, e)}}
Reachable(catalog, preference) ==
    {r \in catalog.routes : EndpointsOf(catalog, r) \intersect ToSet(preference) # {}}
BestOf(protocols, preference) ==
    preference[Min({n \in DOMAIN preference : preference[n] \in protocols})]

\* Every order a request may be given has each route with an endpoint it can
\* use exactly once, at the endpoint its protocol prefers, in whatever order
\* the database returned the rows and wherever the cursor and the session are;
\* so failover leaves out no provider and calls none for two of its endpoints.
EveryRouteOnce ==
    \A catalog \in Catalogs, preference \in Preferences, next \in Cursors :
    \A rows \in ResolveModelRoutes(catalog), session \in {r.id : r \in catalog.routes} \union {NoRoute} :
        LET order == Prefer(session, Turn(next, selectRouteTargets(preference, rows)).order)
            reachable == Reachable(catalog, preference)
        IN /\ Len(order) = Cardinality(reachable)
           /\ \A r \in reachable : \E n \in DOMAIN order :
                 /\ order[n].route = r.id
                 /\ order[n].protocol = BestOf(EndpointsOf(catalog, r), preference)

\* Which route comes first in the n-th request of those that begin at the
\* cursor "next" and prefer the protocols in turn.
FirstOf(next, lists) ==
    FoldLeft(LAMBDA acc, rows : LET turn == Turn(acc.next, rows)
                                IN [next |-> turn.next, firsts |-> Append(acc.firsts, turn.order[1].route)],
             [next |-> next, firsts |-> <<>>], lists).firsts

\* In a full turn every route comes first as often as its weight says, or once
\* without weights: from wherever the cursor was left, when the clients that
\* share it speak different protocols, and in whatever order the database
\* returns the rows (TestRotateRouteTargetsWeighted).
TurnsByWeight ==
    \A catalog \in Catalogs, next \in Cursors, p, q \in Preferences :
    \A rows, other \in ResolveModelRoutes(catalog) :
        LET mine == selectRouteTargets(p, rows)
            theirs == selectRouteTargets(q, other)
            Due(row) == IF row.policy = "weighted" THEN Weight(row) ELSE 1
            turns == MapThenSumSet(Due, ToSet(mine))
            firsts == FirstOf(next, [n \in 1..turns |-> IF n % 2 = 1 THEN mine ELSE theirs])
        IN Len(mine) > 1 =>
             \A n \in DOMAIN mine :
                Cardinality({k \in DOMAIN firsts : firsts[k] = mine[n].route}) = Due(mine[n])
=============================================================================
