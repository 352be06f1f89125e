----------------------------- MODULE MCFailover -----------------------------
(* Instances of Failover for TLC.                                          *)
EXTENDS Failover, RouteSelection, TLC

CONSTANTS b1, b2, r1, r2

Key(p, n) == [provider |-> p, name |-> n]
To(p, m)  == [provider |-> p, model |-> m]

\* Two providers, one of which uses a key name of the other; two models of p.
KeysPQ == {Key("p", "a"), Key("p", "b"), Key("q", "a")}
RowsPQ == <<Key("p", "a"), Key("p", "b"), Key("q", "a")>>
ToP == To("p", "m")
ToN == To("p", "n")
ToQ == To("q", "m")
ToX == To("x", "m")
TargetsPQ == {ToP, ToN, ToQ, ToX}
KnownPQ   == {ToP, ToN, ToQ}

\* Their routes: two models of one provider; three providers, one of which the
\* replica does not know.  Orders are those that selection gives.
Route(id, p, protocol, m, priority, weight) ==
    [id |-> id, provider |-> p, protocol |-> protocol, model |-> m, priority |-> priority,
     weight |-> weight]
Endpoint(p, protocol) == [provider |-> p, protocol |-> protocol]
BothEndpoints == {Endpoint("p", "chat"), Endpoint("p", "claude"), Endpoint("q", "chat"),
                  Endpoint("x", "claude")}
Catalog(routes, endpoints, policy) == [routes |-> routes, endpoints |-> endpoints, policy |-> policy]
RoutesP == {Route(1, "p", AnyProtocol, "m", 0, 1), Route(2, "p", "chat", "n", 0, 1)}
RoutesXQP == {Route(3, "x", AnyProtocol, "m", 1, 1), Route(4, "q", "chat", "m", 0, 5), Route(5, "p", AnyProtocol, "m", 0, 3)}
MCPreferences == {<<"chat", "claude">>, <<"claude", "chat">>}
MCCursors == {0, 1, 7}
CatalogsPQ ==
    {Catalog(RoutesP, BothEndpoints, "round_robin"), Catalog(RoutesXQP, BothEndpoints, "round_robin"),
     Catalog(RoutesXQP, BothEndpoints, "weighted")}
    \union {Catalog({Route(1, "p", a, "m", 0, v), Route(2, "q", AnyProtocol, "m", n, 5), Route(3, "p", AnyProtocol, "n", 0, 2)},
                    BothEndpoints \ lost, policy) :
              a \in {AnyProtocol, "chat"}, v \in {0, 2}, n \in {0, 1}, policy \in {"round_robin", "weighted"},
              lost \in {{}, {Endpoint("p", "chat")}, {Endpoint("q", "chat")}}}
OrdersOf(catalog) ==
    {[n \in DOMAIN o |-> To(o[n].provider, o[n].model)] : o \in Ordered(catalog)}
OrdersPQ == OrdersOf(Catalog(RoutesP, BothEndpoints, "round_robin"))
            \union OrdersOf(Catalog(RoutesXQP, BothEndpoints, "weighted"))
\* Three keys of one provider.
KeysABC == {Key("p", "a"), Key("p", "b"), Key("p", "c")}
RowsABC == <<Key("p", "a"), Key("p", "b"), Key("p", "c")>>
\* A single key.
KeysOne  == {Key("p", "a")}
RowsOne  == <<Key("p", "a")>>
TargetsP == {ToP}
OrdersP == {<<ToP>>}
CatalogsP == {Catalog({Route(1, "p", AnyProtocol, "m", 0, 1)}, BothEndpoints, "round_robin")}

\* Selection, over the catalogs of the instance.
ASSUME OrdersComplete == EveryRouteOnce
ASSUME WeightsRespected == TurnsByWeight

\* The answers that change the pool.
Sharp == {"ok", "limited", "invalid"}
NoInvalid == AllAnswers \ {"invalid"}

Symmetry == Permutations(Requests) \union Permutations(Replicas)
=============================================================================
