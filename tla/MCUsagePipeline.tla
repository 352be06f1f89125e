--------------------------- MODULE MCUsagePipeline ---------------------------
(* Two replicas, three users, and an hour of two units in a day of two hours. *)
EXTENDS UsagePipeline

CONSTANTS r1, r2, alice, bob, carol, k1, k2, All, None

MCReplicas == {r1, r2}
Req(u, k, f, r, t) ==
    [user |-> u, key |-> k, failed |-> f, by |-> r, at |-> t,
     limited |-> FALSE, period |-> None, lifetime |-> FALSE]

\* A request whose copy of the user is limited: it is charged to a week, and the
\* week may overflow into the lifetime quota; or it costs nothing.
Weekly(q, w)   == [q EXCEPT !.limited = TRUE, !.period = w]
Lifetime(q, w) == [q EXCEPT !.limited = TRUE, !.period = w, !.lifetime = TRUE]
Free(q)        == [q EXCEPT !.limited = TRUE]

\* Two users that alternate, so that the writers of two replicas may lock the
\* same rows in opposite orders; charges of one user at both replicas, to one
\* week and to another, with and without a lifetime quota; a replica that does
\* not know yet that a user is limited, while the other charges him; a longer
\* queue at one replica.
MCScripts ==
    {<<Req(alice, k1, FALSE, r1, 0), Req(bob, k1, TRUE, r1, 0),
       Req(bob, k1, FALSE, r2, 0), Req(alice, k1, FALSE, r2, 1)>>,
     <<Weekly(Req(carol, k1, TRUE, r1, 1), 0), Req(alice, k2, TRUE, r1, 3),
       Lifetime(Req(carol, k1, FALSE, r2, 3), 0), Lifetime(Req(carol, k2, FALSE, r1, 5), 4)>>,
     <<Lifetime(Req(carol, k1, FALSE, r1, 0), 0), Req(alice, k1, FALSE, r1, 0),
       Req(alice, k1, TRUE, r2, 0), Weekly(Req(carol, k1, FALSE, r2, 0), 0)>>,
     <<Req(carol, k1, FALSE, r1, 0), Req(carol, k1, FALSE, r1, 3),
       Lifetime(Req(carol, k1, TRUE, r2, 3), 0), Free(Req(carol, k1, FALSE, r2, 3))>>,
     <<Req(alice, k1, TRUE, r1, 0), Req(alice, k1, FALSE, r1, 3),
       Req(alice, k2, FALSE, r1, 3), Req(alice, k1, FALSE, r1, 6)>>}

Budget(f, c, r) == [faults |-> f, crashes |-> c, reads |-> r]
MCBudgets == {Budget(1, 0, 0), Budget(0, 1, 0), Budget(0, 0, 1)}

Ask(u, k, f, t) == [user |-> u, key |-> k, from |-> f, to |-> t]
MCQueries ==
    {Ask(alice, All, 0, 2), Ask(alice, All, 1, 5), Ask(alice, k1, None, None),
     Ask(bob, All, 0, 7), Ask(carol, All, 1, 7), Ask(carol, k1, 3, None)}
MCPages == {Ask(alice, All, 0, 7), Ask(alice, k1, None, None)}
==============================================================================
