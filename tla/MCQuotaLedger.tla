--------------------------- MODULE MCQuotaLedger ---------------------------
(* Instances of QuotaLedger for TLC.                                       *)
EXTENDS QuotaLedger, TLC

CONSTANTS b1, b2, r1, r2, r3, a1, a2

\* A weekly limit that every grant backs with a lifetime quota.
BackedGrants == {[weekly |-> 1, lifetime |-> 2], [weekly |-> 0, lifetime |-> 1]}
\* No limits, and both: a copy may be without limits when the row has them.
MixedGrants  == {[weekly |-> 0, lifetime |-> 0], [weekly |-> 1, lifetime |-> 1]}
\* The same weekly limit with two lifetime limits.
ToppedGrants == {[weekly |-> 1, lifetime |-> 1], [weekly |-> 1, lifetime |-> 2]}

Symmetry == Permutations(Requests) \union Permutations(Admins) \union Permutations(Replicas)
=============================================================================
