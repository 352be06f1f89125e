-------------------------- MODULE MCAdminSessions --------------------------
(* Instances of AdminSessions for TLC.                                     *)
EXTENDS AdminSessions, TLC

CONSTANTS u1, u2, t1, t2, h1, h2

EmptyOrTwo == {{}, {u1, u2}}
Two        == {{u1, u2}}

\* To disable an administrator, and to make him a plain user as well.
Off        == {[role |-> "admin", valid |-> FALSE]}
OffOrUser  == {[role |-> "admin", valid |-> FALSE], [role |-> "user", valid |-> TRUE]}

Symmetry == Permutations(Users) \union Permutations(Tokens) \union Permutations(Handlers)
=============================================================================
