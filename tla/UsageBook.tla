------------------------------ MODULE UsageBook ------------------------------
(***************************************************************************)
(* What the recording of usage promises, without saying how: a request     *)
(* that was made is counted once or lost for good, never both, and never   *)
(* stays undecided.  UsagePipeline implements it.                          *)
(***************************************************************************)
CONSTANT Ids        \* one identity per recorded request

VARIABLES made,     \* the requests that were recorded
          counted,  \* those whose usage is in the database
          lost      \* those whose usage will never be there

vars == <<made, counted, lost>>

Undecided == made \ (counted \union lost)

Init == made = {} /\ counted = {} /\ lost = {}

\* A request ends; its usage may be lost at once.
Make == \E i \in Ids \ made :
           /\ made' = made \union {i}
           /\ lost' \in {lost, lost \union {i}}
           /\ UNCHANGED counted

\* Some of the undecided requests are counted together.
Count == \E S \in (SUBSET Undecided) \ {{}} :
           /\ counted' = counted \union S
           /\ UNCHANGED <<made, lost>>

\* Some of the undecided requests are lost together.
Lose == \E S \in (SUBSET Undecided) \ {{}} :
           /\ lost' = lost \union S
           /\ UNCHANGED <<made, counted>>

Next == Make \/ Count \/ Lose

\* Every request that was made is decided in the end.
Settled == \A i \in Ids : [](i \in made => <>(i \in counted \union lost))

Spec == Init /\ [][Next]_vars /\ Settled
==============================================================================
