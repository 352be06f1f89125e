------------------------------ MODULE AnswerRelay ------------------------------
(***************************************************************************)
(* What passing on an answer promises, whatever the two protocols: the     *)
(* client is shown more and more of what the provider said, in the order   *)
(* in which it was said and nothing else; the exchange comes to an end;    *)
(* and the end is only called complete when all of it was shown.           *)
(* Exchange implements it.                                                 *)
(***************************************************************************)
EXTENDS Sequences, SequencesExt

CONSTANT Texts           \* pairs [text, reasoning]: the answers there may be

VARIABLES answer,        \* the one the provider gives
          shown,         \* what the client has been shown of it
          outcome        \* "", or how the client was told it ended

vars == <<answer, shown, outcome>>

Nothing == [text |-> <<>>, reasoning |-> <<>>]

Init == answer \in Texts /\ shown = Nothing /\ outcome = ""

Grows(before, after, whole) == IsPrefix(before, after) /\ IsPrefix(after, whole)

\* More is shown, and the client may be told in the same breath that it ended.
Show == /\ outcome = ""
        /\ Grows(shown.text, shown'.text, answer.text)
        /\ Grows(shown.reasoning, shown'.reasoning, answer.reasoning)
        /\ outcome' \in {"", "complete", "error"}
        /\ outcome' = "complete" => shown' = answer
        /\ UNCHANGED answer

Next == Show

Ended == outcome # ""

Spec == Init /\ [][Next]_vars /\ <>Ended
==============================================================================
