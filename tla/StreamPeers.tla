------------------------------ MODULE StreamPeers ------------------------------
(***************************************************************************)
(* The two ends of a stream, which are not part of this program: what a    *)
(* provider sends, by the protocol it speaks, and what a client makes of   *)
(* what it is written.  They are as the readers and the encoders take them *)
(* to be.                                                                  *)
(*                                                                         *)
(* An answer is [parts, reason, usage].  A part is [kind, frags, id, name, *)
(* sig]: a text, reasoning, a refusal or a call, in fragments.             *)
(***************************************************************************)
EXTENDS StreamReaders, StreamEncoders, FiniteSets

PartText(p) == Concat(p.frags)
PartsOf(a, kind) == Concat([n \in DOMAIN a.parts |-> Opt(a.parts[n].kind = kind, a.parts[n])])
TextOf(a, kind) == LET ps == PartsOf(a, kind) IN Concat([n \in DOMAIN ps |-> PartText(ps[n])])

\* How each protocol says why an answer ended.
Word(protocol, reason) ==
    CASE protocol = Chat -> reason
      [] protocol = Responses ->
             (CASE reason = "length" -> "max_output_tokens"
                [] reason = "content_filter" -> "content_filter"
                [] OTHER -> "completed")
      [] protocol = Anthropic ->
             (CASE reason = "length" -> "max_tokens"
                [] reason = "content_filter" -> "refusal"
                [] reason = "tool_calls" -> "tool_use"
                [] OTHER -> "end_turn")
      [] protocol = Gemini ->
             (CASE reason = "length" -> "MAX_TOKENS"
                [] reason = "content_filter" -> "SAFETY"
                [] OTHER -> "STOP")

\* What a protocol can say of an answer: signatures of reasoning not in Chat,
\* signatures of calls, and calls without an identifier, only from Gemini.
\* A refusal is the reason itself where there is no other place for it, and
\* Gemini says nothing beside it.
Spoken(protocol, a) ==
    LET Said(p) ==
            [p EXCEPT !.sig = IF (p.kind = "reasoning" /\ protocol # Chat)
                                 \/ (p.kind = "call" /\ protocol = Gemini) THEN @ ELSE None,
                      !.id = IF protocol = Gemini THEN @ ELSE FirstNonEmpty(@, <<"id", p.name>>)]
        refused == PartsOf(a, "refusal") # <<>>
        parts == IF refused /\ protocol = Gemini THEN PartsOf(a, "refusal") ELSE a.parts
    IN [a EXCEPT !.parts = [n \in DOMAIN parts |-> Said(parts[n])],
                 !.reason = IF ~refused THEN @
                            ELSE IF protocol \in {Anthropic, Gemini} THEN "content_filter"
                            ELSE "stop"]

------------------------------------------------------------------------------
(* Providers.  A stream is an opening, the steps of the parts and an       *)
(* ending; sent is [opening, at, ending], how far it has come.             *)

ChatBlank == [kind |-> "chunk", role |-> FALSE, text |-> None, refusal |-> None,
              reasoning |-> None, calls |-> <<>>, finish |-> "", usage |-> ZeroUsage]
GeminiBlank == [kind |-> "chunk", candidate |-> TRUE, parts |-> <<>>, finish |-> "",
                blocked |-> None, usage |-> ZeroUsage]
NoItem == [kind |-> "", id |-> None, item |-> None, name |-> None, text |-> None,
           args |-> None, sig |-> None]
ResponsesBlank == [kind |-> "", at |-> 0, delta |-> None, args |-> None, item |-> NoItem,
                   output |-> <<>>, status |-> "", why |-> "", usage |-> ZeroUsage]
NoBlock == [kind |-> "", id |-> None, name |-> None, text |-> None]
AnthropicBlank == [kind |-> "", at |-> 0, block |-> NoBlock, delta |-> NoBlock, reason |-> "",
                   explanation |-> None, usage |-> ZeroUsage]

BlankOf(protocol) == CASE protocol = Chat -> ChatBlank [] protocol = Gemini -> GeminiBlank
                       [] protocol = Responses -> ResponsesBlank
                       [] protocol = Anthropic -> AnthropicBlank

\* How many chunks a part takes, at length and in a terse stream.
Steps(protocol, terse, p) ==
    CASE protocol = Chat -> IF terse THEN 1 ELSE Len(p.frags) + (IF p.kind = "call" THEN 1 ELSE 0)
      [] protocol = Gemini -> (IF terse \/ p.kind = "refusal" THEN 0
                               ELSE IF p.kind = "call" THEN 1
                               ELSE Len(p.frags))
      [] protocol = Responses -> (IF terse THEN 0
                                  ELSE IF p.kind = "call" THEN Len(p.frags) + 3
                                  ELSE Len(p.frags) + 2)
      [] protocol = Anthropic -> (IF p.kind = "refusal" THEN 0
                                  ELSE IF p.sig # None THEN Len(p.frags) + 3
                                  ELSE Len(p.frags) + 2)

ChatPiece(terse, p, i, k) ==
    LET text == IF terse THEN PartText(p) ELSE p.frags[k]
        call == [index |-> i, id |-> None, name |-> None, args |-> None, sig |-> None]
        named == [call EXCEPT !.id = p.id, !.name = p.name, !.sig = p.sig]
    IN IF p.kind = "text" THEN [ChatBlank EXCEPT !.text = text]
       ELSE IF p.kind = "reasoning" THEN [ChatBlank EXCEPT !.reasoning = text]
       ELSE IF p.kind = "refusal" THEN [ChatBlank EXCEPT !.refusal = text]
       ELSE IF terse THEN [ChatBlank EXCEPT !.calls = <<[named EXCEPT !.args = PartText(p)]>>]
       ELSE IF k = 1 THEN [ChatBlank EXCEPT !.calls = <<named>>]
       ELSE [ChatBlank EXCEPT !.calls = <<[call EXCEPT !.args = p.frags[k - 1]]>>]

GeminiPart(p, text) ==
    [kind |-> CASE p.kind = "reasoning" -> "thought" [] OTHER -> p.kind,
     text |-> text, id |-> p.id, name |-> p.name,
     args |-> IF p.kind = "call" THEN PartText(p) ELSE None, sig |-> None]

\* The signature comes with the last fragment; usage is counted as it grows.
GeminiPiece(p, k, usage) ==
    LET last == p.kind = "call" \/ k = Len(p.frags)
        part == GeminiPart(p, IF last /\ p.kind = "call" THEN None ELSE p.frags[k])
    IN [GeminiBlank EXCEPT !.parts = <<[part EXCEPT !.sig = IF last THEN p.sig ELSE None]>>,
                           !.usage = [usage EXCEPT !.out = 1]]

ResponsesItem(p, i) ==
    LET call == p.kind = "call"
    IN [kind |-> CASE call -> "function_call" [] p.kind = "text" -> "message" [] OTHER -> p.kind,
        id |-> IF call THEN p.id ELSE None, item |-> <<"item", i>>, name |-> p.name,
        text |-> IF call THEN None ELSE PartText(p),
        args |-> IF call THEN PartText(p) ELSE None, sig |-> p.sig]

ResponsesPiece(p, i, k) ==
    LET n == Len(p.frags)
        item == ResponsesItem(p, i)
        c == [ResponsesBlank EXCEPT !.at = i - 1]
        delta == CASE p.kind = "call" -> "arguments.delta" [] p.kind = "text" -> "text.delta"
                   [] p.kind = "reasoning" -> "reasoning.delta" [] OTHER -> "refusal.delta"
    IN IF k = 1 THEN [c EXCEPT !.kind = "item.added",
                               !.item = [item EXCEPT !.text = None, !.args = None, !.sig = None]]
       ELSE IF k <= n + 1 THEN [c EXCEPT !.kind = delta, !.delta = p.frags[k - 1],
                                  !.item = [NoItem EXCEPT !.item = item.item]]
       ELSE IF p.kind = "call" /\ k = n + 2 THEN
              [c EXCEPT !.kind = "arguments.done", !.args = PartText(p),
                        !.item = [NoItem EXCEPT !.item = item.item, !.name = p.name]]
       ELSE [c EXCEPT !.kind = "item.done", !.item = item]

AnthropicPiece(p, i, k) ==
    LET n == Len(p.frags)
        c == [AnthropicBlank EXCEPT !.at = i - 1]
        block == CASE p.kind = "call" -> "tool_use" [] p.kind = "text" -> "text"
                   [] OTHER -> "thinking"
        delta == CASE p.kind = "call" -> "input_json" [] OTHER -> block
    IN IF k = 1 THEN [c EXCEPT !.kind = "block_start",
                               !.block = [NoBlock EXCEPT !.kind = block, !.id = p.id, !.name = p.name]]
       ELSE IF k <= n + 1 THEN [c EXCEPT !.kind = "block_delta",
                                  !.delta = [NoBlock EXCEPT !.kind = delta, !.text = p.frags[k - 1]]]
       ELSE IF p.sig # None /\ k = n + 2 THEN
              [c EXCEPT !.kind = "block_delta",
                        !.delta = [NoBlock EXCEPT !.kind = "signature", !.text = p.sig]]
       ELSE [c EXCEPT !.kind = "block_stop"]

Piece(protocol, terse, a, i, k) ==
    LET p == a.parts[i]
        calls == Len(SelectSeq(SubSeq(a.parts, 1, i - 1), LAMBDA q : q.kind = "call"))
    IN CASE protocol = Chat -> ChatPiece(terse, p, calls, k)
         [] protocol = Gemini -> GeminiPiece(p, k, a.usage)
         [] protocol = Responses -> ResponsesPiece(p, i, k)
         [] protocol = Anthropic -> AnthropicPiece(p, i, k)

Opening(protocol, terse, a) ==
    CASE protocol = Chat -> Opt(~terse, [ChatBlank EXCEPT !.role = TRUE])
      [] protocol = Gemini -> <<>>
      [] protocol = Responses -> <<[ResponsesBlank EXCEPT !.kind = "created"]>>
      [] protocol = Anthropic ->
             <<[AnthropicBlank EXCEPT !.kind = "message_start",
                                      !.usage = [in |-> a.usage.in - a.usage.cached, out |-> 0,
                                                 cached |-> a.usage.cached]]>>

Ending(protocol, terse, a) ==
    LET word == Word(protocol, a.reason)
        refusal == TextOf(a, "refusal")
    IN CASE protocol = Chat ->
              (IF terse THEN <<[ChatBlank EXCEPT !.finish = word, !.usage = a.usage]>>
               ELSE <<[ChatBlank EXCEPT !.finish = word], [ChatBlank EXCEPT !.usage = a.usage]>>)
              \o <<[ChatBlank EXCEPT !.kind = "[DONE]"]>>
         [] protocol = Gemini ->
              (CASE refusal # None ->
                      <<[GeminiBlank EXCEPT !.candidate = FALSE, !.blocked = refusal,
                                            !.usage = a.usage]>>
                 [] OTHER ->
                      <<[GeminiBlank EXCEPT
                           !.parts = IF ~terse THEN <<>>
                                     ELSE [n \in DOMAIN a.parts |->
                                             [GeminiPart(a.parts[n],
                                                         IF a.parts[n].kind = "call" THEN None
                                                         ELSE PartText(a.parts[n]))
                                                EXCEPT !.sig = a.parts[n].sig]],
                           !.finish = word, !.usage = a.usage]>>)
         [] protocol = Responses ->
              <<[ResponsesBlank EXCEPT
                   !.kind = "final", !.status = IF word = "completed" THEN word ELSE "incomplete",
                   !.why = word, !.usage = a.usage,
                   !.output = [n \in DOMAIN a.parts |-> ResponsesItem(a.parts[n], n)]]>>
         [] protocol = Anthropic ->
              <<[AnthropicBlank EXCEPT !.kind = "message_delta", !.reason = word,
                                       !.explanation = refusal,
                                       !.usage = [ZeroUsage EXCEPT !.out = a.usage.out]],
                [AnthropicBlank EXCEPT !.kind = "message_stop"]>>

\* The parts whose next step may come: they begin in order, but calls may be
\* interleaved where the protocol tells them apart by index.
Ready(protocol, terse, a, at) ==
    LET Left(i) == at[i] < Steps(protocol, terse, a.parts[i])
    IN {i \in DOMAIN a.parts :
           /\ Left(i)
           /\ \A j \in 1..(i - 1) :
                 Left(j) => /\ protocol \in {Chat, Responses} /\ at[j] > 0
                            /\ a.parts[i].kind = "call" /\ a.parts[j].kind = "call"}

Untold(a) == [opening |-> 0, at |-> [i \in DOMAIN a.parts |-> 0], ending |-> 0]

\* What may be sent next, each with how far the stream has then come.
NextChunks(protocol, terse, a, sent) ==
    LET opening == Opening(protocol, terse, a)
        ready == Ready(protocol, terse, a, sent.at)
        ending == Ending(protocol, terse, a)
    IN IF sent.opening < Len(opening) THEN
            {<<opening[sent.opening + 1], [sent EXCEPT !.opening = @ + 1]>>}
       ELSE IF ready # {} THEN
            {<<Piece(protocol, terse, a, i, sent.at[i] + 1), [sent EXCEPT !.at[i] = @ + 1]>> :
               i \in ready}
       ELSE IF sent.ending < Len(ending) THEN
            {<<ending[sent.ending + 1], [sent EXCEPT !.ending = @ + 1]>>}
       ELSE {}

\* Chunks that can come instead: the provider gives up, or is cut in two.
BadChunks(protocol) ==
    {[BlankOf(protocol) EXCEPT !.kind = k] :
       k \in {"error", "garbage"} \union (IF protocol = Responses THEN {"failed"} ELSE {})}

------------------------------------------------------------------------------
(* Clients.  A client collects items: open ones and those that are closed, *)
(* by index.  A breach is something its protocol does not allow.           *)

NewClient == [begun |-> FALSE, open |-> <<>>, closed |-> <<>>, reason |-> "", refusal |-> None,
              usage |-> ZeroUsage, told |-> "", breaches |-> {}]

Breach(c, cond, what) == IF cond THEN [c EXCEPT !.breaches = @ \union {what}] ELSE c
Drop(f, x) == [y \in DOMAIN f \ {x} |-> f[y]]

Opened(c, w, taken) ==
    [Breach(c, taken, "opened twice or out of turn") EXCEPT !.open = At(@, w.at, w.item)]

Grown(c, w) ==
    IF w.at \notin DOMAIN c.open THEN Breach(c, TRUE, "a delta of nothing open")
    ELSE LET o == c.open[w.at]
         IN IF w.item.kind = "signature" THEN [c EXCEPT !.open[w.at].sig = @ \o w.item.sig]
            ELSE [Breach(c, w.item.kind # o.kind, "a delta of another kind")
                    EXCEPT !.open[w.at].text = @ \o w.item.text]

\* An item is closed with what its end says of it.
Closed(c, at, item) ==
    IF at \notin DOMAIN c.open THEN Breach(c, TRUE, "closed but not open")
    ELSE [Breach(c, item.text # c.open[at].text, "closed with another text")
            EXCEPT !.open = Drop(@, at), !.closed = At(@, at, item)]

ItemsOf(c) == LET order == SortedDomain(c.closed) IN [n \in DOMAIN order |-> c.closed[order[n]]]

HearResponses(c, w) ==
    CASE w.type = "created" -> [c EXCEPT !.begun = TRUE]
      [] w.type = "added" -> Opened(c, w, w.at # Cardinality(DOMAIN c.open \union DOMAIN c.closed))
      [] w.type = "delta" -> Grown(c, w)
      [] w.type = "done" -> Closed(c, w.at, w.item)
      [] w.type = "final" ->
             [Breach(c, DOMAIN c.open # {} \/ w.output # ItemsOf(c), "ended with items open")
                EXCEPT !.told = "complete", !.usage = w.usage,
                       !.reason = IF w.status = "completed" THEN w.status ELSE w.reason]

HearAnthropic(c, w) ==
    CASE w.type = "message_start" -> [c EXCEPT !.begun = TRUE]
      [] w.type = "block_start" ->
             Opened(c, w, DOMAIN c.open # {} \/ w.at # Cardinality(DOMAIN c.closed))
      [] w.type = "block_delta" -> Grown(c, w)
      [] w.type = "block_stop" ->
             Closed(c, w.at, IF w.at \in DOMAIN c.open THEN c.open[w.at] ELSE Silent)
      [] w.type = "message_delta" ->
             [Breach(c, DOMAIN c.open # {}, "ended with items open")
                EXCEPT !.reason = w.reason, !.refusal = w.refusal, !.usage = w.usage]
      [] w.type = "message_stop" ->
             [Breach(c, c.reason = "", "stopped without a reason") EXCEPT !.told = "complete"]

Collect(c, item) == [c EXCEPT !.closed = At(@, Cardinality(DOMAIN @), item)]

HearGemini(c, w) ==
    LET said == Opt(w.item # Silent, w.item) \o w.calls
        all == FoldLeft(Collect, c, said)
    IN [Breach(all, c.reason # "" /\ said # <<>>, "more after the finish")
          EXCEPT !.begun = TRUE,
                 !.usage = IF w.usage # ZeroUsage THEN w.usage ELSE @,
                 !.reason = IF w.reason # "" THEN w.reason ELSE @,
                 !.told = IF w.reason # "" THEN "complete" ELSE @]

\* A call is open until the end.  The index of the choice is not looked at: the
\* code writes that of the block or output item there, so that a client which
\* does look would take the items of one answer for several choices.
HearChat(c, w) ==
    CASE w.type = "role" -> [Breach(c, c.begun, "the role twice") EXCEPT !.begun = TRUE]
      [] w.type = "usage" -> [c EXCEPT !.usage = w.usage]
      [] w.type = "[DONE]" ->
             [Breach(c, c.reason = "" \/ ~c.begun, "done without a reason")
                EXCEPT !.told = "complete"]
      [] w.type = "call" ->
             (IF w.item.id # None \/ w.item.name # None
              THEN Opened(c, w, w.at \in DOMAIN c.open) ELSE Grown(c, w))
      [] w.type = "chunk" ->
             LET b == Breach(c, ~c.begun \/ c.reason # "", "outside the message")
             IN [(IF w.item = Silent THEN b ELSE Collect(b, w.item))
                   EXCEPT !.reason = IF w.reason # "" THEN w.reason ELSE @]

\* Nothing follows the end, but for Gemini, where a finish is not the last
\* chunk: usage may follow it.  Not a breach here, though no client of Gemini's
\* need expect it: when a Chat stream breaks after its finish, the finish that
\* was kept back and the error come together, in either order.
Hear(protocol, c, w) ==
    IF c.told # ""
    THEN Breach(c, protocol # Gemini
                     \/ (c.told # "error" /\ w.type # "error" /\ w.usage = ZeroUsage),
                "more after the end")
    ELSE IF w.type = "error" THEN [c EXCEPT !.told = "error"]
    ELSE CASE protocol = Responses -> HearResponses(c, w)
           [] protocol = Anthropic -> HearAnthropic(c, w)
           [] protocol = Gemini -> HearGemini(c, w)
           [] protocol = Chat -> HearChat(c, w)

\* The answer a client has in the end.  A call without a name is not one it
\* can make, and it drops it.
KnownOf(items, kind) == SelectSeq(items, LAMBDA i : i.kind = kind)
TextIn(items, kind) ==
    LET of == KnownOf(items, kind) IN Concat([n \in DOMAIN of |-> of[n].text])
SigIn(items) ==
    LET of == KnownOf(items, "reasoning") IN Concat([n \in DOMAIN of |-> of[n].sig])
CallsIn(items) == SelectSeq(items, LAMBDA i : i.kind = "call" /\ i.name # None)
Understood(protocol, c) ==
    LET open == SortedDomain(c.open)
    IN ItemsOf(c) \o (IF protocol = Chat THEN [n \in DOMAIN open |-> c.open[open[n]]] ELSE <<>>)
==============================================================================
