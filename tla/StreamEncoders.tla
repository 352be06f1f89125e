---------------------------- MODULE StreamEncoders ----------------------------
(***************************************************************************)
(* The other half of stream_convert.go, with streamCanonicalAsOpenAIChat:  *)
(* the encoders that write canonical events to the client in the protocol  *)
(* it asked in.  An encoder is a record; what it writes is in out.         *)
(***************************************************************************)
EXTENDS Canonical, FiniteSets

Put(e, w) == [e EXCEPT !.out = Append(@, w)]
PutIf(cond, e, w) == IF cond THEN Put(e, w) ELSE e

\* What an encoder writes.  at is an output index, a block or a choice, item
\* what opens, closes or makes up an answer, calls the pieces of tool calls.
Silent == [kind |-> "none", id |-> None, name |-> None, text |-> None, sig |-> None]
Written == [type |-> "", at |-> 0, item |-> Silent, calls |-> <<>>, output |-> <<>>,
            status |-> "", reason |-> "", refusal |-> None, usage |-> ZeroUsage]

Item(kind, text, s) == [Silent EXCEPT !.kind = kind, !.text = text, !.sig = s]
CallItem(id, name, args) ==
    [Silent EXCEPT !.kind = "call", !.id = id, !.name = name, !.text = args]
Write(type, at, item) == [Written EXCEPT !.type = type, !.at = at, !.item = item]
ErrorWritten == [Written EXCEPT !.type = "error"]

NewEncoder == [next |-> 0, text |-> None, textAt |-> 0, textOpen |-> FALSE, textKind |-> "text",
               reasoning |-> None, sig |-> None, reasoningAt |-> 0, reasoningOpen |-> FALSE,
               refusal |-> None, calls |-> <<>>, output |-> <<>>, usage |-> ZeroUsage,
               finished |-> FALSE, roleWritten |-> FALSE, includeUsage |-> TRUE, out |-> <<>>]

At(f, x, v) == [y \in DOMAIN f \union {x} |-> IF y = x THEN v ELSE f[y]]
SortedDomain(f) ==
    [n \in 1..Cardinality(DOMAIN f) |->
        CHOOSE x \in DOMAIN f : Cardinality({y \in DOMAIN f : y < x}) = n - 1]

------------------------------------------------------------------------------
(* responsesStreamEncoder: output items, opened and closed by index.  The  *)
(* events of the one part of an item go with those of the item.            *)

\* An item is over; it is part of the answer.
CloseItem(e, at, item) == Put([e EXCEPT !.output = At(@, at, item)], Write("done", at, item))

\* closeReasoning.  What was written stays in the builders.
RCloseReasoning(e) ==
    IF ~e.reasoningOpen THEN e
    ELSE [CloseItem(e, e.reasoningAt, Item("reasoning", e.reasoning, e.sig))
            EXCEPT !.reasoningOpen = FALSE]

\* ensureReasoning.
REnsureReasoning(e) ==
    IF e.reasoningOpen THEN e
    ELSE Put([e EXCEPT !.reasoningAt = e.next, !.reasoningOpen = TRUE, !.next = @ + 1],
             Write("added", e.next, Item("reasoning", None, None)))

\* writeReasoningDelta.
RReasoning(e, ev) ==
    IF ev.delta = None /\ ev.sig = None THEN e
    ELSE LET o == REnsureReasoning(e)
         IN PutIf(ev.delta # None,
                  [o EXCEPT !.reasoning = @ \o ev.delta, !.sig = @ \o ev.sig],
                  Write("delta", o.reasoningAt, Item("reasoning", ev.delta, None)))

\* ensureText: the first delta decides what the item is; it stays open.
REnsureText(e, kind) ==
    IF e.textOpen THEN e
    ELSE LET c == RCloseReasoning(e)
         IN Put([c EXCEPT !.textAt = c.next, !.textOpen = TRUE, !.textKind = kind,
                          !.next = @ + 1],
                Write("added", c.next, Item(kind, None, None)))

\* writeTextDelta.
RText(e, kind, d) ==
    IF d = None THEN e
    ELSE LET o == REnsureText(e, kind)
         IN Put([o EXCEPT !.text = @ \o d], Write("delta", o.textAt, Item(o.textKind, d, None)))

\* writeToolStart.
RToolStart(e, ev) ==
    IF ev.index \in DOMAIN e.calls
    THEN [e EXCEPT !.calls[ev.index].call.id = FirstNonEmpty(@, ev.id),
                   !.calls[ev.index].call.name = FirstNonEmpty(@, ev.name),
                   !.calls[ev.index].call.sig = FirstNonEmpty(@, ev.sig)]
    ELSE LET c == RCloseReasoning(e)
         IN Put([c EXCEPT !.next = @ + 1,
                          !.calls = At(@, ev.index,
                                       [call |-> ToolCall(ev.id, ev.name, None, ev.sig),
                                        at |-> c.next, done |-> FALSE])],
                Write("added", c.next, CallItem(ev.id, ev.name, None)))

\* A delta or the end of a call that was not announced announces it.
RAnnounced(e, ev) == IF ev.index \in DOMAIN e.calls THEN e ELSE RToolStart(e, ev)

\* writeToolDelta.
RToolDelta(e, ev) ==
    LET o == RAnnounced(e, ev)
        s == o.calls[ev.index]
    IN IF s.done \/ ev.delta = None THEN o
       ELSE Put([o EXCEPT !.calls[ev.index].call.args = @ \o ev.delta],
                Write("delta", s.at, CallItem(None, None, ev.delta)))

\* writeToolDone: the call is told whole, and only once.
RToolDone(e, ev) ==
    LET o == RAnnounced(e, ev)
        s == o.calls[ev.index]
        call == ToolCall(FirstNonEmpty(s.call.id, ev.id), FirstNonEmpty(s.call.name, ev.name),
                         FirstNonEmpty(ev.args, s.call.args), FirstNonEmpty(ev.sig, s.call.sig))
    IN IF s.done THEN o
       ELSE CloseItem([o EXCEPT !.calls[ev.index].call = call, !.calls[ev.index].done = TRUE],
                      s.at, CallItem(call.id, call.name, call.args))

\* The tools that finish finds unfinished, by index.
RToolsDone(e) ==
    FoldLeft(LAMBDA x, i : LET c == x.calls[i].call
                           IN RToolDone(x, CallDone(i, c.id, c.name, c.args, c.sig)),
             e, SortedDomain(e.calls))

\* finish, with the output sorted by index (sortedOutput).
RFinish(e, reason, usage) ==
    LET counted == [e EXCEPT !.usage = IF usage # ZeroUsage THEN usage ELSE @]
        r == RCloseReasoning(counted)
        m == IF r.textOpen THEN CloseItem(r, r.textAt, Item(r.textKind, r.text, None)) ELSE r
        t == RToolsDone(m)
        refusal == IF e.textKind = "refusal" THEN e.text ELSE None
        order == SortedDomain(t.output)
    IN IF e.finished THEN e
       ELSE Put([t EXCEPT !.finished = TRUE],
                [Written EXCEPT !.type = "final",
                                !.status = ResponsesStatus(refusal, reason),
                                !.reason = ToIncompleteReason(reason),
                                !.output = [n \in DOMAIN order |-> t.output[order[n]]],
                                !.usage = t.usage])

\* writeEvent.
EncodeResponses(e, ev) ==
    IF e.finished THEN e
    ELSE CASE ev.type = "text_delta" -> RText(e, "text", ev.delta)
           [] ev.type = "refusal_delta" -> RText(e, "refusal", ev.delta)
           [] ev.type = "reasoning_delta" -> RReasoning(e, ev)
           [] ev.type = "tool_call_start" -> RToolStart(e, ev)
           [] ev.type = "tool_arguments_delta" -> RToolDelta(e, ev)
           [] ev.type = "tool_call_done" -> RToolDone(e, ev)
           [] ev.type = "usage" -> [e EXCEPT !.usage = ev.usage]
           [] ev.type = "response_done" -> RFinish(e, ev.reason, e.usage)
           [] ev.type = "error" -> [Put(e, ErrorWritten) EXCEPT !.finished = TRUE]
           [] OTHER -> e

------------------------------------------------------------------------------
(* anthropicStreamEncoder: blocks, one open at a time                      *)

\* A mutant: the block is closed without its signature.
ACloseReasoningUnsigned(e) ==
    IF ~e.reasoningOpen THEN e
    ELSE Put([e EXCEPT !.reasoningOpen = FALSE], Write("block_stop", e.reasoningAt, Silent))

\* closeReasoning: the signature goes before the end of the block.
ACloseReasoning(e) ==
    IF ~e.reasoningOpen THEN e
    ELSE Put(PutIf(e.sig # None, [e EXCEPT !.reasoningOpen = FALSE],
                   Write("block_delta", e.reasoningAt, Item("signature", None, e.sig))),
             Write("block_stop", e.reasoningAt, Silent))

\* closeText.
ACloseText(e) ==
    IF ~e.textOpen THEN e
    ELSE Put([e EXCEPT !.textOpen = FALSE], Write("block_stop", e.textAt, Silent))

ACloseBlocks(e) == ACloseText(ACloseReasoning(e))

\* ensureReasoning.
AEnsureReasoning(e) ==
    IF e.reasoningOpen THEN e
    ELSE LET c == ACloseText(e)
         IN Put([c EXCEPT !.sig = None, !.reasoningOpen = TRUE, !.reasoningAt = c.next,
                          !.next = @ + 1],
                Write("block_start", c.next, Item("reasoning", None, None)))

\* writeReasoningDelta.
AReasoning(e, ev) ==
    IF ev.delta = None /\ ev.sig = None THEN e
    ELSE LET o == AEnsureReasoning(e)
         IN PutIf(ev.delta # None, [o EXCEPT !.sig = @ \o ev.sig],
                  Write("block_delta", o.reasoningAt, Item("reasoning", ev.delta, None)))

\* A mutant: text is begun inside the block of the reasoning.
AEnsureTextInside(e) ==
    IF e.textOpen THEN e
    ELSE Put([e EXCEPT !.textOpen = TRUE, !.textAt = e.next, !.next = @ + 1],
             Write("block_start", e.next, Item("text", None, None)))

\* ensureText.
AEnsureText(e) ==
    IF e.textOpen THEN e
    ELSE LET c == ACloseReasoning(e)
         IN Put([c EXCEPT !.textOpen = TRUE, !.textAt = c.next, !.next = @ + 1],
                Write("block_start", c.next, Item("text", None, None)))

\* writeTextDelta.
AText(e, d) ==
    IF d = None THEN e
    ELSE LET o == AEnsureText(e) IN Put(o, Write("block_delta", o.textAt, Item("text", d, None)))

ACall(e, i) == IF i \in DOMAIN e.calls THEN e.calls[i] ELSE ToolCall(None, None, None, None)

\* writeToolDone: a call is one block, written whole when it is over.
AToolDone(e, ev) ==
    LET c == ACloseBlocks(e)
        old == ACall(e, ev.index)
        call == [old EXCEPT !.id = FirstNonEmpty(@, ev.id), !.name = FirstNonEmpty(@, ev.name),
                            !.args = FirstNonEmpty(ev.args, @)]
        at == c.next
    IN Put(Put(Put([c EXCEPT !.calls = At(@, ev.index, call), !.next = @ + 1],
                   Write("block_start", at, CallItem(call.id, call.name, None))),
               Write("block_delta", at, CallItem(None, None, call.args))),
           Write("block_stop", at, Silent))

NoExplanation == <<"The request was declined">>

\* finish: the refusal is told if it is the reason.
AFinish(e, reason, usage) ==
    LET u == IF usage # ZeroUsage THEN usage ELSE e.usage
        uncached == IF u.in < u.cached THEN 0 ELSE u.in - u.cached
        stop == ToStopReason(reason)
        delta == [Written EXCEPT
                    !.type = "message_delta", !.reason = stop,
                    !.refusal = IF stop = "refusal" THEN FirstNonEmpty(e.refusal, NoExplanation)
                                ELSE None,
                    !.usage = [u EXCEPT !.in = uncached]]
    IN IF e.finished THEN e
       ELSE Put(Put([ACloseBlocks(e) EXCEPT !.usage = u, !.finished = TRUE], delta),
                Write("message_stop", 0, Silent))

\* writeEvent.
EncodeAnthropic(e, ev) ==
    IF e.finished THEN e
    ELSE CASE ev.type = "text_delta" -> AText(e, ev.delta)
           [] ev.type = "refusal_delta" -> [e EXCEPT !.refusal = @ \o ev.delta]
           [] ev.type = "reasoning_delta" -> AReasoning(e, ev)
           [] ev.type = "tool_call_start" ->
                  [e EXCEPT !.calls = At(@, ev.index, ToolCall(ev.id, ev.name, None, ev.sig))]
           [] ev.type = "tool_arguments_delta" ->
                  [e EXCEPT !.calls = At(@, ev.index,
                                         [ACall(e, ev.index) EXCEPT !.args = @ \o ev.delta])]
           [] ev.type = "tool_call_done" -> AToolDone(e, ev)
           [] ev.type = "usage" -> [e EXCEPT !.usage = ev.usage]
           [] ev.type = "response_done" -> AFinish(e, ev.reason, e.usage)
           [] ev.type = "error" -> [Put(e, ErrorWritten) EXCEPT !.finished = TRUE]
           [] OTHER -> e

------------------------------------------------------------------------------
(* geminiStreamEncoder: chunks; the calls wait for the finish              *)

\* canonicalResponsePartsToGemini, of a call.
GeminiCall(c) == [CallItem(c.id, c.name, ObjectOf(c.args)) EXCEPT !.sig = c.sig]

\* CanonicalStreamEventToGeminiGenerateResponse; a text is a part of its own.
GeminiChunk(ev) ==
    CASE ev.type = "reasoning_delta" -> Opt(TRUE, Write("chunk", 0, Item("reasoning", ev.delta, ev.sig)))
      [] ev.type \in {"text_delta", "refusal_delta"} ->
             Opt(TRUE, Write("chunk", 0, Item("text", ev.delta, ev.sig)))
      [] ev.type = "usage" -> Opt(TRUE, [Written EXCEPT !.type = "chunk", !.usage = ev.usage])
      [] ev.type = "response_done" ->
             Opt(TRUE, [Written EXCEPT !.type = "chunk", !.reason = ToGeminiReason(ev.reason)])
      [] ev.type = "error" -> <<ErrorWritten>>
      [] OTHER -> <<>>

\* The calls that waited, by index; of two with the same the earlier one first.
GeminiCalls(e) ==
    LET before(j, k) == \/ e.calls[j].index < e.calls[k].index
                        \/ e.calls[j].index = e.calls[k].index /\ j < k
        nth(n) == CHOOSE k \in DOMAIN e.calls :
                     Cardinality({j \in DOMAIN e.calls : before(j, k)}) = n - 1
    IN [n \in DOMAIN e.calls |-> GeminiCall(e.calls[nth(n)])]

\* writeEvent.
EncodeGemini(e, ev) ==
    CASE ev.type = "tool_call_done" -> [e EXCEPT !.calls = Append(@, ev)]
      [] ev.type = "response_done" /\ e.calls # <<>> ->
             Put([e EXCEPT !.calls = <<>>],
                 [Written EXCEPT !.type = "chunk", !.calls = GeminiCalls(e),
                                 !.reason = ToGeminiReason(ev.reason)])
      [] OTHER -> [e EXCEPT !.out = @ \o GeminiChunk(ev)]

------------------------------------------------------------------------------
(* streamCanonicalAsOpenAIChat: chunks; finished is failed                 *)

\* CanonicalToOpenAIStreamChunk.
ChatChunk(e, ev) ==
    CASE ev.type = "text_delta" -> <<Write("chunk", ev.index, Item("text", ev.delta, None))>>
      [] ev.type = "refusal_delta" -> <<Write("chunk", ev.index, Item("refusal", ev.delta, None))>>
      [] ev.type = "reasoning_delta" ->
             <<Write("chunk", ev.index, Item("reasoning", ev.delta, None))>>
      [] ev.type = "tool_call_start" ->
             <<Write("call", ev.index, [CallItem(ev.id, ev.name, None) EXCEPT !.sig = ev.sig])>>
      [] ev.type = "tool_arguments_delta" ->
             <<Write("call", ev.index, CallItem(None, None, ev.delta))>>
      [] ev.type = "response_done" ->
             <<[Write("chunk", ev.index, Silent) EXCEPT !.reason = ev.reason]>>
      [] ev.type = "usage" ->
             Opt(e.includeUsage /\ ev.usage # ZeroUsage,
                 [Written EXCEPT !.type = "usage", !.usage = ev.usage])
      [] OTHER -> <<>>

\* The role comes before anything but the usage, and only once.
WithRole(e) == PutIf(~e.roleWritten, [e EXCEPT !.roleWritten = TRUE], Write("role", 0, Silent))

\* The function that is given the events.
EncodeChat(e, ev) ==
    LET r == IF ev.type \in {"response_start", "usage"} THEN e ELSE WithRole(e)
    IN IF ev.type = "error" THEN [Put(e, ErrorWritten) EXCEPT !.finished = TRUE]
       ELSE IF e.finished THEN e
       ELSE [r EXCEPT !.out = @ \o ChatChunk(e, ev)]

\* What follows the reading: the error, unless one was told, or [DONE].
ChatEnd(e, ok) ==
    IF ~ok \/ e.finished THEN [PutIf(~e.finished, e, ErrorWritten) EXCEPT !.finished = TRUE]
    ELSE Put(WithRole(e), Write("[DONE]", 0, Silent))

------------------------------------------------------------------------------
(* The encoders as one, as streamCanonicalResult chooses among them        *)

NewEncoderOf(client, includeUsage) ==
    LET e == [NewEncoder EXCEPT !.includeUsage = includeUsage]
    IN CASE client = Responses -> Put(e, Write("created", 0, Silent))
         [] client = Anthropic -> Put(e, Write("message_start", 0, Silent))
         [] OTHER -> e

Encode(client, e, ev) ==
    CASE client = Chat -> EncodeChat(e, ev)
      [] client = Responses -> EncodeResponses(e, ev)
      [] client = Anthropic -> EncodeAnthropic(e, ev)
      [] client = Gemini ->
             \* failed, of the function given to the reader, is finished here.
             [EncodeGemini(e, ev) EXCEPT !.finished = @ \/ ev.type = "error"]

\* What streamCanonicalResult does when the reader has returned.
EncodeEnd(client, e, usage, ok) ==
    CASE client = Chat -> ChatEnd(e, ok)
      [] client = Responses -> IF ok THEN RFinish(e, "stop", usage) ELSE EncodeResponses(e, ErrorEvent)
      [] client = Anthropic -> IF ok THEN AFinish(e, "stop", usage) ELSE EncodeAnthropic(e, ErrorEvent)
      [] client = Gemini -> IF ok \/ e.finished THEN e ELSE EncodeGemini(e, ErrorEvent)
==============================================================================
