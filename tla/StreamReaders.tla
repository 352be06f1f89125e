----------------------------- MODULE StreamReaders -----------------------------
(***************************************************************************)
(* The four loops of stream_convert.go that read the stream of a provider  *)
(* and emit canonical events, and the tracker of tool calls they share.    *)
(* A reader is a record; reading a chunk gives the reader after it, with   *)
(* the events of that chunk in out.                                        *)
(***************************************************************************)
EXTENDS Canonical

NewState(id, name, s) == [id |-> id, name |-> name, sig |-> s, args |-> None, done |-> FALSE]

\* The locals of a reader.  held is the finish a Chat stream keeps back, over
\* how the loop was left ("break", "return" or not yet), result what is
\* returned; request makes the identifiers of calls that came without one.
NewReader(request) ==
    [request |-> request, states |-> <<>>, order |-> <<>>, held |-> <<>>, started |-> FALSE,
     offset |-> 0, seen |-> {}, reason |-> "", usage |-> ZeroUsage, terminated |-> FALSE,
     failed |-> FALSE, over |-> "", result |-> "", out |-> <<>>]

Emit(r, e) == [r EXCEPT !.out = Append(@, e)]
EmitIf(cond, r, e) == IF cond THEN Emit(r, e) ELSE r

\* An error event was passed on; the loop is left.
Fail(r, how) == [Emit(r, ErrorEvent) EXCEPT !.failed = TRUE, !.over = how]
\* A chunk that cannot be decoded, or is refused, returns at once.
Refuse(r) == [r EXCEPT !.failed = TRUE, !.over = "return"]

------------------------------------------------------------------------------
(* canonicalStreamToolTracker *)

Tracked(r, i) == i \in ToSet(r.order)

\* ensure: the first identifier and the first name stay, the last signature.
Ensure(r, e) ==
    LET old == IF Tracked(r, e.index) THEN r.states[e.index] ELSE NewState(None, None, None)
        new == [old EXCEPT !.id = FirstNonEmpty(@, e.id), !.name = FirstNonEmpty(@, e.name),
                           !.sig = FirstNonEmpty(e.sig, @)]
    IN [r EXCEPT !.states = [i \in DOMAIN @ \union {e.index} |->
                                IF i = e.index THEN new ELSE @[i]],
                 !.order = IF Tracked(r, e.index) THEN @ ELSE Append(@, e.index)]

\* start: only the first one of an index is passed on.
StartTool(r, e) ==
    LET s == Ensure(r, e)
        t == s.states[e.index]
    IN EmitIf(~Tracked(r, e.index), s, CallStart(e.index, t.id, t.name, t.sig))

DeltaTool(r, e) ==
    LET s == Ensure(r, e)
        t == s.states[e.index]
    IN Emit([s EXCEPT !.states[e.index].args = @ \o e.delta],
            ArgumentsDelta(e.index, t.id, t.name, e.delta))

\* A mutant: a second done of an index is passed on.
DoneToolAgain(r, e) ==
    LET s == Ensure(r, e)
        t == s.states[e.index]
        args == FirstNonEmpty(e.args, t.args)
    IN Emit([s EXCEPT !.states[e.index].args = args, !.states[e.index].done = TRUE],
            CallDone(e.index, t.id, t.name, args, t.sig))

\* done: once per index, with the arguments it gives or those put together.
DoneTool(r, e) ==
    LET s == Ensure(r, e)
        t == s.states[e.index]
        args == FirstNonEmpty(e.args, t.args)
    IN IF t.done THEN s
       ELSE Emit([s EXCEPT !.states[e.index].args = args, !.states[e.index].done = TRUE],
                 CallDone(e.index, t.id, t.name, args, t.sig))

DoneAll(r) ==
    FoldLeft(LAMBDA s, i : DoneTool(s, CallDone(i, None, None, None, None)), r, r.order)

\* indexForCallID, with the index a call that is not there is given.
IndexFor(r, id) ==
    LET at == {n \in DOMAIN r.order : id # None /\ r.states[r.order[n]].id = id}
    IN IF at = {} THEN Len(r.order) ELSE r.order[CHOOSE n \in at : \A m \in at : n <= m]

------------------------------------------------------------------------------
(* readOpenAIChatStreamAsCanonical.  A chunk is [kind, role, text, refusal, *)
(* reasoning, calls, finish, usage]; a call of it [index, id, name, args,  *)
(* sig].                                                                   *)

CallChunkEvents(c) ==
    Opt(c.id # None \/ c.name # None, CallStart(c.index, c.id, c.name, c.sig))
    \o Opt(c.args # None, ArgumentsDelta(c.index, c.id, c.name, c.args))

\* OpenAIChatStreamChunkToCanonical.
ChatChunkEvents(c) ==
    Opt(c.role, MessageStart)
    \o Opt(c.text # None, TextDelta(0, c.text))
    \o Opt(c.refusal # None, RefusalDelta(0, c.refusal))
    \o Opt(c.reasoning # None, ReasoningDelta(0, c.reasoning, None))
    \o Concat([n \in DOMAIN c.calls |-> CallChunkEvents(c.calls[n])])
    \o Opt(c.finish # "", ResponseDone(c.finish))
    \o Opt(c.usage # ZeroUsage, UsageEvent(c.usage))

\* The finish is kept back until the stream ends.
ChatEvent(r, e) ==
    CASE e.type = "tool_call_start" -> StartTool(r, e)
      [] e.type = "tool_arguments_delta" -> DeltaTool(r, e)
      [] e.type = "usage" -> Emit([r EXCEPT !.usage = e.usage], e)
      [] e.type = "response_done" -> [DoneAll(r) EXCEPT !.held = <<e>>]
      [] OTHER -> Emit(r, e)

ReadChat(r, c) ==
    CASE c.kind = "[DONE]" -> [r EXCEPT !.terminated = TRUE, !.over = "break"]
      [] c.kind = "error" -> [Fail(r, "break") EXCEPT !.terminated = TRUE]
      [] c.kind = "garbage" -> Refuse(r)
      [] OTHER -> FoldLeft(ChatEvent,
                           [EmitIf(~r.started, r, ResponseStart) EXCEPT !.started = TRUE],
                           ChatChunkEvents(c))

LeaveChat(r) ==
    LET d == DoneAll(r)
    IN IF d.held = <<>> THEN d ELSE [Emit(d, d.held[1]) EXCEPT !.terminated = TRUE]

------------------------------------------------------------------------------
(* readGeminiStreamAsCanonical.  A chunk is [kind, candidate, parts,       *)
(* finish, blocked, usage]: candidate says whether it has one, blocked why *)
(* the prompt was refused; a part is [kind, text, id, name, args, sig].    *)

IsNamedCall(p) == p.kind = "call" /\ p.name # None

\* A part of GeminiToCanonicalStreamEvents, as the i-th call if it is one.
PartEvents(p, i, request) ==
    LET id == FirstNonEmpty(p.id, <<"call", request, i>>)
        args == ObjectOf(p.args)
    IN IF IsNamedCall(p)
       THEN <<CallStart(i, id, p.name, p.sig), ArgumentsDelta(i, id, p.name, args),
              CallDone(i, id, p.name, args, p.sig)>>
       ELSE Opt(p.kind # "call" /\ (p.text # None \/ p.sig # None),
                IF p.kind = "thought" THEN ReasoningDelta(0, p.text, p.sig)
                ELSE [TextDelta(0, p.text) EXCEPT !.sig = p.sig])

\* The index of the call in part n of a chunk: the calls of earlier chunks count.
CallNumber(c, n, offset) == offset + Len(SelectSeq(SubSeq(c.parts, 1, n - 1), IsNamedCall))

\* A mutant: calls are not a reason of their own.
GeminiFinishPlain(reason, calls) == FromGeminiReason(reason)

GeminiFinish(reason, calls) ==
    LET canonical == FromGeminiReason(reason)
    IN IF calls > 0 /\ canonical = "stop" THEN "tool_calls" ELSE canonical

\* The rest of GeminiToCanonicalStreamEvents: the usage goes before the finish.
GeminiChunkEvents(c, request, offset) ==
    LET calls == CallNumber(c, Len(c.parts) + 1, offset)
    IN (IF c.candidate
        THEN Concat([n \in DOMAIN c.parts |->
                        PartEvents(c.parts[n], CallNumber(c, n, offset), request)])
        ELSE Opt(c.blocked # None, RefusalDelta(0, c.blocked)))
       \o Opt(c.usage # ZeroUsage, UsageEvent(c.usage))
       \o (IF c.candidate
           THEN Opt(c.finish # "", ResponseDone(GeminiFinish(c.finish, calls)))
           ELSE Opt(c.blocked # None, ResponseDone("content_filter")))

GeminiEvent(r, e) ==
    Emit([r EXCEPT !.usage = IF e.type = "usage" THEN e.usage ELSE @,
                   !.offset = IF e.type = "tool_call_done" THEN @ + 1 ELSE @,
                   !.terminated = @ \/ e.type = "response_done"], e)

\* The reader goes on after the finish, until the body ends.
ReadGemini(r, c) ==
    CASE c.kind = "[DONE]" -> [r EXCEPT !.terminated = TRUE, !.over = "break"]
      [] c.kind = "error" -> [Fail(r, "break") EXCEPT !.terminated = TRUE]
      [] c.kind = "garbage" -> Refuse(r)
      [] OTHER -> FoldLeft(GeminiEvent, r, GeminiChunkEvents(c, r.request, r.offset))

------------------------------------------------------------------------------
(* readResponsesStreamAsCanonical.  A chunk is [kind, at, delta, args,     *)
(* item, output, status, why, usage]: an event of an output item, or one   *)
(* of the whole response; an item is [kind, id, item, name, text, args,    *)
(* sig], id the call's identifier and item that of the item itself.        *)

See(r, what) == [r EXCEPT !.seen = @ \union {what}]

TextsOf(output, kind) ==
    Concat([n \in DOMAIN output |-> IF output[n].kind = kind THEN output[n].text ELSE None])

IsCallItem(item) == item.kind = "function_call"
CallItems(output) == Concat([n \in DOMAIN output |-> Opt(IsCallItem(output[n]), output[n])])
CallOfItem(item) == ToolCall(FirstNonEmpty(item.id, item.item), item.name, item.args, None)

\* The signature of the last reasoning item that has one.
SignatureOf(output) ==
    FoldLeft(LAMBDA s, item : IF item.kind = "reasoning" THEN FirstNonEmpty(item.sig, s) ELSE s,
             None, output)

\* OpenAIResponsesResponseToCanonical, of a response that did not fail.
FromResponses(output, status, why, usage) ==
    LET calls == CallItems(output)
    IN Response(TextsOf(output, "message"), TextsOf(output, "refusal"),
                TextsOf(output, "reasoning"), SignatureOf(output),
                [n \in DOMAIN calls |-> CallOfItem(calls[n])],
                FromResponsesStatus(status, why, calls), usage)

\* The summary of a reasoning item is told if no delta was, its signature always.
ReasoningItemDone(r, c) ==
    LET delta == IF "reasoning" \in r.seen THEN None ELSE c.item.text
    IN IF delta = None /\ c.item.sig = None THEN r
       ELSE See(Emit(r, ReasoningDelta(c.at, delta, c.item.sig)), "reasoning")

\* A call of the final response: its own events if they were not seen.
FinalCall(r, call) ==
    LET i == IndexFor(r, call.id)
    IN DoneTool(StartTool(r, CallStart(i, call.id, call.name, None)),
                CallDone(i, call.id, call.name, call.args, call.sig))

\* A mutant: the text of the final response is told though its deltas were.
FinalTextAgain(r, response) ==
    EmitIf(response.refusal # None /\ "refusal" \notin r.seen,
           EmitIf(response.text # None, r, TextDelta(0, response.text)),
           RefusalDelta(0, response.refusal))

\* What was not seen of the texts of the final response.
FinalText(r, response) ==
    EmitIf(response.refusal # None /\ "refusal" \notin r.seen,
           EmitIf(response.text # None /\ "text" \notin r.seen, r, TextDelta(0, response.text)),
           RefusalDelta(0, response.refusal))

ResponsesFinal(r, response) ==
    LET told == DoneAll(FoldLeft(FinalCall, FinalText(r, response), response.calls))
        counted == EmitIf(response.usage # ZeroUsage, [told EXCEPT !.usage = response.usage],
                          UsageEvent(response.usage))
    IN [Emit(counted, ResponseDone(response.reason)) EXCEPT !.terminated = TRUE, !.over = "break"]

ReadResponses(r, c) ==
    CASE c.kind = "created" -> Emit(r, ResponseStart)
      [] c.kind = "text.delta" -> See(Emit(r, TextDelta(c.at, c.delta)), "text")
      [] c.kind = "refusal.delta" -> See(Emit(r, RefusalDelta(c.at, c.delta)), "refusal")
      [] c.kind = "reasoning.delta" ->
             See(Emit(r, ReasoningDelta(c.at, c.delta, None)), "reasoning")
      [] c.kind = "item.added" ->
             (IF IsCallItem(c.item)
              THEN StartTool(r, CallStart(c.at, FirstNonEmpty(c.item.id, c.item.item),
                                          c.item.name, None))
              ELSE EmitIf(c.item.kind \in {"message", "refusal"}, r, MessageStart))
      [] c.kind = "arguments.delta" -> DeltaTool(r, ArgumentsDelta(c.at, c.item.item, None, c.delta))
      [] c.kind = "arguments.done" ->
             DoneTool(r, CallDone(c.at, c.item.item, c.item.name, c.args, None))
      [] c.kind = "item.done" ->
             (CASE c.item.kind = "reasoning" -> ReasoningItemDone(r, c)
                [] IsCallItem(c.item) ->
                       DoneTool(r, CallDone(c.at, FirstNonEmpty(c.item.id, c.item.item),
                                            c.item.name, c.item.args, None))
                [] OTHER -> r)
      [] c.kind = "final" -> ResponsesFinal(r, FromResponses(c.output, c.status, c.why, c.usage))
      [] c.kind = "error" -> Fail(r, "return")
      [] c.kind \in {"failed", "garbage"} -> Refuse(r)

------------------------------------------------------------------------------
(* readAnthropicStreamAsCanonical.  A chunk is [kind, at, block, delta,    *)
(* reason, explanation, usage]; a block and a delta are [kind, id, name,   *)
(* text].                                                                  *)

\* A mutant: the usage of the end replaces that of the beginning.
MergeUsageReplaces(current, next) ==
    [in |-> next.in + next.cached, out |-> next.out, cached |-> next.cached]

\* mergeAnthropicStreamUsage: input that is read from the cache is counted apart.
MergeUsage(current, next) ==
    [in |-> IF next.in # 0 \/ next.cached # 0 THEN next.in + next.cached ELSE current.in,
     out |-> IF next.out # 0 THEN next.out ELSE current.out,
     cached |-> IF next.cached # 0 THEN next.cached ELSE current.cached]

DefaultRefusal == <<"Anthropic refused the request">>

BlockDelta(r, c) ==
    CASE c.delta.kind = "text" -> Emit(r, TextDelta(c.at, c.delta.text))
      [] c.delta.kind = "thinking" -> Emit(r, ReasoningDelta(c.at, c.delta.text, None))
      [] c.delta.kind = "signature" -> Emit(r, ReasoningDelta(c.at, None, c.delta.text))
      [] c.delta.kind = "input_json" -> DeltaTool(r, ArgumentsDelta(c.at, None, None, c.delta.text))

MessageDelta(r, c) ==
    LET ended == DoneAll([r EXCEPT !.reason = FromStopReason(c.reason),
                                   !.usage = MergeUsage(@, c.usage)])
    IN EmitIf(c.reason = "refusal",
              EmitIf(ended.usage # ZeroUsage, See(ended, "message_delta"), UsageEvent(ended.usage)),
              RefusalDelta(0, FirstNonEmpty(c.explanation, DefaultRefusal)))

ReadAnthropic(r, c) ==
    CASE c.kind = "message_start" ->
             Emit(Emit([r EXCEPT !.usage = MergeUsage(@, c.usage)], ResponseStart), MessageStart)
      [] c.kind = "block_start" ->
             (IF c.block.kind # "tool_use" THEN r
              ELSE StartTool(r, CallStart(c.at, c.block.id, c.block.name, None)))
      [] c.kind = "block_delta" -> BlockDelta(r, c)
      \* Every block, not only a tool's.
      [] c.kind = "block_stop" -> DoneTool(r, CallDone(c.at, None, None, None, None))
      [] c.kind = "message_delta" -> MessageDelta(r, c)
      [] c.kind = "message_stop" ->
             (IF "message_delta" \notin r.seen THEN Refuse(r)
              ELSE [Emit(r, ResponseDone(r.reason)) EXCEPT !.terminated = TRUE, !.over = "break"])
      [] c.kind = "error" -> Fail(r, "return")
      [] c.kind = "garbage" -> Refuse(r)

LeaveAnthropic(r) ==
    LET d == DoneAll(r) IN EmitIf(~r.terminated /\ r.usage # ZeroUsage, d, UsageEvent(r.usage))

------------------------------------------------------------------------------
(* The four readers as one, as streamCanonicalResult chooses among them *)

Read(protocol, r, c) ==
    CASE protocol = Chat -> ReadChat(r, c)
      [] protocol = Responses -> ReadResponses(r, c)
      [] protocol = Anthropic -> ReadAnthropic(r, c)
      [] protocol = Gemini -> ReadGemini(r, c)

\* What follows the loop, unless the function returned from inside it.
AfterLoop(protocol, r) ==
    IF r.over = "return" THEN r
    ELSE IF protocol = Chat THEN LeaveChat(r)
    ELSE IF protocol = Anthropic THEN LeaveAnthropic(r)
    ELSE r

\* A mutant: a body that ends early is taken for a whole one.
LeaveTrusting(protocol, r, broken) ==
    LET a == AfterLoop(protocol, r)
    IN [a EXCEPT !.result = IF broken \/ a.failed THEN "error" ELSE "ok"]

\* The end of a reader: its body ended, broken off or not, or the loop was left.
Leave(protocol, r, broken) ==
    LET a == AfterLoop(protocol, r)
    IN [a EXCEPT !.result = IF broken \/ a.failed \/ ~a.terminated THEN "error" ELSE "ok"]
==============================================================================
