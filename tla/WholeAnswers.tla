----------------------------- MODULE WholeAnswers -----------------------------
(***************************************************************************)
(* Answers that are not streamed: the body of a provider to the canonical  *)
(* response (canonicalResponseFromProvider) and on to the body the client  *)
(* is given (writeCanonicalResponse), as the items it will read in it.     *)
(***************************************************************************)
EXTENDS StreamPeers

CallsOf(a, Take(_, _)) ==
    LET calls == PartsOf(a, "call") IN [n \in DOMAIN calls |-> Take(calls[n], n)]

PlainCall(p, n) == ToolCall(p.id, p.name, PartText(p), p.sig)

LastSig(parts) == FoldLeft(LAMBDA s, p : FirstNonEmpty(p.sig, s), None, parts)

\* OpenAIChatResponseToCanonical.
WholeFromChat(a) ==
    Response(TextOf(a, "text"), TextOf(a, "refusal"), TextOf(a, "reasoning"), None,
             CallsOf(a, PlainCall), Word(Chat, a.reason), a.usage)

\* OpenAIResponsesResponseToCanonical is the one the reader of streams uses.
WholeFromResponses(a) ==
    LET final == Ending(Responses, TRUE, a)[1]
    IN FromResponses(final.output, final.status, final.why, final.usage)

\* AnthropicMessagesResponseToCanonical: the signature of the last thinking.
WholeFromAnthropic(a) ==
    LET word == Word(Anthropic, a.reason)
        calls == CallsOf(a, PlainCall)
        thinking == PartsOf(a, "reasoning")
    IN Response(TextOf(a, "text"),
                IF word = "refusal" THEN FirstNonEmpty(TextOf(a, "refusal"), DefaultRefusal)
                ELSE None,
                TextOf(a, "reasoning"),
                IF thinking = <<>> THEN None ELSE Last(thinking).sig,
                calls,
                IF calls # <<>> /\ word \in {"", "tool_use"} THEN "tool_calls"
                ELSE FromStopReason(word),
                MergeUsage(ZeroUsage, [a.usage EXCEPT !.in = @ - a.usage.cached]))

\* geminiResponseToolCalls, of the n-th call.
GeminiWholeCall(p, n, request) ==
    ToolCall(FirstNonEmpty(p.id, <<"call", request, n - 1>>), p.name, ObjectOf(PartText(p)), p.sig)

\* GeminiToCanonicalResponse: the last signature of any part is the answer's.
WholeFromGemini(a, request) ==
    LET calls == CallsOf(a, LAMBDA p, n : GeminiWholeCall(p, n, request))
        blocked == TextOf(a, "refusal")
    IN Response(TextOf(a, "text"), blocked, TextOf(a, "reasoning"), LastSig(a.parts), calls,
                IF blocked # None THEN "content_filter"
                ELSE GeminiFinish(Word(Gemini, a.reason), Len(calls)),
                a.usage)

\* canonicalResponseFromProvider.
FromProvider(protocol, a, request) ==
    CASE protocol = Chat -> WholeFromChat(a)
      [] protocol = Responses -> WholeFromResponses(a)
      [] protocol = Anthropic -> WholeFromAnthropic(a)
      [] protocol = Gemini -> WholeFromGemini(a, request)

------------------------------------------------------------------------------
(* What the client is given, as items in the order of its protocol         *)

Given(items, reason, refusal, usage) ==
    [items |-> items, reason |-> reason, refusal |-> refusal, usage |-> usage]

CallsGiven(r, Give(_)) == [n \in DOMAIN r.calls |-> Give(r.calls[n])]
PlainGiven(c) == CallItem(c.id, c.name, c.args)
SignedGiven(c) == [PlainGiven(c) EXCEPT !.sig = c.sig]

\* CanonicalToOpenAIChatResponse: no content beside a refusal or calls.
WholeToChat(r) ==
    Given(Opt(r.reasoning # None, Item("reasoning", r.reasoning, None))
          \o Opt(r.refusal = None /\ r.calls = <<>>, Item("text", r.text, None))
          \o Opt(r.refusal # None, Item("refusal", r.refusal, None))
          \o CallsGiven(r, SignedGiven),
          r.reason, None, r.usage)

\* CanonicalToOpenAIResponsesResponse; a call is given an identifier if it has none.
WholeToResponses(r) ==
    LET status == ResponsesStatus(r.refusal, r.reason)
        said == Opt(r.reasoning # None \/ r.sig # None, Item("reasoning", r.reasoning, r.sig))
                \o Opt(r.refusal # None, Item("refusal", r.refusal, None))
                \o Opt(r.refusal = None /\ r.text # None, Item("text", r.text, None))
        calls == [n \in DOMAIN r.calls |->
                    CallItem(FirstNonEmpty(r.calls[n].id, <<"fc", Len(said) + n - 1>>),
                             r.calls[n].name, r.calls[n].args)]
    IN Given(said \o calls, IF status = "completed" THEN status ELSE ToIncompleteReason(r.reason),
             None, r.usage)

\* CanonicalToAnthropicMessagesResponse: nothing beside a refusal.
WholeToAnthropic(r) ==
    LET said == Opt(r.reasoning # None \/ r.sig # None, Item("reasoning", r.reasoning, r.sig))
                \o Opt(r.text # None, Item("text", r.text, None))
                \o CallsGiven(r, PlainGiven)
        uncached == IF r.usage.in < r.usage.cached THEN 0 ELSE r.usage.in - r.usage.cached
    IN Given(IF r.refusal # None THEN <<>> ELSE said,
             IF r.refusal # None THEN "refusal" ELSE ToStopReason(r.reason),
             r.refusal, [r.usage EXCEPT !.in = uncached])

\* CanonicalToGeminiGenerateResponse: the refusal in the place of the text.
WholeToGemini(r) ==
    LET said == FirstNonEmpty(r.refusal, r.text)
    IN Given(Opt(r.reasoning # None, Item("reasoning", r.reasoning, r.sig))
             \o Opt(said # None, Item("text", said, None))
             \o CallsGiven(r, GeminiCall),
             ToGeminiReason(r.reason), None, r.usage)

\* writeCanonicalResponse.
ToClient(protocol, r) ==
    CASE protocol = Chat -> WholeToChat(r)
      [] protocol = Responses -> WholeToResponses(r)
      [] protocol = Anthropic -> WholeToAnthropic(r)
      [] protocol = Gemini -> WholeToGemini(r)
==============================================================================
