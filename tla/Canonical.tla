------------------------------- MODULE Canonical -------------------------------
(***************************************************************************)
(* The form every conversion goes through (protocol/canonical.go): stream  *)
(* events and whole responses that belong to no protocol.                  *)
(*                                                                         *)
(* Texts, identifiers, names and signatures are sequences of atoms, so     *)
(* that an empty one is None and writing to a builder is \o.               *)
(***************************************************************************)
EXTENDS Integers, Sequences, SequencesExt

Chat == "openai"
Responses == "openai-responses"
Anthropic == "anthropic"
Gemini == "gemini"
Protocols == {Chat, Responses, Anthropic, Gemini}

None == <<>>
FirstNonEmpty(a, b) == IF a # None THEN a ELSE b
Opt(cond, x) == IF cond THEN <<x>> ELSE <<>>
Concat(seqs) == FoldLeft(LAMBDA acc, s : acc \o s, None, seqs)

EmptyObject == <<"{}">>
\* jsonRawObject, and the guards that replace absent arguments.
ObjectOf(args) == FirstNonEmpty(args, EmptyObject)

ZeroUsage == [in |-> 0, out |-> 0, cached |-> 0]

------------------------------------------------------------------------------
(* CanonicalStreamEvent *)

Blank == [type |-> "", index |-> 0, id |-> None, name |-> None, delta |-> None,
          args |-> None, sig |-> None, reason |-> "", usage |-> ZeroUsage]

ResponseStart == [Blank EXCEPT !.type = "response_start"]
MessageStart == [Blank EXCEPT !.type = "message_start"]
TextDelta(i, d) == [Blank EXCEPT !.type = "text_delta", !.index = i, !.delta = d]
RefusalDelta(i, d) == [Blank EXCEPT !.type = "refusal_delta", !.index = i, !.delta = d]
ReasoningDelta(i, d, s) ==
    [Blank EXCEPT !.type = "reasoning_delta", !.index = i, !.delta = d, !.sig = s]
CallStart(i, id, name, s) ==
    [Blank EXCEPT !.type = "tool_call_start", !.index = i, !.id = id, !.name = name, !.sig = s]
ArgumentsDelta(i, id, name, d) ==
    [Blank EXCEPT !.type = "tool_arguments_delta", !.index = i, !.id = id, !.name = name,
                  !.delta = d]
CallDone(i, id, name, args, s) ==
    [Blank EXCEPT !.type = "tool_call_done", !.index = i, !.id = id, !.name = name,
                  !.args = args, !.sig = s]
UsageEvent(u) == [Blank EXCEPT !.type = "usage", !.usage = u]
ResponseDone(reason) == [Blank EXCEPT !.type = "response_done", !.reason = reason]
ErrorEvent == [Blank EXCEPT !.type = "error"]

------------------------------------------------------------------------------
(* CanonicalResponse and CanonicalToolCall *)

ToolCall(id, name, args, s) == [id |-> id, name |-> name, args |-> args, sig |-> s]

Response(text, refusal, reasoning, s, calls, reason, usage) ==
    [text |-> text, refusal |-> refusal, reasoning |-> reasoning, sig |-> s,
     calls |-> calls, reason |-> reason, usage |-> usage]

------------------------------------------------------------------------------
(* Why an answer ended, in the words of each protocol *)

\* AnthropicStopReasonToCanonical.
FromStopReason(reason) ==
    CASE reason \in {"end_turn", "stop_sequence", "pause_turn"} -> "stop"
      [] reason \in {"max_tokens", "model_context_window_exceeded"} -> "length"
      [] reason = "tool_use" -> "tool_calls"
      [] reason = "refusal" -> "content_filter"
      [] OTHER -> reason

\* CanonicalFinishReasonToAnthropic.
ToStopReason(reason) ==
    CASE reason \in {"", "stop"} -> "end_turn"
      [] reason = "length" -> "max_tokens"
      [] reason = "tool_calls" -> "tool_use"
      [] reason = "content_filter" -> "refusal"
      [] OTHER -> reason

\* geminiFinishReasonToCanonical; strings.ToLower keeps an unknown word.
FromGeminiReason(reason) ==
    CASE reason \in {"", "STOP"} -> "stop"
      [] reason = "MAX_TOKENS" -> "length"
      [] reason \in {"SAFETY", "RECITATION", "BLOCKLIST", "PROHIBITED_CONTENT", "SPII"} ->
             "content_filter"
      [] OTHER -> reason

\* canonicalFinishReasonToGemini.
ToGeminiReason(reason) ==
    CASE reason \in {"", "stop", "tool_calls"} -> "STOP"
      [] reason = "length" -> "MAX_TOKENS"
      [] reason = "content_filter" -> "SAFETY"
      [] OTHER -> reason

\* canonicalFinishReasonToResponsesStatus and ...IncompleteReason: a status
\* and the reason it is incomplete.
ToResponsesStatus(reason) == IF reason \in {"length", "content_filter"} THEN "incomplete"
                             ELSE "completed"
ToIncompleteReason(reason) == IF reason = "content_filter" THEN "content_filter"
                              ELSE "max_output_tokens"

\* The status of CanonicalToOpenAIResponsesResponse: completed for a refusal,
\* else what the reason says.  The status the upstream gave, which would come
\* first, is only there when the upstream speaks Responses too, and then
\* nothing is converted.
ResponsesStatus(refusal, reason) ==
    IF refusal # None THEN "completed" ELSE ToResponsesStatus(reason)

\* The end of OpenAIResponsesResponseToCanonical.
FromResponsesStatus(status, why, calls) ==
    IF status = "incomplete" THEN (IF why = "content_filter" THEN "content_filter" ELSE "length")
    ELSE IF calls # <<>> THEN "tool_calls"
    ELSE "stop"
==============================================================================
