---------------------------- MODULE RequestOptions ----------------------------
(***************************************************************************)
(* What a request asks for besides its messages: which tools may or must be *)
(* called, how much to reason, in which format to answer, where to stop and *)
(* how long to go on; beyond is anything only its own protocol knows.  A    *)
(* field of the options of a protocol holds a word of that protocol; a      *)
(* conversion is [ok, options], and one that is not ok refuses the request, *)
(* or passes over the provider.                                             *)
(***************************************************************************)
EXTENDS Canonical, FiniteSets

Unset == ""
NoBudget == -1
NoChoice == [mode |-> Unset, names |-> <<>>]
NoReasoning == [mode |-> Unset, effort |-> Unset, budget |-> NoBudget, thoughts |-> Unset,
                summary |-> Unset]
NoOptions == [tools |-> <<>>, choice |-> NoChoice, reasoning |-> NoReasoning, format |-> Unset,
              stop |-> FALSE, max |-> 0, beyond |-> FALSE]

ToolChoices == [mode : STRING, names : Seq(Seq(STRING))]
Reasonings == [mode : STRING, effort : STRING, budget : Nat \union {NoBudget}, thoughts : STRING,
               summary : STRING]
AllOptions == [tools : Seq(Seq(STRING)), choice : ToolChoices, reasoning : Reasonings, format : STRING,
               stop : BOOLEAN, max : Nat, beyond : BOOLEAN]

Reject == [ok |-> FALSE, options |-> NoOptions]
AcceptIf(cond, o) == IF cond THEN [ok |-> TRUE, options |-> o] ELSE Reject

Distinct(names) == Cardinality(ToSet(names)) = Len(names)
Known(o, names) == ToSet(names) \subseteq ToSet(o.tools)

\* validateCanonicalToolChoice.
ValidChoice(o) ==
    LET c == o.choice
    IN /\ c.mode \in {Unset, "AUTO", "NONE", "ANY"}
       /\ c.mode = "NONE" => c.names = <<>>
       /\ c.mode = "ANY" => o.tools # <<>>
       /\ Known(o, c.names) /\ Distinct(c.names)

------------------------------------------------------------------------------
(* From a client *)

\* openAIToolChoiceToCanonical and openAIResponsesToolChoiceToCanonical.
OpenAIChoiceFits(o) ==
    CASE o.choice.mode = "required" -> o.tools # <<>>
      [] o.choice.mode \in {"function", "allowed auto", "allowed required"} ->
             o.choice.names # <<>> /\ Known(o, o.choice.names)
      [] OTHER -> o.choice.mode \in {Unset, "auto", "none"}
OpenAIChoice(c) ==
    CASE c.mode \in {Unset, "auto"} -> NoChoice
      [] c.mode = "none" -> [NoChoice EXCEPT !.mode = "NONE"]
      [] c.mode = "allowed auto" -> [c EXCEPT !.mode = "AUTO"]
      [] OTHER -> [c EXCEPT !.mode = "ANY"]

\* openAIResponseFormatToCanonical and openAIResponsesTextFormatToCanonical.
OpenAIFormat(f) ==
    CASE f = "json_object" -> "json" [] f = "json_schema" -> "schema" [] OTHER -> Unset

FromOpenAI(o) == [o EXCEPT !.choice = OpenAIChoice(@), !.format = OpenAIFormat(@)]
OpenAIFormats == {Unset, "text", "json_object", "json_schema"}

\* validateOpenAIChatParameterSupport: some fields have no place elsewhere.
ChatSupported(o) == ~o.beyond

\* The options of OpenAIChatToCanonical.
OptionsFromChat(o) ==
    AcceptIf(ChatSupported(o) /\ OpenAIChoiceFits(o) /\ o.format \in OpenAIFormats, FromOpenAI(o))

\* validateOpenAIResponsesCrossProtocolOptions: the mode, which is no one
\* else's, has to be the standard one.
ResponsesCrosses(o) == ~o.beyond /\ o.reasoning.mode \in {Unset, "standard"}

\* The options of OpenAIResponsesToCanonicalRequest.
OptionsFromResponses(o) ==
    AcceptIf(ResponsesCrosses(o) /\ OpenAIChoiceFits(o) /\ o.format \in OpenAIFormats,
             [FromOpenAI(o) EXCEPT !.reasoning.mode = Unset])

\* decodeCrossProtocolJSON: no field that is not known.
KnownFields(o) == ~o.beyond

\* anthropicToolChoiceToCanonical.
AnthropicChoice(c) ==
    CASE c.mode \in {Unset, "auto"} -> NoChoice
      [] c.mode = "none" -> [NoChoice EXCEPT !.mode = "NONE"]
      [] c.mode = "any" -> [NoChoice EXCEPT !.mode = "ANY"]
      [] c.mode = "tool" -> [c EXCEPT !.mode = "ANY"]
      [] OTHER -> c

\* The options of AnthropicMessagesToCanonicalRequest; max_tokens is required.
OptionsFromAnthropic(o) ==
    LET next == [o EXCEPT !.choice = AnthropicChoice(@),
                          !.format = IF @ = "json_schema" THEN "schema" ELSE Unset]
    IN AcceptIf(KnownFields(o) /\ o.max > 0 /\ o.format \in {Unset, "json_schema"}
                /\ ValidChoice(next), next)

\* geminiToolConfigToCanonical.
GeminiChoice(c) ==
    CASE c.mode = Unset \/ (c.mode = "AUTO" /\ c.names = <<>>) -> NoChoice
      [] c.mode = "NONE" -> [NoChoice EXCEPT !.mode = "NONE"]
      [] OTHER -> c

\* The options of GeminiGenerateToCanonicalRequest.
OptionsFromGemini(o) ==
    LET next == [o EXCEPT !.choice = GeminiChoice(@)]
    IN AcceptIf(/\ KnownFields(o)
                /\ ~(o.reasoning.effort # Unset /\ o.reasoning.budget # NoBudget)
                /\ ValidChoice(next), next)

InboundOptions(protocol, o) ==
    CASE protocol = Chat -> OptionsFromChat(o)
      [] protocol = Responses -> OptionsFromResponses(o)
      [] protocol = Anthropic -> OptionsFromAnthropic(o)
      [] protocol = Gemini -> OptionsFromGemini(o)

------------------------------------------------------------------------------
(* To a provider *)

\* mapReasoningBudgetToOpenAIEffort: what is 0 or already said is dropped.
BudgetAsEffort(r) ==
    LET level == IF r.budget <= 128 THEN "minimal" ELSE IF r.budget <= 1024 THEN "low"
                   ELSE IF r.budget <= 8192 THEN "medium" ELSE "high"
    IN IF r.budget = NoBudget THEN r
       ELSE IF r.effort # Unset \/ r.budget = 0 THEN [r EXCEPT !.budget = NoBudget]
       ELSE [r EXCEPT !.budget = NoBudget, !.effort = level]

\* canonicalToolChoiceToOpenAI and canonicalToolChoiceToOpenAIResponses.
ChoiceToOpenAI(c) ==
    IF c.mode \in {Unset, "NONE"} THEN [c EXCEPT !.mode = IF c.mode = Unset THEN Unset ELSE "none"]
    ELSE IF c.names = <<>> THEN [c EXCEPT !.mode = IF c.mode = "AUTO" THEN "auto" ELSE "required"]
    ELSE IF Len(c.names) = 1 /\ c.mode = "ANY" THEN [c EXCEPT !.mode = "function"]
    ELSE [c EXCEPT !.mode = IF c.mode = "AUTO" THEN "allowed auto" ELSE "allowed required"]

\* canonicalResponseFormatToOpenAI and canonicalResponseFormatToResponses.
FormatToOpenAI(f) ==
    CASE f = "json" -> "json_object" [] f = "schema" -> "json_schema" [] OTHER -> f

\* The options of CanonicalToOpenAIChatRequest.
OptionsToChat(o) ==
    LET r == BudgetAsEffort(o.reasoning)
    IN AcceptIf(/\ ValidChoice(o)
                /\ r.mode \in {Unset, "adaptive"}
                /\ o.format \in {Unset, "json", "schema"},
                [o EXCEPT !.choice = ChoiceToOpenAI(@), !.format = FormatToOpenAI(@),
                          !.reasoning = [NoReasoning EXCEPT !.effort = r.effort]])

\* The options of CanonicalToOpenAIResponsesRequest: a mime type of another
\* kind is passed on, and where to stop is not.
OptionsToResponses(o) ==
    LET r == BudgetAsEffort(o.reasoning)
        summary == IF r.summary = Unset /\ r.thoughts = "yes" THEN "auto" ELSE r.summary
    IN AcceptIf(ValidChoice(o) /\ r.mode \in {Unset, "adaptive"},
                [o EXCEPT !.choice = ChoiceToOpenAI(@), !.format = FormatToOpenAI(@),
                          !.stop = FALSE,
                          !.reasoning = [NoReasoning EXCEPT !.effort = r.effort,
                                                            !.summary = summary]])

DefaultMax == 4096       \* defaultAnthropicMaxOutputTokens
Efforts == {Unset, "low", "medium", "high", "xhigh", "max"}

\* The reasoning of CanonicalToAnthropicMessagesRequest: a budget switches
\* thinking on, so does the wish to see it.
ThinkingFits(r) ==
    /\ r.budget # NoBudget => r.mode \in {Unset, "enabled"}
    /\ r.mode \in {Unset, "adaptive", "enabled", "disabled"}
    /\ r.summary \in {Unset, "auto"} /\ r.effort \in Efforts
Thinking(r) ==
    LET asked == r.budget # NoBudget \/ r.thoughts # Unset \/ r.summary = "auto"
        mode == IF r.mode # Unset THEN r.mode ELSE IF r.budget # NoBudget THEN "enabled"
                  ELSE IF asked THEN "adaptive" ELSE Unset
    IN [r EXCEPT !.mode = mode, !.summary = Unset,
                 !.thoughts = IF @ = Unset /\ r.summary = "auto" THEN "yes" ELSE @]

\* canonicalToolChoiceToAnthropic: no subset of the functions.
ChoiceToAnthropic(c) ==
    CASE c.mode = "NONE" -> [c EXCEPT !.mode = "none"]
      [] c.mode = "AUTO" -> [c EXCEPT !.mode = "auto"]
      [] c.mode = "ANY" -> [c EXCEPT !.mode = IF c.names = <<>> THEN "any" ELSE "tool"]
      [] OTHER -> c
SubsetFits(c) == IF c.mode = "AUTO" THEN c.names = <<>> ELSE Len(c.names) <= 1

\* The options of CanonicalToAnthropicMessagesRequest, with the length that
\* prepareCanonicalProviderRequest gives an answer of which none was asked.
OptionsToAnthropic(o, targetMax) ==
    AcceptIf(/\ ValidChoice(o) /\ SubsetFits(o.choice) /\ ThinkingFits(o.reasoning)
             /\ o.format \in {Unset, "schema"},
             [o EXCEPT !.choice = ChoiceToAnthropic(@),
                       !.format = IF @ = Unset THEN Unset ELSE "json_schema",
                       !.reasoning = Thinking(@),
                       !.max = IF @ # 0 THEN @ ELSE IF targetMax > 0 THEN targetMax
                               ELSE DefaultMax])

\* geminiThinkingLevelForOpenAIReasoningEffort, of a client that speaks OpenAI.
LevelFits(r, model) ==
    r.effort = Unset \/ (model # "gemini-2" /\ r.effort \in {"minimal", "low", "medium", "high"})
Level(r, model) ==
    IF r.effort = "minimal" /\ model # "gemini-3-flash" THEN [r EXCEPT !.effort = "low"] ELSE r

\* canonicalToGeminiGenerationConfig and the tools of CanonicalToGeminiGenerateRequest.
OptionsToGemini(o, client, model) ==
    LET openAI == client \in {Chat, Responses}
        r == IF openAI THEN Level(o.reasoning, model) ELSE o.reasoning
    IN AcceptIf(/\ openAI => LevelFits(o.reasoning, model)
                /\ ValidChoice(o)
                /\ r.budget = NoBudget /\ r.mode \in {Unset, "adaptive"}
                /\ r.summary \in {Unset, "auto"}
                /\ r.effort \in {Unset, "minimal", "low", "medium", "high"},
                [o EXCEPT !.reasoning = [NoReasoning EXCEPT
                                           !.effort = r.effort,
                                           !.thoughts = IF r.thoughts = Unset THEN "yes"
                                                        ELSE r.thoughts]])

\* A target is [protocol, model, max].
OutboundOptions(target, client, o) ==
    CASE target.protocol = Chat -> OptionsToChat(o)
      [] target.protocol = Responses -> OptionsToResponses(o)
      [] target.protocol = Anthropic -> OptionsToAnthropic(o, target.max)
      [] target.protocol = Gemini -> OptionsToGemini(o, client, target.model)
==============================================================================
