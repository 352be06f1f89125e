-------------------------- MODULE ConversationProofs --------------------------
(***************************************************************************)
(* What is proved of Conversation, for every set of answers, routes and    *)
(* options and every pair of protocols: what is proved of an exchange      *)
(* holds along a conversation, what a client may not do without is kept    *)
(* for every target of its request, and what the provider counted is       *)
(* recorded.                                                               *)
(***************************************************************************)
EXTENDS Conversation, ExchangeProofs, SequenceTheorems

-----------------------------------------------------------------------------
(* What an exchange keeps                                                  *)

\* What comes between an exchange and the next request of the conversation
\* disturbs nothing of it.
LEMMA UnfinishedAlong == SuccessInv /\ [ConversationNext]_conversationVars => SuccessInv'
<1>1. ASSUME SuccessInv, UNCHANGED <<ask, answer, sent, reader, encoder, client, shown, record>>
      PROVE  SuccessInv'
  BY <1>1 DEF SuccessInv, Unfinished, Finished, Open
<1>2. ASSUME SuccessInv, [Next]_vars PROVE SuccessInv'
  BY <1>2, UnfinishedNext
<1>3. Restart \/ DayPasses \/ Continue \/ UNCHANGED conversationVars
        => UNCHANGED <<ask, answer, sent, reader, encoder, client, shown, record>>
  BY DEF Restart, DayPasses, Continue, conversationVars, vars
<1> QED BY <1>1, <1>2, <1>3 DEF ConversationNext, Answering

\* The same holds where the client goes on with the conversation, and replicas
\* restart and forget signatures in between.
THEOREM NoEarlySuccessAlong ==
    ConversationSpec => [](NoFalseSuccess /\ (ask.stream /\ record.status = 200 => Finished))
<1>1. SuccessInv => NoFalseSuccess /\ (ask.stream /\ record.status = 200 => Finished)
  BY DEF SuccessInv, Unfinished, NoFalseSuccess, Hearing
<1>2. ConversationInit => SuccessInv
  BY UnfinishedInit DEF ConversationInit
<1> QED BY <1>1, <1>2, UnfinishedAlong, PTL DEF ConversationSpec

-----------------------------------------------------------------------------
(* What options mean                                                       *)

\* Options that ask for the same calls, and for the same besides.
SameCalls(o, n) == MayCall(n) = MayCall(o) /\ (MustCall(n) <=> MustCall(o))
Alike(o, n) ==
    /\ SameCalls(o, n) /\ FormatOf(n) = FormatOf(o)
    /\ n.max = o.max /\ n.stop = o.stop
    /\ n.reasoning.budget = o.reasoning.budget /\ n.reasoning.effort = o.reasoning.effort

\* The fields options have.
ChoiceFields(c) == DOMAIN c = {"mode", "names"}
Fields(o) ==
    /\ DOMAIN o = {"tools", "choice", "reasoning", "format", "stop", "max", "beyond"}
    /\ ChoiceFields(o.choice)
    /\ DOMAIN o.reasoning = {"mode", "effort", "budget", "thoughts", "summary"}
    /\ o.reasoning.budget \in Nat \union {NoBudget}

\* Names come with the words for them.
Naming(c, words) == c.names # <<>> => c.mode \in words

\* A field that is left out is none of the words.
LEMMA UnsetWord ==
    /\ Unset # "auto" /\ Unset # "none" /\ Unset # "required" /\ Unset # "function"
    /\ Unset # "allowed auto" /\ Unset # "allowed required" /\ Unset # "any" /\ Unset # "tool"
    /\ Unset # "AUTO" /\ Unset # "NONE" /\ Unset # "ANY"
    /\ Unset # "text" /\ Unset # "json" /\ Unset # "json_object" /\ Unset # "schema"
    /\ Unset # "json_schema" /\ Unset # "minimal" /\ Unset # "low" /\ Unset # "medium"
    /\ Unset # "high"
BY Zenon DEF Unset

\* What is accepted fulfils the condition.
LEMMA AcceptedIf ==
    ASSUME NEW cond, NEW o, AcceptIf(cond, o).ok
    PROVE  cond /\ AcceptIf(cond, o).options = o
BY DEF AcceptIf, Reject

\* No choice is one without mode and names.
LEMMA NoChoiceShape == ChoiceFields(NoChoice) /\ NoChoice.mode = Unset /\ NoChoice.names = <<>>
BY DEF NoChoice, ChoiceFields

\* The same functions and the same need, from the choice alone.
SameChoice(c, d) ==
    /\ d.names = c.names \/ (c.mode \in {"none", "NONE"} /\ d.mode \in {"none", "NONE"})
    /\ c.mode \in {"none", "NONE"} <=> d.mode \in {"none", "NONE"}
    /\ c.mode \in {"required", "function", "allowed required", "any", "tool", "ANY"}
         <=> d.mode \in {"required", "function", "allowed required", "any", "tool", "ANY"}

\* It decides what calls mean.
LEMMA SameChoices ==
    ASSUME NEW o, NEW n, n.tools = o.tools, SameChoice(o.choice, n.choice)
    PROVE  SameCalls(o, n)
BY DEF SameChoice, SameCalls, MayCall, MustCall

\* A choice in OpenAI's words means the same in canonical ones.
LEMMA OpenAIChoiceMeans ==
    ASSUME NEW c, ChoiceFields(c), Naming(c, {"function", "allowed auto", "allowed required"}),
           c.mode \in {Unset, "auto", "none", "required", "function", "allowed auto",
                       "allowed required"}
    PROVE  ChoiceFields(OpenAIChoice(c)) /\ SameChoice(c, OpenAIChoice(c))
<1>1. CASE c.mode \in {Unset, "auto"}
  <2>1. OpenAIChoice(c) = NoChoice /\ c.names = <<>>
    BY <1>1, UnsetWord DEF OpenAIChoice, Naming
  <2> QED BY <1>1, <2>1, UnsetWord, NoChoiceShape DEF SameChoice
<1>2. CASE c.mode = "none"
  <2>1. OpenAIChoice(c) = [NoChoice EXCEPT !.mode = "NONE"]
    BY <1>2, UnsetWord DEF OpenAIChoice
  <2> QED BY <1>2, <2>1, NoChoiceShape DEF SameChoice, ChoiceFields
<1>3. CASE c.mode = "allowed auto"
  <2>1. OpenAIChoice(c) = [c EXCEPT !.mode = "AUTO"]
    BY <1>3, UnsetWord DEF OpenAIChoice
  <2> DEFINE d == OpenAIChoice(c)
  <2>2. d.mode = "AUTO" /\ d.names = c.names /\ DOMAIN d = DOMAIN c
    BY <2>1 DEF ChoiceFields
  <2> HIDE DEF d
  <2>3. SameChoice(c, d) /\ ChoiceFields(d)
    BY <1>3, <2>2 DEF SameChoice, ChoiceFields
  <2> QED BY <2>3 DEF d
<1>4. CASE c.mode \in {"required", "function", "allowed required"}
  <2>1. OpenAIChoice(c) = [c EXCEPT !.mode = "ANY"]
    BY <1>4, UnsetWord DEF OpenAIChoice
  <2> DEFINE d == OpenAIChoice(c)
  <2>2. d.mode = "ANY" /\ d.names = c.names /\ DOMAIN d = DOMAIN c
    BY <2>1 DEF ChoiceFields
  <2> HIDE DEF d
  <2>3. SameChoice(c, d) /\ ChoiceFields(d)
    BY <1>4, <2>2 DEF SameChoice, ChoiceFields
  <2> QED BY <2>3 DEF d
<1> QED BY <1>1, <1>2, <1>3, <1>4

\* So does a format.
LEMMA OpenAIFormatMeans ==
    ASSUME NEW o, NEW n, o.format \in OpenAIFormats, n.format = OpenAIFormat(o.format)
    PROVE  FormatOf(n) = FormatOf(o)
<1>1. CASE o.format \in {Unset, "text"}
  BY <1>1, UnsetWord DEF OpenAIFormat, FormatOf
<1>2. CASE o.format \in {"json_object", "json_schema"}
  BY <1>2, UnsetWord DEF OpenAIFormat, FormatOf
<1> QED BY <1>1, <1>2 DEF OpenAIFormats

\* And so the options of both protocols.
LEMMA FromOpenAIMeans ==
    ASSUME NEW o, Fields(o), Naming(o.choice, {"function", "allowed auto", "allowed required"}),
           OpenAIChoiceFits(o), o.format \in OpenAIFormats
    PROVE  Fields(FromOpenAI(o)) /\ Alike(o, FromOpenAI(o))
<1> DEFINE n == FromOpenAI(o)
<1>1. ChoiceFields(o.choice) /\ o.choice.mode \in
            {Unset, "auto", "none", "required", "function", "allowed auto", "allowed required"}
  BY DEF Fields, OpenAIChoiceFits
<1>2. ChoiceFields(OpenAIChoice(o.choice)) /\ SameChoice(o.choice, OpenAIChoice(o.choice))
  BY <1>1, OpenAIChoiceMeans
<1>3. /\ n.choice = OpenAIChoice(o.choice) /\ n.format = OpenAIFormat(o.format)
      /\ n.tools = o.tools /\ n.max = o.max /\ n.stop = o.stop /\ n.reasoning = o.reasoning
      /\ DOMAIN n = DOMAIN o
  BY DEF FromOpenAI, Fields
<1>4. FormatOf(n) = FormatOf(o)
  BY <1>3, OpenAIFormatMeans
<1>5. Fields(n)
  BY <1>2, <1>3 DEF Fields
<1>6. SameCalls(o, n)
  BY <1>2, <1>3, SameChoices
<1>7. Alike(o, n)
  <2> HIDE DEF n
  <2> QED BY <1>3, <1>4, <1>6 DEF Alike
<1> QED BY <1>5, <1>7

\* What the options of a client become means the same.
Translates(o, n) == Fields(n) /\ Alike(o, n) /\ ~o.beyond

\* Those of Chat.
LEMMA ChatOptions ==
    ASSUME NEW o, Fields(o), Naming(o.choice, {"function", "allowed auto", "allowed required"}),
           OptionsFromChat(o).ok
    PROVE  Translates(o, OptionsFromChat(o).options)
<1>1. /\ ~o.beyond /\ OpenAIChoiceFits(o) /\ o.format \in OpenAIFormats
      /\ OptionsFromChat(o).options = FromOpenAI(o)
  BY AcceptedIf DEF OptionsFromChat, ChatSupported
<1> QED BY <1>1, FromOpenAIMeans DEF Translates

\* Those of Responses, whose mode is dropped.
LEMMA ResponsesOptions ==
    ASSUME NEW o, Fields(o), Naming(o.choice, {"function", "allowed auto", "allowed required"}),
           OptionsFromResponses(o).ok
    PROVE  Translates(o, OptionsFromResponses(o).options)
<1> DEFINE m == FromOpenAI(o)
           n == [m EXCEPT !.reasoning.mode = Unset]
<1>1. /\ ~o.beyond /\ OpenAIChoiceFits(o) /\ o.format \in OpenAIFormats
      /\ OptionsFromResponses(o).options = n
  BY AcceptedIf DEF OptionsFromResponses, ResponsesCrosses
<1>2. Fields(m) /\ Alike(o, m)
  BY <1>1, FromOpenAIMeans
<1> HIDE DEF m
<1>3. /\ DOMAIN n = DOMAIN m /\ DOMAIN n.reasoning = DOMAIN m.reasoning
      /\ n.reasoning.budget = m.reasoning.budget /\ n.reasoning.effort = m.reasoning.effort
      /\ n.choice = m.choice /\ n.tools = m.tools /\ n.format = m.format
      /\ n.max = m.max /\ n.stop = m.stop
  BY <1>2 DEF Fields
<1> HIDE DEF n
<1>4. Fields(n)
  BY <1>2, <1>3 DEF Fields
<1>5. MayCall(n) = MayCall(m) /\ (MustCall(n) <=> MustCall(m)) /\ FormatOf(n) = FormatOf(m)
  BY <1>3 DEF MayCall, MustCall, FormatOf
<1>6. Alike(o, n)
  BY <1>2, <1>3, <1>5 DEF Alike, SameCalls
<1> QED BY <1>1, <1>4, <1>6 DEF Translates

\* A choice in Anthropic's words: any that is not known is refused by ValidChoice.
LEMMA AnthropicChoiceMeans ==
    ASSUME NEW c, ChoiceFields(c), Naming(c, {"tool"}),
           AnthropicChoice(c).mode \in {Unset, "AUTO", "NONE", "ANY"}
    PROVE  ChoiceFields(AnthropicChoice(c)) /\ SameChoice(c, AnthropicChoice(c))
<1>1. CASE c.mode \in {Unset, "auto"}
  <2>1. AnthropicChoice(c) = NoChoice /\ c.names = <<>>
    BY <1>1, UnsetWord DEF AnthropicChoice, Naming
  <2> QED BY <1>1, <2>1, UnsetWord, NoChoiceShape DEF SameChoice
<1>2. CASE c.mode \in {"none", "any"}
  <2>1. AnthropicChoice(c) = [NoChoice EXCEPT !.mode = IF c.mode = "none" THEN "NONE" ELSE "ANY"]
        /\ c.names = <<>>
    BY <1>2, UnsetWord DEF AnthropicChoice, Naming
  <2> QED BY <1>2, <2>1, NoChoiceShape DEF SameChoice, ChoiceFields
<1>3. CASE c.mode = "tool"
  <2>1. AnthropicChoice(c) = [c EXCEPT !.mode = "ANY"]
    BY <1>3, UnsetWord DEF AnthropicChoice
  <2> DEFINE d == AnthropicChoice(c)
  <2>2. d.mode = "ANY" /\ d.names = c.names /\ DOMAIN d = DOMAIN c
    BY <2>1 DEF ChoiceFields
  <2> HIDE DEF d
  <2>3. SameChoice(c, d) /\ ChoiceFields(d)
    BY <1>3, <2>2 DEF SameChoice, ChoiceFields
  <2> QED BY <2>3 DEF d
<1>4. CASE c.mode \notin {Unset, "auto", "none", "any", "tool"}
  <2>1. AnthropicChoice(c) = c
    BY <1>4 DEF AnthropicChoice
  <2> QED BY <2>1 DEF SameChoice
<1> QED BY <1>1, <1>2, <1>3, <1>4

\* Those of Anthropic.
LEMMA AnthropicOptions ==
    ASSUME NEW o, Fields(o), Naming(o.choice, {"tool"}), OptionsFromAnthropic(o).ok
    PROVE  Translates(o, OptionsFromAnthropic(o).options)
<1> DEFINE n == [o EXCEPT !.choice = AnthropicChoice(@),
                          !.format = IF @ = "json_schema" THEN "schema" ELSE Unset]
<1>1. /\ ~o.beyond /\ o.format \in {Unset, "json_schema"} /\ ValidChoice(n)
      /\ OptionsFromAnthropic(o).options = n
  BY AcceptedIf DEF OptionsFromAnthropic, KnownFields
<1>2. /\ n.choice = AnthropicChoice(o.choice) /\ DOMAIN n = DOMAIN o
      /\ n.format = IF o.format = "json_schema" THEN "schema" ELSE Unset
      /\ n.tools = o.tools /\ n.max = o.max /\ n.stop = o.stop /\ n.reasoning = o.reasoning
  BY DEF Fields
<1> HIDE DEF n
<1>3. ChoiceFields(n.choice) /\ SameChoice(o.choice, n.choice)
  BY <1>1, <1>2, AnthropicChoiceMeans DEF Fields, ValidChoice
<1>4. FormatOf(n) = FormatOf(o)
  BY <1>1, <1>2, UnsetWord DEF FormatOf
<1>5. Fields(n)
  BY <1>2, <1>3 DEF Fields
<1>6. Alike(o, n)
  BY <1>2, <1>3, <1>4, SameChoices DEF Alike
<1> QED BY <1>1, <1>5, <1>6 DEF Translates

\* Those of Gemini, whose choice is canonical but for what is left out.
LEMMA GeminiOptions ==
    ASSUME NEW o, Fields(o), Naming(o.choice, {"AUTO", "NONE", "ANY"}), OptionsFromGemini(o).ok
    PROVE  Translates(o, OptionsFromGemini(o).options)
<1> DEFINE n == [o EXCEPT !.choice = GeminiChoice(@)]
           c == o.choice
<1>1. ~o.beyond /\ OptionsFromGemini(o).options = n
  BY AcceptedIf DEF OptionsFromGemini, KnownFields
<1>2. /\ n.choice = GeminiChoice(c) /\ DOMAIN n = DOMAIN o /\ n.format = o.format
      /\ n.tools = o.tools /\ n.max = o.max /\ n.stop = o.stop /\ n.reasoning = o.reasoning
  BY DEF Fields
<1>3. ChoiceFields(GeminiChoice(c)) /\ SameChoice(c, GeminiChoice(c))
  <2>0. ChoiceFields(c)
    BY DEF Fields
  <2>1. CASE c.mode = Unset \/ (c.mode = "AUTO" /\ c.names = <<>>)
    <3>1. GeminiChoice(c) = NoChoice /\ c.names = <<>>
      BY <2>1, UnsetWord DEF GeminiChoice, Naming
    <3> QED BY <2>1, <3>1, UnsetWord, NoChoiceShape DEF SameChoice
  <2>2. CASE c.mode = "NONE"
    <3>1. GeminiChoice(c) = [NoChoice EXCEPT !.mode = "NONE"]
      BY <2>2, UnsetWord DEF GeminiChoice
    <3> QED BY <2>2, <3>1, NoChoiceShape DEF SameChoice, ChoiceFields
  <2>3. CASE ~(c.mode = Unset \/ (c.mode = "AUTO" /\ c.names = <<>>)) /\ c.mode # "NONE"
    <3>1. GeminiChoice(c) = c
      BY <2>3 DEF GeminiChoice
    <3> QED BY <2>0, <3>1 DEF SameChoice
  <2> QED BY <2>1, <2>2, <2>3
<1> HIDE DEF n
<1>4. FormatOf(n) = FormatOf(o)
  BY <1>2 DEF FormatOf
<1>5. Fields(n)
  BY <1>2, <1>3 DEF Fields
<1>6. Alike(o, n)
  BY <1>2, <1>3, <1>4, SameChoices DEF Alike
<1> QED BY <1>1, <1>5, <1>6 DEF Translates

\* Whatever protocol the client speaks, what is accepted means what it asked for.
LEMMA InboundMeans ==
    ASSUME NEW p \in Protocols, NEW o, Fields(o), Naming(o.choice, NamingWords(p)),
           InboundOptions(p, o).ok
    PROVE  Translates(o, InboundOptions(p, o).options)
<1>1. CASE p = Chat
  BY <1>1, ChatOptions DEF InboundOptions, NamingWords, Chat, Responses, Anthropic, Gemini
<1>2. CASE p = Responses
  BY <1>2, ResponsesOptions DEF InboundOptions, NamingWords, Chat, Responses, Anthropic, Gemini
<1>3. CASE p = Anthropic
  BY <1>3, AnthropicOptions DEF InboundOptions, NamingWords, Chat, Responses, Anthropic, Gemini
<1>4. CASE p = Gemini
  BY <1>4, GeminiOptions DEF InboundOptions, NamingWords, Chat, Responses, Anthropic, Gemini
<1> QED BY <1>1, <1>2, <1>3, <1>4 DEF Protocols

\* What is given to a provider keeps what was asked for.
Serves(o, n, p) ==
    /\ SameCalls(o, n) /\ FormatOf(n) = FormatOf(o)
    /\ o.max # 0 => n.max = o.max
    /\ p # Responses => n.stop = o.stop
    /\ SameReasoning(o.reasoning, n.reasoning, p)

\* A canonical choice means the same in OpenAI's words.
LEMMA ChoiceToOpenAIMeans ==
    ASSUME NEW c, ChoiceFields(c), c.mode \in {Unset, "AUTO", "NONE", "ANY"}
    PROVE  SameChoice(c, ChoiceToOpenAI(c))
<1> DEFINE d == ChoiceToOpenAI(c)
<1>1. d.names = c.names
  BY DEF ChoiceToOpenAI, ChoiceFields
<1>2. CASE c.mode = Unset
  <2>1. d.mode = Unset
    BY <1>2 DEF ChoiceToOpenAI, ChoiceFields
  <2> QED BY <1>1, <1>2, <2>1 DEF SameChoice
<1>3. CASE c.mode = "NONE"
  <2>1. d.mode = "none"
    BY <1>3, UnsetWord DEF ChoiceToOpenAI, ChoiceFields
  <2> QED BY <1>1, <1>3, <2>1 DEF SameChoice
<1>4. CASE c.mode = "AUTO"
  <2>1. d.mode \in {"auto", "allowed auto"}
    BY <1>4, UnsetWord DEF ChoiceToOpenAI, ChoiceFields
  <2> QED BY <1>1, <1>4, <2>1 DEF SameChoice
<1>5. CASE c.mode = "ANY"
  <2>1. d.mode \in {"required", "function", "allowed required"}
    BY <1>5, UnsetWord DEF ChoiceToOpenAI, ChoiceFields
  <2> QED BY <1>1, <1>5, <2>1 DEF SameChoice
<1> QED BY <1>2, <1>3, <1>4, <1>5

\* So does a format, those that are passed on included.
LEMMA FormatToOpenAIMeans ==
    ASSUME NEW o, NEW n, n.format = FormatToOpenAI(o.format)
    PROVE  FormatOf(n) = FormatOf(o)
<1>1. CASE o.format \in {"json", "schema"}
  BY <1>1, UnsetWord DEF FormatToOpenAI, FormatOf
<1>2. CASE o.format \notin {"json", "schema"}
  <2>1. n.format = o.format
    BY <1>2 DEF FormatToOpenAI
  <2> QED BY <2>1 DEF FormatOf
<1> QED BY <1>1, <1>2

\* No reasoning has no budget.
LEMMA NoReasoningShape ==
    DOMAIN NoReasoning = {"mode", "effort", "budget", "thoughts", "summary"}
    /\ NoReasoning.budget = NoBudget
BY DEF NoReasoning

\* A budget becomes an effort, unless there is one already or it is 0.
LEMMA BudgetMeans ==
    ASSUME NEW r, DOMAIN r = {"mode", "effort", "budget", "thoughts", "summary"},
           r.budget \in Nat \union {NoBudget}, NEW n, n.budget = NoBudget,
           n.effort = BudgetAsEffort(r).effort, NEW p, p # Anthropic
    PROVE  SameReasoning(r, n, p)
<1>1. CASE r.budget = NoBudget
  <2>1. n.effort = r.effort /\ ~(r.budget > 0)
    BY <1>1 DEF BudgetAsEffort, NoBudget
  <2> QED BY <1>1, <2>1 DEF SameReasoning
<1>2. CASE r.budget = 0
  <2>1. n.effort = r.effort /\ ~(r.budget > 0)
    BY <1>2 DEF BudgetAsEffort, NoBudget
  <2> QED BY <1>2, <2>1 DEF SameReasoning
<1>3. CASE r.budget > 0
  <2>1. r.budget # NoBudget /\ r.budget # 0
    BY <1>3 DEF NoBudget
  <2>2. \/ n.effort = r.effort /\ r.effort # Unset
        \/ n.effort \in {"minimal", "low", "medium", "high"}
    BY <2>1 DEF BudgetAsEffort
  <2> QED BY <1>3, <2>2, UnsetWord DEF SameReasoning
<1> QED BY <1>1, <1>2, <1>3 DEF NoBudget

\* What each provider is given.
LEMMA ToChatKeeps ==
    ASSUME NEW o, Fields(o), OptionsToChat(o).ok
    PROVE  Serves(o, OptionsToChat(o).options, Chat)
<1> DEFINE r == BudgetAsEffort(o.reasoning)
           n == [o EXCEPT !.choice = ChoiceToOpenAI(@), !.format = FormatToOpenAI(@),
                          !.reasoning = [NoReasoning EXCEPT !.effort = r.effort]]
<1>1. ValidChoice(o) /\ OptionsToChat(o).options = n
  BY AcceptedIf DEF OptionsToChat
<1> HIDE DEF r
<1>2. /\ n.choice = ChoiceToOpenAI(o.choice) /\ n.format = FormatToOpenAI(o.format)
      /\ n.reasoning = [NoReasoning EXCEPT !.effort = r.effort]
      /\ n.tools = o.tools /\ n.max = o.max /\ n.stop = o.stop
  BY DEF Fields
<1> HIDE DEF n
<1>3. SameCalls(o, n)
  BY <1>1, <1>2, ChoiceToOpenAIMeans, SameChoices DEF Fields, ValidChoice
<1>4. n.reasoning.budget = NoBudget /\ n.reasoning.effort = r.effort
  BY <1>2, NoReasoningShape
<1>5. SameReasoning(o.reasoning, n.reasoning, Chat)
  BY <1>4, BudgetMeans DEF Fields, r, Chat, Anthropic
<1> QED BY <1>1, <1>2, <1>3, <1>5, FormatToOpenAIMeans DEF Serves

\* Responses is not told where to stop.
LEMMA ToResponsesKeeps ==
    ASSUME NEW o, Fields(o), OptionsToResponses(o).ok
    PROVE  Serves(o, OptionsToResponses(o).options, Responses)
<1> DEFINE r == BudgetAsEffort(o.reasoning)
           summary == IF r.summary = Unset /\ r.thoughts = "yes" THEN "auto" ELSE r.summary
           n == [o EXCEPT !.choice = ChoiceToOpenAI(@), !.format = FormatToOpenAI(@),
                          !.stop = FALSE,
                          !.reasoning = [NoReasoning EXCEPT !.effort = r.effort,
                                                            !.summary = summary]]
<1>1. ValidChoice(o) /\ OptionsToResponses(o).options = n
  BY AcceptedIf DEF OptionsToResponses
<1> HIDE DEF r, summary
<1>2. /\ n.choice = ChoiceToOpenAI(o.choice) /\ n.format = FormatToOpenAI(o.format)
      /\ n.reasoning = [NoReasoning EXCEPT !.effort = r.effort, !.summary = summary]
      /\ n.tools = o.tools /\ n.max = o.max
  BY DEF Fields
<1> HIDE DEF n
<1>3. SameCalls(o, n)
  BY <1>1, <1>2, ChoiceToOpenAIMeans, SameChoices DEF Fields, ValidChoice
<1>4. n.reasoning.budget = NoBudget /\ n.reasoning.effort = r.effort
  BY <1>2, NoReasoningShape
<1>5. SameReasoning(o.reasoning, n.reasoning, Responses)
  BY <1>4, BudgetMeans DEF Fields, r, Responses, Anthropic
<1> QED BY <1>1, <1>2, <1>3, <1>5, FormatToOpenAIMeans DEF Serves

\* Anthropic has no subsets, and one length for want of any.
LEMMA ToAnthropicKeeps ==
    ASSUME NEW o, Fields(o), NEW max, OptionsToAnthropic(o, max).ok
    PROVE  Serves(o, OptionsToAnthropic(o, max).options, Anthropic)
<1> DEFINE c == o.choice
           d == ChoiceToAnthropic(c)
           most == IF o.max # 0 THEN o.max ELSE IF max > 0 THEN max ELSE DefaultMax
           n == [o EXCEPT !.choice = ChoiceToAnthropic(@),
                          !.format = IF @ = Unset THEN Unset ELSE "json_schema",
                          !.reasoning = Thinking(@),
                          !.max = IF @ # 0 THEN @ ELSE IF max > 0 THEN max ELSE DefaultMax]
<1>1. /\ ValidChoice(o) /\ o.format \in {Unset, "schema"}
      /\ OptionsToAnthropic(o, max).options = n
  BY AcceptedIf DEF OptionsToAnthropic
<1>2. /\ n.choice = d /\ n.format = IF o.format = Unset THEN Unset ELSE "json_schema"
      /\ n.reasoning = Thinking(o.reasoning)
      /\ n.tools = o.tools /\ n.max = most /\ n.stop = o.stop
  BY DEF Fields
<1> HIDE DEF n
<1>3. SameChoice(c, d)
  <2>0. ChoiceFields(c) /\ c.mode \in {Unset, "AUTO", "NONE", "ANY"}
    BY <1>1 DEF Fields, ValidChoice
  <2>1. d.names = c.names
    BY <2>0 DEF ChoiceToAnthropic, ChoiceFields
  <2>2. CASE c.mode = Unset
    <3>1. d = c
      BY <2>2, UnsetWord DEF ChoiceToAnthropic
    <3> QED BY <3>1 DEF SameChoice
  <2>3. CASE c.mode = "NONE"
    <3>1. d.mode = "none"
      BY <2>0, <2>3 DEF ChoiceToAnthropic, ChoiceFields
    <3> QED BY <2>1, <2>3, <3>1 DEF SameChoice
  <2>4. CASE c.mode = "AUTO"
    <3>1. d.mode = "auto"
      BY <2>0, <2>4 DEF ChoiceToAnthropic, ChoiceFields
    <3> QED BY <2>1, <2>4, <3>1 DEF SameChoice
  <2>5. CASE c.mode = "ANY"
    <3>1. d.mode \in {"any", "tool"}
      BY <2>0, <2>5 DEF ChoiceToAnthropic, ChoiceFields
    <3> QED BY <2>1, <2>5, <3>1 DEF SameChoice
  <2> QED BY <2>0, <2>2, <2>3, <2>4, <2>5
<1> HIDE DEF d
<1>4. SameCalls(o, n)
  BY <1>2, <1>3, SameChoices
<1>5. FormatOf(n) = FormatOf(o)
  BY <1>1, <1>2, UnsetWord DEF FormatOf
<1>6. n.reasoning.budget = o.reasoning.budget /\ n.reasoning.effort = o.reasoning.effort
  BY <1>2 DEF Thinking, Fields
<1>7. SameReasoning(o.reasoning, n.reasoning, Anthropic)
  BY <1>6 DEF SameReasoning
<1>8. o.max # 0 => n.max = o.max
  BY <1>2
<1> QED BY <1>1, <1>2, <1>4, <1>5, <1>7, <1>8 DEF Serves

\* Gemini is given the choice as it is, and no budget.
LEMMA ToGeminiKeeps ==
    ASSUME NEW o, Fields(o), NEW from, NEW model, OptionsToGemini(o, from, model).ok
    PROVE  Serves(o, OptionsToGemini(o, from, model).options, Gemini)
<1> DEFINE q == o.reasoning
           r == IF from \in {Chat, Responses} THEN Level(q, model) ELSE q
           seen == IF r.thoughts = Unset THEN "yes" ELSE r.thoughts
           n == [o EXCEPT !.reasoning = [NoReasoning EXCEPT !.effort = r.effort,
                                                            !.thoughts = seen]]
<1>1. r.budget = NoBudget /\ OptionsToGemini(o, from, model).options = n
  BY AcceptedIf DEF OptionsToGemini
<1>2. r.budget = q.budget /\ (r.effort = q.effort \/ (q.effort = "minimal" /\ r.effort = "low"))
  BY DEF Level, Fields
<1> HIDE DEF r, seen
<1>3. /\ n.choice = o.choice /\ n.format = o.format /\ n.tools = o.tools /\ n.max = o.max
      /\ n.stop = o.stop
      /\ n.reasoning = [NoReasoning EXCEPT !.effort = r.effort, !.thoughts = seen]
  BY DEF Fields
<1> HIDE DEF n
<1>4. n.reasoning.budget = NoBudget /\ n.reasoning.effort = r.effort
  BY <1>3, NoReasoningShape
<1>5. SameReasoning(q, n.reasoning, Gemini)
  BY <1>1, <1>2, <1>4 DEF SameReasoning, NoBudget
<1>6. MayCall(n) = MayCall(o) /\ (MustCall(n) <=> MustCall(o)) /\ FormatOf(n) = FormatOf(o)
  BY <1>3 DEF MayCall, MustCall, FormatOf
<1> QED BY <1>1, <1>3, <1>5, <1>6 DEF Serves, SameCalls

\* Whatever protocol the provider speaks, what it is given keeps what was asked.
LEMMA OutboundMeans ==
    ASSUME NEW t, t.protocol \in Protocols, NEW from, NEW o, Fields(o),
           OutboundOptions(t, from, o).ok
    PROVE  Serves(o, OutboundOptions(t, from, o).options, t.protocol)
<1>1. CASE t.protocol = Chat
  BY <1>1, ToChatKeeps DEF OutboundOptions, Chat, Responses, Anthropic, Gemini
<1>2. CASE t.protocol = Responses
  BY <1>2, ToResponsesKeeps DEF OutboundOptions, Chat, Responses, Anthropic, Gemini
<1>3. CASE t.protocol = Anthropic
  BY <1>3, ToAnthropicKeeps DEF OutboundOptions, Chat, Responses, Anthropic, Gemini
<1>4. CASE t.protocol = Gemini
  BY <1>4, ToGeminiKeeps DEF OutboundOptions, Chat, Responses, Anthropic, Gemini
<1> QED BY <1>1, <1>2, <1>3, <1>4 DEF Protocols

\* What is kept of what a from asked for.
Honoured(a, n, p) ==
    /\ ~a.beyond
    /\ MayCall(n) = MayCall(a) /\ (MustCall(n) <=> MustCall(a))
    /\ FormatOf(n) = FormatOf(a)
    /\ a.max # 0 => n.max = a.max
    /\ p # Responses => n.stop = a.stop
    /\ SameReasoning(a.reasoning, n.reasoning, p)

\* Both conversions together.
LEMMA KeptThrough ==
    ASSUME NEW a, NEW o, NEW n, NEW p, Translates(a, o), Serves(o, n, p)
    PROVE  Honoured(a, n, p)
<1>1. SameReasoning(a.reasoning, n.reasoning, p)
  BY DEF Translates, Serves, Alike, SameReasoning
<1> QED BY <1>1 DEF Translates, Serves, Alike, SameCalls, Honoured

-----------------------------------------------------------------------------
(* The targets of a route                                                  *)

\* What was sent to a target that speaks another protocol keeps what was asked.
SentRight(asked, e) ==
    e.ok /\ e.target.protocol # ask.client =>
        Honoured(asked.options, e.options, e.target.protocol)

\* A way to prepare the targets so far: all is sent right, from the same options.
Going(w, asked, o) ==
    /\ DOMAIN w = {"sent", "memory", "canonical"} /\ w.canonical.options = o
    /\ Lst(w.sent) /\ \A i \in DOMAIN w.sent : SentRight(asked, w.sent[i])

AllGoing(ways, asked, o) == \A w \in ways : Going(w, asked, o)

\* The two folds of Handled, by name, with what was asked and made of it.
RouteStep(p, x, t) ==
    IF p[1] = "prepare" THEN UNION {Prepare(w, t, p[2], p[3], p[4]) : w \in x}
    ELSE IF t.protocol = ask.client THEN AsIs(x, t, p[2])
    ELSE [x EXCEPT !.sent = Append(@, Unprepared(t))]

RouteKept(p, x) ==
    IF p[1] = "prepare" THEN \A w \in x : Going(w, p[2], p[5]) ELSE Going(x, p[2], p[5])

Route == INSTANCE LeftFolds WITH Op <- RouteStep, Good <- RouteKept

\* One more entry keeps a way so.
LEMMA SendingMore ==
    ASSUME NEW w, NEW asked, NEW o, Going(w, asked, o), NEW e, SentRight(asked, e),
           NEW v, DOMAIN v = {"sent", "memory", "canonical"}, v.canonical = w.canonical,
           v.sent = Append(w.sent, e)
    PROVE  Going(v, asked, o)
<1>1. /\ Lst(v.sent)
      /\ \A i \in DOMAIN v.sent : v.sent[i] = e \/ \E j \in DOMAIN w.sent : v.sent[i] = w.sent[j]
  BY ListAppend DEF Going
<1> QED BY <1>1 DEF Going

\* A target of the client's protocol adds nothing converted.
LEMMA AsIsRight ==
    ASSUME NEW w, NEW asked, NEW o, Going(w, asked, o), NEW t, t.protocol = ask.client
    PROVE  Going(AsIs(w, t, asked), asked, o)
<1> DEFINE e == [target |-> t, ok |-> TRUE, messages |-> asked.messages, system |-> None,
                 options |-> asked.options]
<1>1. SentRight(asked, e)
  BY DEF SentRight
<1>2. AsIs(w, t, asked) = [w EXCEPT !.sent = Append(@, e)]
  BY DEF AsIs
<1> HIDE DEF e
<1> DEFINE v == AsIs(w, t, asked)
<1>3. DOMAIN v = {"sent", "memory", "canonical"} /\ v.canonical = w.canonical
      /\ v.sent = Append(w.sent, e)
  BY <1>2 DEF Going
<1> HIDE DEF v
<1>4. Going(v, asked, o)
  BY <1>1, <1>3, SendingMore
<1> QED BY <1>4 DEF v

\* Nor does one that is passed over.
LEMMA UnpreparedRight ==
    ASSUME NEW w, NEW asked, NEW o, Going(w, asked, o), NEW t
    PROVE  Going([w EXCEPT !.sent = Append(@, Unprepared(t))], asked, o)
<1> DEFINE e == Unprepared(t)
           v == [w EXCEPT !.sent = Append(@, e)]
<1>1. SentRight(asked, e)
  BY DEF SentRight, Unprepared
<1> HIDE DEF e
<1>3. DOMAIN v = {"sent", "memory", "canonical"} /\ v.canonical = w.canonical
      /\ v.sent = Append(w.sent, e)
  BY DEF Going
<1> HIDE DEF v
<1>4. Going(v, asked, o)
  BY <1>1, <1>3, SendingMore
<1> QED BY <1>4 DEF v, e

\* What is converted is right, and leaves the canonical request as it was.
LEMMA ConvertedRight ==
    ASSUME NEW w, NEW asked, NEW o, Going(w, asked, o), Translates(asked.options, o),
           NEW t, t.protocol \in Protocols, NEW signed
    PROVE  Going(Converted(w, t, signed), asked, o)
<1> DEFINE m == Outbound(t.protocol, signed.messages)
           n == OutboundOptions(t, ask.client, w.canonical.options)
           e == IF ~(m.ok /\ n.ok) THEN Unprepared(t)
                ELSE [target |-> t, ok |-> TRUE, messages |-> m.messages,
                      system |-> m.system, options |-> n.options]
           v == Converted(w, t, signed)
<1>1. w.canonical.options = o
  BY DEF Going
<1>2. n.ok => Honoured(asked.options, n.options, t.protocol)
  <2>1. n.ok => Serves(o, n.options, t.protocol)
    BY <1>1, OutboundMeans DEF Translates
  <2> HIDE DEF n
  <2> QED BY <2>1, KeptThrough
<1>3. /\ v.sent = Append(w.sent, e) /\ v.canonical = w.canonical
      /\ DOMAIN v = {"sent", "memory", "canonical"}
  BY DEF Converted, AfterPreparing
<1> HIDE DEF m, n
<1>4. SentRight(asked, e)
  BY <1>2 DEF SentRight, Unprepared
<1> HIDE DEF e, v
<1>5. Going(v, asked, o)
  BY <1>3, <1>4, SendingMore
<1> QED BY <1>5 DEF v

\* So every way to prepare a target keeps it.
LEMMA PrepareRight ==
    ASSUME NEW w, NEW asked, NEW o, Going(w, asked, o), Translates(asked.options, o),
           NEW t, t.protocol \in Protocols, NEW replica, NEW reachable,
           NEW v \in Prepare(w, t, asked, replica, reachable)
    PROVE  Going(v, asked, o)
<1> DEFINE unsigned == [messages |-> w.canonical.messages, memory |-> w.memory]
           S == SignMessages(w.memory, replica, w.canonical.messages, reachable)
<1>1. CASE t.protocol = ask.client
  BY <1>1, AsIsRight DEF Prepare
<1>2. CASE t.protocol # ask.client
  <2>1. v = Converted(w, t, unsigned) \/ \E s \in S : v = Converted(w, t, s)
    BY <1>2 DEF Prepare
  <2> HIDE DEF unsigned, S
  <2> QED BY <2>1, ConvertedRight
<1> QED BY <1>1, <1>2

\* What Handled folds.
PreparedAlong(first, route, asked, replica, reachable) ==
    FoldLeft(LAMBDA ways, t : UNION {Prepare(w, t, asked, replica, reachable) : w \in ways},
             {first}, route)

\* A route, along which ways are prepared: a fold.
LEMMA RoutePrepared ==
    ASSUME NEW route, Lst(route), \A i \in DOMAIN route : route[i].protocol \in Protocols,
           NEW asked, NEW o, Translates(asked.options, o), NEW replica, NEW reachable,
           NEW first, Going(first, asked, o)
    PROVE  AllGoing(PreparedAlong(first, route, asked, replica, reachable), asked, o)
<1> DEFINE p == <<"prepare", asked, replica, reachable, o>>
           D == DOMAIN route
           b == {first}
           Turned(x, t) == UNION {Prepare(w, t, asked, replica, reachable) : w \in x}
           Value(k, T) == IF T = {} THEN b
                          ELSE Turned(k[T \ {Route!LastOf(T)}], route[Route!LastOf(T)])
           k == CHOOSE k : k = [T \in SUBSET D |-> Value(k, T)]
<1>1. D = 1..Len(route) /\ Len(route) \in Nat
  BY ListDomain
<1>2. /\ \A x, t : RouteStep(p, x, t) = Turned(x, t)
      /\ \A x : RouteKept(p, x) <=> \A w \in x : Going(w, asked, o)
  BY DEF RouteStep, RouteKept
<1>3. PreparedAlong(first, route, asked, replica, reachable) = k[D]
  BY DEF PreparedAlong, FoldLeft, MapThenFoldSet, Max, Route!LastOf
<1> HIDE DEF p, D
<1>4. \A l : Route!Recurs(l, D, p, b, route) <=> l = [T \in SUBSET D |-> Value(l, T)]
  <2> HIDE DEF Turned
  <2> QED BY <1>2 DEF Route!Recurs
<1>5. \E l : Route!Recurs(l, D, p, b, route)
  BY <1>1, Route!RecursionExists DEF D
<1>6. Route!Recurs(k, D, p, b, route)
  <2> HIDE DEF Value
  <2> QED BY <1>4, <1>5
<1> HIDE DEF k
<1>7. ASSUME NEW x, NEW i \in D, RouteKept(p, x) PROVE RouteKept(p, RouteStep(p, x, route[i]))
  <2>1. route[i].protocol \in Protocols /\ \A w \in x : Going(w, asked, o)
    BY <1>2, <1>7 DEF D
  <2>2. ASSUME NEW v \in Turned(x, route[i]) PROVE Going(v, asked, o)
    <3>1. PICK w \in x : v \in Prepare(w, route[i], asked, replica, reachable)
      BY <2>2
    <3> QED BY <2>1, <3>1, PrepareRight
  <2> HIDE DEF Turned
  <2> QED BY <1>2, <2>2
<1>8. RouteKept(p, b)
  BY <1>2
<1> HIDE DEF b
<1>9. RouteKept(p, k[D])
  BY <1>1, <1>6, <1>7, <1>8, Route!FoldKeeps DEF D
<1> QED BY <1>2, <1>3, <1>9 DEF AllGoing

\* A route, along which only targets of the client's protocol are prepared: a fold.
LEMMA RoutePassed ==
    ASSUME NEW route, Lst(route), NEW asked, NEW o, NEW first, Going(first, asked, o),
           NEW passed,
           passed = FoldLeft(LAMBDA w, t : IF t.protocol = ask.client THEN AsIs(w, t, asked)
                                           ELSE [w EXCEPT !.sent = Append(@, Unprepared(t))],
                             first, route)
    PROVE  Going(passed, asked, o)
<1> DEFINE p == <<"pass", asked, 0, 0, o>>
           D == DOMAIN route
           Turned(x, t) == IF t.protocol = ask.client THEN AsIs(x, t, asked)
                          ELSE [x EXCEPT !.sent = Append(@, Unprepared(t))]
           Value(k, T) == IF T = {} THEN first
                          ELSE Turned(k[T \ {Route!LastOf(T)}], route[Route!LastOf(T)])
           k == CHOOSE k : k = [T \in SUBSET D |-> Value(k, T)]
<1>1. D = 1..Len(route) /\ Len(route) \in Nat
  BY ListDomain
<1>2. /\ \A x, t : RouteStep(p, x, t) = Turned(x, t)
      /\ \A x : RouteKept(p, x) <=> Going(x, asked, o)
  BY DEF RouteStep, RouteKept
<1>3. passed = k[D]
  BY DEF FoldLeft, MapThenFoldSet, Max, Route!LastOf
<1> HIDE DEF p, D
<1>4. \A l : Route!Recurs(l, D, p, first, route) <=> l = [T \in SUBSET D |-> Value(l, T)]
  <2> HIDE DEF Turned
  <2> QED BY <1>2 DEF Route!Recurs
<1>5. \E l : Route!Recurs(l, D, p, first, route)
  BY <1>1, Route!RecursionExists DEF D
<1>6. Route!Recurs(k, D, p, first, route)
  <2> HIDE DEF Value
  <2> QED BY <1>4, <1>5
<1> HIDE DEF k
<1>7. ASSUME NEW x, NEW i \in D, RouteKept(p, x) PROVE RouteKept(p, RouteStep(p, x, route[i]))
  <2>1. Going(x, asked, o)
    BY <1>2, <1>7
  <2>2. Going(Turned(x, route[i]), asked, o)
    BY <2>1, AsIsRight, UnpreparedRight
  <2> HIDE DEF Turned
  <2> QED BY <1>2, <2>2
<1>8. RouteKept(p, first)
  BY <1>2
<1>9. RouteKept(p, k[D])
  BY <1>1, <1>6, <1>7, <1>8, Route!FoldKeeps DEF D
<1> QED BY <1>2, <1>3, <1>9

\* However a request goes on its way, all that is sent keeps what was asked.
LEMMA HandledRight ==
    ASSUME NEW route, Lst(route), \A i \in DOMAIN route : route[i].protocol \in Protocols,
           ask.client \in Protocols, NEW asked, Fields(asked.options),
           Naming(asked.options.choice, NamingWords(ask.client)), NEW replica, NEW reachable,
           NEW way \in Handled(route, asked, replica, reachable)
    PROVE  Lst(way.sent) /\ \A i \in DOMAIN way.sent : SentRight(asked, way.sent[i])
<1> DEFINE m == Inbound(ask.client, asked.messages)
           o == InboundOptions(ask.client, asked.options)
           first == [sent |-> <<>>, memory |-> memory,
                     canonical |-> [messages |-> m.messages, options |-> o.options]]
           Raw(w, t) == IF t.protocol = ask.client THEN AsIs(w, t, asked)
                        ELSE [w EXCEPT !.sent = Append(@, Unprepared(t))]
           prepared == PreparedAlong(first, route, asked, replica, reachable)
           passed == FoldLeft(LAMBDA w, t : IF t.protocol = ask.client THEN AsIs(w, t, asked)
                                            ELSE [w EXCEPT !.sent = Append(@, Unprepared(t))],
                              first, route)
<1>1. way \in IF m.ok /\ o.ok THEN prepared ELSE {passed}
  BY DEF Handled, PreparedAlong
<1>2. o.ok => Translates(asked.options, o.options)
  BY InboundMeans
<1>3. Going(first, asked, o.options)
  BY EmptyList DEF Going
<1>4. o.ok => AllGoing(prepared, asked, o.options)
  <2> HIDE DEF o, first
  <2> QED BY <1>2, <1>3, RoutePrepared
<1>5. Going(passed, asked, o.options)
  <2> HIDE DEF o, first
  <2> QED BY <1>3, RoutePassed
<1> HIDE DEF m, o, prepared, passed
<1>6. Going(way, asked, o.options)
  BY <1>1, <1>4, <1>5 DEF AllGoing
<1> QED BY <1>6 DEF Going

\* What was sent last, once something was, keeps what was asked.
SentInv ==
    followUp # NoFollowUp =>
        /\ Lst(followUp.sent)
        /\ \A i \in DOMAIN followUp.sent : SentRight(followUp.asked, followUp.sent[i])

\* Every step keeps it: Continue is the only one to send, and asks change in none.
LEMMA SentNext == SuccessInv /\ SentInv /\ [ConversationNext]_conversationVars => SentInv'
<1> SUFFICES ASSUME SuccessInv, SentInv, [ConversationNext]_conversationVars PROVE SentInv'
  OBVIOUS
<1>1. ASSUME UNCHANGED <<ask, followUp>> PROVE SentInv'
  BY <1>1 DEF SentInv, SentRight
<1>2. CASE Continue
  <2>1. ask' = ask /\ followUp = NoFollowUp
    BY <1>2 DEF Continue, Between
  <2>2. PICK calls \in {Len(ToldCalls)}, question \in Questions, options \in OptionsOf[ask.client] :
           /\ AsksFor(calls, question, options)
           /\ \E how \in Manners, replica \in Replicas, reachable \in BOOLEAN :
                 /\ GoesOn(calls, how, replica, reachable)
                 /\ LET asked == [messages |-> History(how, question), options |-> options]
                    IN \E route \in Routes :
                       \E way \in Handled(route, asked, replica, reachable) :
                          /\ memory' = way.memory
                          /\ followUp' = [asked |-> asked, how |-> how,
                                          plain |-> Plain(question, options),
                                          replica |-> replica, reachable |-> reachable,
                                          sent |-> way.sent]
    BY <1>2 DEF Continue
  <2>3. PICK how \in Manners, replica \in Replicas, reachable \in BOOLEAN :
           LET asked == [messages |-> History(how, question), options |-> options]
           IN \E route \in Routes : \E way \in Handled(route, asked, replica, reachable) :
                 followUp' = [asked |-> asked, how |-> how, plain |-> Plain(question, options),
                              replica |-> replica, reachable |-> reachable, sent |-> way.sent]
    BY <2>2
  <2> DEFINE asked == [messages |-> History(how, question), options |-> options]
  <2>4. PICK route \in Routes : \E way \in Handled(route, asked, replica, reachable) :
             followUp'.asked = asked /\ followUp'.sent = way.sent
    BY <2>3
  <2>5. PICK way \in Handled(route, asked, replica, reachable) :
             followUp'.asked = asked /\ followUp'.sent = way.sent
    BY <2>4
  <2>6. Fields(asked.options) /\ Naming(asked.options.choice, NamingWords(ask.client))
    <3>1. options \in AllOptions /\ (options.choice.names # <<>> =>
                                       options.choice.mode \in NamingWords(ask.client))
      BY OptionsAssumption DEF SuccessInv
    <3>2. Fields(options)
      BY <3>1 DEF AllOptions, ToolChoices, Reasonings, Fields, ChoiceFields
    <3> QED BY <3>1, <3>2 DEF Naming
  <2>7. Lst(route) /\ \A i \in DOMAIN route : route[i].protocol \in Protocols
    <3> DEFINE T == [protocol : Protocols, model : STRING, max : Nat]
    <3>1. route \in Seq(T) /\ \A t \in T : t.protocol \in Protocols
      BY RoutesAssumption
    <3> HIDE DEF T
    <3>2. \A i \in DOMAIN route : route[i] \in T
      BY <3>1
    <3> QED BY <3>1, <3>2, ListOf
  <2> HIDE DEF asked
  <2>8. Lst(way.sent) /\ \A i \in DOMAIN way.sent : SentRight(asked, way.sent[i])
    BY <2>6, <2>7, HandledRight DEF SuccessInv
  <2> QED BY <2>1, <2>8, <2>5 DEF SentInv, SentRight
<1>3. CASE Restart \/ DayPasses
  BY <1>1, <1>3 DEF Restart, DayPasses
<1>4. CASE Answering
  <2>1. \A q : PassOn(q) => ask' = ask
    BY DEF PassOn
  <2>2. \A c : Deliver(c) => ask' = ask
    BY <2>1 DEF Deliver
  <2>3. Next => ask' = ask
    BY <2>1, <2>2 DEF Next, ChunkArrives, BadChunkArrives, BodyEnds, WholeArrives, AnswerRefused
  <2> QED BY <1>1, <1>4, <2>3 DEF Answering
<1>5. CASE UNCHANGED conversationVars
  BY <1>1, <1>5 DEF conversationVars, vars
<1> QED BY <1>2, <1>3, <1>4, <1>5 DEF ConversationNext

\* What a client may not do without is kept for every target of every route, or the
\* target is passed over: for any options, whatever was prepared before.
THEOREM OptionsKeptAlong == ConversationSpec => []OptionsKept
<1>1. ConversationInit => SuccessInv /\ SentInv
  BY UnfinishedInit DEF ConversationInit, SentInv
<1>2. SentInv => OptionsKept
  <2> SUFFICES ASSUME SentInv, NEW e \in Requests
               PROVE  Honoured(followUp.asked.options, e.options, e.target.protocol)
    BY DEF OptionsKept, Honoured
  <2>1. /\ followUp # NoFollowUp /\ e \in ToSet(followUp.sent)
        /\ e.ok /\ e.target.protocol # ask.client
    BY DEF Requests, Conversions, Conversed
  <2>2. PICK i \in DOMAIN followUp.sent : e = followUp.sent[i]
    BY <2>1 DEF ToSet
  <2> QED BY <2>1, <2>2 DEF SentInv, SentRight
<1> QED BY <1>1, <1>2, UnfinishedAlong, SentNext, PTL DEF ConversationSpec

-----------------------------------------------------------------------------
(* What is counted                                                         *)

\* A reader that has counted v.
Counted(v, r) == Reading("any", r) /\ "usage" \in DOMAIN r /\ r.usage = v

\* Events that count nothing, and events that count u.
Mute(s) == Lst(s) /\ \A i \in DOMAIN s : s[i].type # "usage"
Tells(u, s) ==
    /\ Lst(s) /\ \A i \in DOMAIN s : s[i].type = "usage" => s[i].usage = u
    /\ \E i \in DOMAIN s : s[i].type = "usage"

\* Folds of readers that have counted p[3][j] after j elements, and the joining
\* of mute lists.
CountKept(q, x) == IF q[1][1] = "join" THEN Mute(x) ELSE Counted(q[1][3][q[2]], x)
Counts == INSTANCE LeftFolds WITH Op <- Step, Good <- CountKept

\* An event does not count by itself.
LEMMA CountedEmit ==
    ASSUME NEW v, NEW r, NEW e, NEW cond, Counted(v, r)
    PROVE  Counted(v, Emit(r, e)) /\ Counted(v, EmitIf(cond, r, e))
<1>1. Reading("any", Emit(r, e))
  BY ReadingEmit DEF Counted
<1>2. "usage" \in DOMAIN Emit(r, e) /\ Emit(r, e).usage = v
  BY DEF Counted, Emit
<1>3. Counted(v, Emit(r, e))
  BY <1>1, <1>2 DEF Counted
<1> QED BY <1>3 DEF EmitIf

\* Nor does what is noted, nor an error.
LEMMA CountedOver ==
    ASSUME NEW v, NEW r, NEW what, NEW how \in {"break", "return"}, Counted(v, r)
    PROVE  Counted(v, See(r, what)) /\ Counted(v, Fail(r, how)) /\ Counted(v, Refuse(r))
<1>1. Reading("any", See(r, what)) /\ Reading("any", Fail(r, how)) /\ Reading("any", Refuse(r))
  BY ReadingSee, ReadingFail, ReadingRefuse DEF Counted
<1>2. "usage" \in DOMAIN See(r, what) /\ See(r, what).usage = v
  BY DEF Counted, See
<1>3. "usage" \in DOMAIN Refuse(r) /\ Refuse(r).usage = v
  BY DEF Counted, Refuse
<1>4. "usage" \in DOMAIN Fail(r, how) /\ Fail(r, how).usage = v
  BY CountedEmit DEF Counted, Fail
<1> QED BY <1>1, <1>2, <1>3, <1>4 DEF Counted

\* Nor do the steps of the tracker.
LEMMA CountedEnsure == ASSUME NEW v, NEW r, NEW e, Counted(v, r) PROVE Counted(v, Ensure(r, e))
<1>1. Reading("any", Ensure(r, e))
  BY ReadingEnsure DEF Counted
<1>2. "usage" \in DOMAIN Ensure(r, e) /\ Ensure(r, e).usage = v
  BY DEF Counted, Ensure
<1> QED BY <1>1, <1>2 DEF Counted

\* A call starts, grows or is done.
LEMMA CountedTool ==
    ASSUME NEW v, NEW r, NEW e, Counted(v, r)
    PROVE  Counted(v, StartTool(r, e)) /\ Counted(v, DeltaTool(r, e)) /\ Counted(v, DoneTool(r, e))
<1> DEFINE s == Ensure(r, e)
           t == s.states[e.index]
           args == FirstNonEmpty(e.args, t.args)
           more == [s EXCEPT !.states[e.index].args = @ \o e.delta]
           done == [s EXCEPT !.states[e.index].args = args, !.states[e.index].done = TRUE]
           start == CallStart(e.index, t.id, t.name, t.sig)
           grow == ArgumentsDelta(e.index, t.id, t.name, e.delta)
           end == CallDone(e.index, t.id, t.name, args, t.sig)
<1>1. Counted(v, s)
  BY CountedEnsure
<1>2. /\ StartTool(r, e) = EmitIf(~Tracked(r, e.index), s, start)
      /\ DeltaTool(r, e) = Emit(more, grow)
      /\ DoneTool(r, e) = IF t.done THEN s ELSE Emit(done, end)
  BY DEF StartTool, DeltaTool, DoneTool
<1> HIDE DEF s, t, args, start, grow, end
<1>3. Counted(v, more)
  BY <1>1 DEF Counted, Reading
<1>4. Counted(v, done)
  BY <1>1 DEF Counted, Reading
<1> HIDE DEF more, done
<1> QED BY <1>1, <1>2, <1>3, <1>4, CountedEmit

\* Nor does the end of all calls.
LEMMA CountedDoneAll ==
    ASSUME NEW v, NEW r, Counted(v, r)
    PROVE  Counted(v, DoneAll(r))
<1> DEFINE n == Len(r.order)
           p == <<"done", "", [j \in 0..n |-> v]>>
           D == DOMAIN r.order
           Value(k, T) == IF T = {} THEN r
                          ELSE DoneTool(k[T \ {Counts!LastOf(T)}],
                                        CallDone(r.order[Counts!LastOf(T)], None, None, None, None))
           k == CHOOSE k : k = [T \in SUBSET D |-> Value(k, T)]
<1>1. D = 1..n /\ n \in Nat
  BY ListDomain DEF Counted, Reading
<1>2. /\ \A x, y : Step(p, x, y) = DoneTool(x, CallDone(y, None, None, None, None))
      /\ \A x : \A j \in 0..n : CountKept(<<p, j>>, x) = Counted(v, x)
  BY DEF Step, CountKept
<1>3. DoneAll(r) = k[D]
  BY DEF DoneAll, FoldLeft, MapThenFoldSet, Max, Counts!LastOf
<1> HIDE DEF p, D, n
<1>4. \A l : Counts!Recurs(l, D, p, r, r.order) <=> l = [T \in SUBSET D |-> Value(l, T)]
  BY <1>2 DEF Counts!Recurs
<1>5. \E l : Counts!Recurs(l, D, p, r, r.order)
  BY <1>1, Counts!RecursionExists DEF D, n
<1>6. Counts!Recurs(k, D, p, r, r.order)
  <2> HIDE DEF Value
  <2> QED BY <1>4, <1>5
<1> HIDE DEF k
<1>7. ASSUME NEW j \in 1..n, NEW x, CountKept(<<p, j - 1>>, x)
      PROVE  CountKept(<<p, j>>, Step(p, x, r.order[j]))
  <2>1. j \in 0..n /\ j - 1 \in 0..n
    BY <1>1
  <2> QED BY <1>2, <1>7, <2>1, CountedTool
<1>8. CountKept(<<p, 0>>, r)
  BY <1>1, <1>2
<1>9. CountKept(<<p, n>>, k[1..n])
  BY <1>1, <1>6, <1>7, <1>8, Counts!FoldReaches
<1> QED BY <1>1, <1>2, <1>3, <1>9

\* Mute lists, and joins of them.
LEMMA MuteOpt == ASSUME NEW cond, NEW e, e.type # "usage" PROVE Mute(Opt(cond, e))
BY ListOpt DEF Mute

\* The places of both lists in their join.
LEMMA JoinHas ==
    ASSUME NEW s, NEW t, Lst(s), Lst(t)
    PROVE  /\ \A j \in DOMAIN s : \E i \in DOMAIN Joined(s, t) : Joined(s, t)[i] = s[j]
           /\ \A j \in DOMAIN t : \E i \in DOMAIN Joined(s, t) : Joined(s, t)[i] = t[j]
<1> DEFINE S == {s[i] : i \in DOMAIN s}
           T == {t[i] : i \in DOMAIN t}
           w == s \o t
<1>1. s \in Seq(S \union T) /\ t \in Seq(S \union T)
  <2>1. s \in Seq(S) /\ t \in Seq(T)
    BY DEF Lst
  <2> HIDE DEF S, T
  <2> QED BY <2>1
<1> HIDE DEF S, T
<1>2. /\ w \in Seq(S \union T) /\ Len(w) = Len(s) + Len(t)
      /\ \A i \in 1..Len(s) + Len(t) : w[i] = IF i <= Len(s) THEN s[i] ELSE t[i - Len(s)]
  BY <1>1, ConcatProperties, Zenon
<1>3. /\ DOMAIN s = 1..Len(s) /\ DOMAIN t = 1..Len(t) /\ DOMAIN w = 1..(Len(s) + Len(t))
      /\ Len(s) \in Nat /\ Len(t) \in Nat
  BY <1>1, <1>2
<1> HIDE DEF w
<1>4. ASSUME NEW j \in DOMAIN s PROVE \E i \in DOMAIN w : w[i] = s[j]
  <2>1. j \in DOMAIN w /\ w[j] = s[j]
    BY <1>2, <1>3
  <2> QED BY <2>1
<1>5. ASSUME NEW j \in DOMAIN t PROVE \E i \in DOMAIN w : w[i] = t[j]
  <2>1. Len(s) + j \in DOMAIN w /\ w[Len(s) + j] = t[j]
    BY <1>2, <1>3
  <2> QED BY <2>1
<1> QED BY <1>4, <1>5 DEF w, Joined

\* What is joined counts what its parts count.
LEMMA MuteJoin == ASSUME NEW s, NEW t, Mute(s), Mute(t) PROVE Mute(s \o t)
<1>1. Lst(s) /\ Lst(t)
  BY DEF Mute
<1>2. Mute(Joined(s, t))
  BY <1>1, ListJoin DEF Mute
<1> QED BY <1>2 DEF Joined

\* What follows or comes before in silence changes nothing.
LEMMA TellsJoin ==
    ASSUME NEW u, NEW s, NEW t,
           (Mute(s) /\ Tells(u, t)) \/ (Tells(u, s) /\ Mute(t))
    PROVE  Tells(u, s \o t)
<1>1. Lst(s) /\ Lst(t)
  BY DEF Mute, Tells
<1>2. Lst(Joined(s, t))
  BY <1>1, ListJoin
<1>3. \A i \in DOMAIN Joined(s, t) : Joined(s, t)[i].type = "usage" => Joined(s, t)[i].usage = u
  BY <1>1, ListJoin DEF Mute, Tells
<1>4. \E i \in DOMAIN Joined(s, t) : Joined(s, t)[i].type = "usage"
  BY <1>1, JoinHas DEF Mute, Tells
<1> QED BY <1>2, <1>3, <1>4 DEF Tells, Joined

\* The concatenation of mute lists is mute.
LEMMA MuteConcat ==
    ASSUME NEW s, Lst(s), \A i \in DOMAIN s : Mute(s[i])
    PROVE  Mute(Concat(s))
<1> DEFINE p == <<"join", "", "">>
           n == Len(s)
           D == DOMAIN s
           Value(k, T) == IF T = {} THEN None
                          ELSE (k[T \ {Counts!LastOf(T)}] \o s[Counts!LastOf(T)])
           k == CHOOSE k : k = [T \in SUBSET D |-> Value(k, T)]
<1>1. D = 1..n /\ n \in Nat
  BY ListDomain
<1>2. /\ \A x, y : Step(p, x, y) = (x \o y)
      /\ \A j, x : CountKept(<<p, j>>, x) = Mute(x)
  BY DEF Step, CountKept
<1>3. Concat(s) = k[D]
  BY DEF Concat, FoldLeft, MapThenFoldSet, Max, Counts!LastOf
<1> HIDE DEF p, D, n
<1>4. \A l : Counts!Recurs(l, D, p, None, s) <=> l = [T \in SUBSET D |-> Value(l, T)]
  BY <1>2 DEF Counts!Recurs
<1>5. \E l : Counts!Recurs(l, D, p, None, s)
  BY <1>1, Counts!RecursionExists DEF D, n
<1>6. Counts!Recurs(k, D, p, None, s)
  <2> HIDE DEF Value
  <2> QED BY <1>4, <1>5
<1> HIDE DEF k
<1>7. ASSUME NEW j \in 1..n, NEW x, CountKept(<<p, j - 1>>, x)
      PROVE  CountKept(<<p, j>>, Step(p, x, s[j]))
  <2>1. Mute(x) /\ Mute(s[j])
    BY <1>1, <1>2, <1>7 DEF D
  <2>2. Step(p, x, s[j]) = x \o s[j]
    BY <1>2
  <2>3. Mute(x \o s[j])
    BY <2>1, MuteJoin
  <2> QED BY <1>2, <2>2, <2>3
<1>8. CountKept(<<p, 0>>, None)
  <2>1. Mute(None)
    BY EmptyList DEF Mute, None
  <2> QED BY <1>2, <2>1
<1>9. CountKept(<<p, n>>, k[1..n])
  BY <1>1, <1>6, <1>7, <1>8, Counts!FoldReaches
<1> QED BY <1>1, <1>2, <1>3, <1>9

\* An event of Chat counts if it is one of usage.
LEMMA CountedChatEvent ==
    ASSUME NEW v, NEW r, NEW e, Counted(v, r)
    PROVE  Counted(IF e.type = "usage" THEN e.usage ELSE v, ChatEvent(r, e))
<1> DEFINE u == e.usage
           counted == [r EXCEPT !.usage = u]
           all == DoneAll(r)
           held == [all EXCEPT !.held = <<e>>]
<1>1. Counted(v, StartTool(r, e)) /\ Counted(v, DeltaTool(r, e)) /\ Counted(v, Emit(r, e))
  BY CountedTool, CountedEmit
<1>2. Counted(u, Emit(counted, e))
  <2> HIDE DEF u
  <2>1. Counted(u, counted)
    BY DEF Counted, Reading
  <2> HIDE DEF counted
  <2> QED BY <2>1, CountedEmit
<1>3. Counted(v, held)
  <2>1. Counted(v, all)
    BY CountedDoneAll
  <2> HIDE DEF all
  <2> QED BY <2>1 DEF Counted, Reading
<1>4. ChatEvent(r, e) =
        CASE e.type = "tool_call_start" -> StartTool(r, e)
          [] e.type = "tool_arguments_delta" -> DeltaTool(r, e)
          [] e.type = "usage" -> Emit(counted, e)
          [] e.type = "response_done" -> held
          [] OTHER -> Emit(r, e)
  BY DEF ChatEvent
<1> HIDE DEF u, counted, all, held
<1> QED BY <1>1, <1>2, <1>3, <1>4 DEF u

\* So does one of Gemini.
LEMMA CountedGeminiEvent ==
    ASSUME NEW v, NEW r, NEW e, Counted(v, r)
    PROVE  Counted(IF e.type = "usage" THEN e.usage ELSE v, GeminiEvent(r, e))
<1> DEFINE u == IF e.type = "usage" THEN e.usage ELSE r.usage
           x == [r EXCEPT !.usage = IF e.type = "usage" THEN e.usage ELSE @,
                          !.offset = IF e.type = "tool_call_done" THEN @ + 1 ELSE @,
                          !.terminated = @ \/ e.type = "response_done"]
<1>1. GeminiEvent(r, e) = Emit(x, e)
  BY DEF GeminiEvent
<1>2. Reading("any", x)
  BY DEF Counted, Reading
<1>3. "usage" \in DOMAIN x /\ x.usage = u
  BY DEF Counted
<1>4. Counted(u, x)
  <2> HIDE DEF u, x
  <2> QED BY <1>2, <1>3 DEF Counted
<1>5. Counted(u, Emit(x, e))
  <2> HIDE DEF u, x
  <2> QED BY <1>4, CountedEmit
<1> QED BY <1>1, <1>5 DEF Counted

\* What events count after j of them.
CountedBy(s, u, v, j) == IF \E i \in 1..j : s[i].type = "usage" THEN u ELSE v

LEMMA CountedMore ==
    ASSUME NEW s, NEW u, NEW v, NEW j \in Nat \ {0}, s[j].type = "usage" => s[j].usage = u
    PROVE  CountedBy(s, u, v, j) = IF s[j].type = "usage" THEN s[j].usage
                                   ELSE CountedBy(s, u, v, j - 1)
<1>1. CASE s[j].type = "usage"
  <2>1. j \in 1..j
    OBVIOUS
  <2> QED BY <1>1, <2>1 DEF CountedBy
<1>2. CASE s[j].type # "usage"
  <2>1. (\E i \in 1..j : s[i].type = "usage") <=> \E i \in 1..(j - 1) : s[i].type = "usage"
    <3>1. \A i \in 1..j : i = j \/ i \in 1..(j - 1)
      OBVIOUS
    <3>2. \A i \in 1..(j - 1) : i \in 1..j
      OBVIOUS
    <3> QED BY <1>2, <3>1, <3>2
  <2> QED BY <1>2, <2>1 DEF CountedBy
<1> QED BY <1>1, <1>2

\* The events of a chunk in turn: the usage they tell is counted.
LEMMA CountedChatEvents ==
    ASSUME NEW u, NEW v, NEW r, NEW s, Counted(v, r), Lst(s),
           \A i \in DOMAIN s : s[i].type = "usage" => s[i].usage = u
    PROVE  Counted(CountedBy(s, u, v, Len(s)), FoldLeft(ChatEvent, r, s))
<1> DEFINE n == Len(s)
           p == <<"chat", "", [j \in 0..n |-> CountedBy(s, u, v, j)]>>
           D == DOMAIN s
           Value(k, T) == IF T = {} THEN r
                          ELSE ChatEvent(k[T \ {Counts!LastOf(T)}], s[Counts!LastOf(T)])
           k == CHOOSE k : k = [T \in SUBSET D |-> Value(k, T)]
<1>1. D = 1..n /\ n \in Nat
  BY ListDomain
<1>2. /\ \A x, y : Step(p, x, y) = ChatEvent(x, y)
      /\ \A x : \A j \in 0..n : CountKept(<<p, j>>, x) = Counted(CountedBy(s, u, v, j), x)
  BY DEF Step, CountKept
<1>3. FoldLeft(ChatEvent, r, s) = k[D]
  BY DEF FoldLeft, MapThenFoldSet, Max, Counts!LastOf
<1> HIDE DEF p, D, n
<1>4. \A l : Counts!Recurs(l, D, p, r, s) <=> l = [T \in SUBSET D |-> Value(l, T)]
  BY <1>2 DEF Counts!Recurs
<1>5. \E l : Counts!Recurs(l, D, p, r, s)
  BY <1>1, Counts!RecursionExists DEF D, n
<1>6. Counts!Recurs(k, D, p, r, s)
  <2> HIDE DEF Value
  <2> QED BY <1>4, <1>5
<1> HIDE DEF k
<1>7. ASSUME NEW j \in 1..n, NEW x, CountKept(<<p, j - 1>>, x)
      PROVE  CountKept(<<p, j>>, Step(p, x, s[j]))
  <2>1. j \in 0..n /\ j - 1 \in 0..n /\ j \in Nat \ {0} /\ j \in DOMAIN s
    BY <1>1 DEF D
  <2>2. Counted(CountedBy(s, u, v, j - 1), x)
    BY <1>2, <1>7, <2>1
  <2>3. Counted(CountedBy(s, u, v, j), ChatEvent(x, s[j]))
    BY <2>1, <2>2, CountedMore, CountedChatEvent
  <2> QED BY <1>2, <2>1, <2>3
<1>8. CountKept(<<p, 0>>, r)
  <2>1. CountedBy(s, u, v, 0) = v
    BY DEF CountedBy
  <2> QED BY <1>1, <1>2, <2>1
<1>9. CountKept(<<p, n>>, k[1..n])
  BY <1>1, <1>6, <1>7, <1>8, Counts!FoldReaches
<1>10. Counted(CountedBy(s, u, v, n), k[1..n])
  BY <1>1, <1>2, <1>9
<1> QED BY <1>1, <1>3, <1>10 DEF n

\* The same of Gemini.
LEMMA CountedGeminiEvents ==
    ASSUME NEW u, NEW v, NEW r, NEW s, Counted(v, r), Lst(s),
           \A i \in DOMAIN s : s[i].type = "usage" => s[i].usage = u
    PROVE  Counted(CountedBy(s, u, v, Len(s)), FoldLeft(GeminiEvent, r, s))
<1> DEFINE n == Len(s)
           p == <<"gemini", "", [j \in 0..n |-> CountedBy(s, u, v, j)]>>
           D == DOMAIN s
           Value(k, T) == IF T = {} THEN r
                          ELSE GeminiEvent(k[T \ {Counts!LastOf(T)}], s[Counts!LastOf(T)])
           k == CHOOSE k : k = [T \in SUBSET D |-> Value(k, T)]
<1>1. D = 1..n /\ n \in Nat
  BY ListDomain
<1>2. /\ \A x, y : Step(p, x, y) = GeminiEvent(x, y)
      /\ \A x : \A j \in 0..n : CountKept(<<p, j>>, x) = Counted(CountedBy(s, u, v, j), x)
  BY DEF Step, CountKept
<1>3. FoldLeft(GeminiEvent, r, s) = k[D]
  BY DEF FoldLeft, MapThenFoldSet, Max, Counts!LastOf
<1> HIDE DEF p, D, n
<1>4. \A l : Counts!Recurs(l, D, p, r, s) <=> l = [T \in SUBSET D |-> Value(l, T)]
  BY <1>2 DEF Counts!Recurs
<1>5. \E l : Counts!Recurs(l, D, p, r, s)
  BY <1>1, Counts!RecursionExists DEF D, n
<1>6. Counts!Recurs(k, D, p, r, s)
  <2> HIDE DEF Value
  <2> QED BY <1>4, <1>5
<1> HIDE DEF k
<1>7. ASSUME NEW j \in 1..n, NEW x, CountKept(<<p, j - 1>>, x)
      PROVE  CountKept(<<p, j>>, Step(p, x, s[j]))
  <2>1. j \in 0..n /\ j - 1 \in 0..n /\ j \in Nat \ {0} /\ j \in DOMAIN s
    BY <1>1 DEF D
  <2>2. Counted(CountedBy(s, u, v, j - 1), x)
    BY <1>2, <1>7, <2>1
  <2>3. Counted(CountedBy(s, u, v, j), GeminiEvent(x, s[j]))
    BY <2>1, <2>2, CountedMore, CountedGeminiEvent
  <2> QED BY <1>2, <2>1, <2>3
<1>8. CountKept(<<p, 0>>, r)
  <2>1. CountedBy(s, u, v, 0) = v
    BY DEF CountedBy
  <2> QED BY <1>1, <1>2, <2>1
<1>9. CountKept(<<p, n>>, k[1..n])
  BY <1>1, <1>6, <1>7, <1>8, Counts!FoldReaches
<1>10. Counted(CountedBy(s, u, v, n), k[1..n])
  BY <1>1, <1>2, <1>9
<1> QED BY <1>1, <1>3, <1>10 DEF n

\* Events that count nothing, or u, as a whole.
LEMMA CountedWhole ==
    ASSUME NEW s, NEW u, NEW v
    PROVE  /\ Mute(s) => /\ Lst(s) /\ \A i \in DOMAIN s : s[i].type = "usage" => s[i].usage = v
                         /\ CountedBy(s, v, v, Len(s)) = v
           /\ Tells(u, s) => CountedBy(s, u, v, Len(s)) = u
<1>1. CountedBy(s, v, v, Len(s)) = v
  BY DEF CountedBy
<1>2. ASSUME Tells(u, s) PROVE CountedBy(s, u, v, Len(s)) = u
  <2>1. DOMAIN s = 1..Len(s)
    BY <1>2, ListDomain DEF Tells
  <2> QED BY <1>2, <2>1 DEF Tells, CountedBy
<1> QED BY <1>1, <1>2 DEF Mute

\* The events of a call of Chat, and of a part of Gemini, count nothing.
LEMMA PiecesMute ==
    /\ \A c : Mute(CallChunkEvents(c))
    /\ \A p, i, request : Mute(PartEvents(p, i, request))
<1>1. ASSUME NEW c PROVE Mute(CallChunkEvents(c))
  <2>1. /\ Mute(Opt(c.id # None \/ c.name # None, CallStart(c.index, c.id, c.name, c.sig)))
        /\ Mute(Opt(c.args # None, ArgumentsDelta(c.index, c.id, c.name, c.args)))
    BY EventTypes, MuteOpt
  <2> QED BY <2>1, MuteJoin DEF CallChunkEvents
<1>2. ASSUME NEW p, NEW i, NEW request PROVE Mute(PartEvents(p, i, request))
  <2> DEFINE id == FirstNonEmpty(p.id, <<"call", request, i>>)
             args == ObjectOf(p.args)
             a == CallStart(i, id, p.name, p.sig)
             b == ArgumentsDelta(i, id, p.name, args)
             c == CallDone(i, id, p.name, args, p.sig)
             d == IF p.kind = "thought" THEN ReasoningDelta(0, p.text, p.sig)
                  ELSE [TextDelta(0, p.text) EXCEPT !.sig = p.sig]
             told == p.kind # "call" /\ (p.text # None \/ p.sig # None)
  <2>1. PartEvents(p, i, request) = IF IsNamedCall(p) THEN <<a, b, c>> ELSE Opt(told, d)
    BY DEF PartEvents
  <2>2. a.type # "usage" /\ b.type # "usage" /\ c.type # "usage" /\ d.type # "usage"
    BY EventTypes
  <2> HIDE DEF a, b, c, d, told
  <2>3. Mute(Opt(told, d))
    BY <2>2, MuteOpt
  <2>4. Mute(<<a, b, c>>)
    <3> DEFINE s == <<a, b, c>>
    <3>1. s \in Seq({a, b, c}) /\ DOMAIN s = 1..3
      OBVIOUS
    <3>2. \A j \in DOMAIN s : s[j] \in {a, b, c}
      BY <3>1
    <3> HIDE DEF s
    <3>3. Lst(s)
      BY <3>1, ListOf
    <3>4. Mute(s)
      BY <2>2, <3>2, <3>3 DEF Mute
    <3> QED BY <3>4 DEF s
  <2> QED BY <2>1, <2>3, <2>4
<1> QED BY <1>1, <1>2

\* A chunk counts what it says it does.
LEMMA UsageTells ==
    ASSUME NEW u
    PROVE  IF u = ZeroUsage THEN Mute(Opt(u # ZeroUsage, UsageEvent(u)))
           ELSE Tells(u, Opt(u # ZeroUsage, UsageEvent(u)))
<1> DEFINE e == UsageEvent(u)
           cond == u # ZeroUsage
<1>1. e.type = "usage" /\ e.usage = u
  BY DEF UsageEvent, Blank
<1> HIDE DEF e
<1>2. Lst(Opt(cond, e)) /\ \A i \in DOMAIN Opt(cond, e) : Opt(cond, e)[i] = e
  BY ListOpt
<1>3. CASE cond
  <2>1. 1 \in DOMAIN Opt(cond, e)
    BY <1>3 DEF Opt
  <2>2. Tells(u, Opt(cond, e))
    BY <1>1, <1>2, <2>1 DEF Tells
  <2> QED BY <1>3, <2>2 DEF e
<1>4. CASE ~cond
  <2>1. DOMAIN Opt(cond, e) = {}
    BY <1>4, EmptyList DEF Opt
  <2>2. Mute(Opt(cond, e))
    BY <1>2, <2>1 DEF Mute
  <2> QED BY <1>4, <2>2 DEF e
<1> QED BY <1>3, <1>4

\* Events that count u, or nothing where there is nothing to count.
Telling(u, s) == IF u = ZeroUsage THEN Mute(s) ELSE Tells(u, s)

\* What joins them in silence changes nothing.
LEMMA TellingJoin ==
    ASSUME NEW u, NEW s, NEW t,
           (Mute(s) /\ Telling(u, t)) \/ (Telling(u, s) /\ Mute(t))
    PROVE  Telling(u, Joined(s, t))
<1>1. CASE u = ZeroUsage
  <2>1. Mute(s) /\ Mute(t)
    BY <1>1 DEF Telling
  <2>2. Mute(s \o t)
    BY <2>1, MuteJoin
  <2> QED BY <1>1, <2>2 DEF Telling, Joined
<1>2. CASE u # ZeroUsage
  <2>1. (Mute(s) /\ Tells(u, t)) \/ (Tells(u, s) /\ Mute(t))
    BY <1>2 DEF Telling
  <2>2. Tells(u, s \o t)
    BY <2>1, TellsJoin
  <2> QED BY <1>2, <2>2 DEF Telling, Joined
<1> QED BY <1>1, <1>2

\* The events of a chunk of Chat count what the chunk does.
LEMMA ChatTells == ASSUME NEW c, Lst(c.calls) PROVE Telling(c.usage, ChatChunkEvents(c))
<1> DEFINE calls == [n \in DOMAIN c.calls |-> CallChunkEvents(c.calls[n])]
           a == Opt(c.role, MessageStart)
           b == Opt(c.text # None, TextDelta(0, c.text))
           d == Opt(c.refusal # None, RefusalDelta(0, c.refusal))
           e == Opt(c.reasoning # None, ReasoningDelta(0, c.reasoning, None))
           f == Concat(calls)
           g == Opt(c.finish # "", ResponseDone(c.finish))
           u == c.usage
           h == Opt(u # ZeroUsage, UsageEvent(u))
<1>1. Mute(a) /\ Mute(b) /\ Mute(d) /\ Mute(e)
  BY EventTypes, MuteOpt
<1>2. Mute(f)
  <2>1. calls = [n \in DOMAIN c.calls |-> calls[n]]
    OBVIOUS
  <2>2. \A n \in DOMAIN calls : Mute(calls[n])
    BY PiecesMute
  <2>3. Lst(calls)
    <3> HIDE DEF calls
    <3> QED BY <2>1, ListFunction
  <2> HIDE DEF calls
  <2> QED BY <2>2, <2>3, MuteConcat
<1>3. Mute(g)
  <2>1. ResponseDone(c.finish).type # "usage"
    BY DEF ResponseDone, Blank
  <2> QED BY <2>1, MuteOpt
<1>4. Telling(u, h)
  BY UsageTells DEF Telling
<1>5. ChatChunkEvents(c) = Joined(a \o b \o d \o e \o f \o g, h)
  BY DEF ChatChunkEvents, Joined
<1> HIDE DEF a, b, d, e, f, g, h, u
<1>6. Mute(a \o b \o d \o e \o f \o g)
  BY <1>1, <1>2, <1>3, MuteJoin
<1>7. Telling(u, ChatChunkEvents(c))
  BY <1>4, <1>5, <1>6, TellingJoin
<1> QED BY <1>7 DEF u

\* Those of Gemini as well, though the finish comes after the usage.
LEMMA GeminiTells ==
    ASSUME NEW c, NEW request, NEW offset, Lst(c.parts)
    PROVE  Telling(c.usage, GeminiChunkEvents(c, request, offset))
<1> DEFINE parts == [n \in DOMAIN c.parts |->
                        PartEvents(c.parts[n], CallNumber(c, n, offset), request)]
           u == c.usage
           b == Opt(u # ZeroUsage, UsageEvent(u))
           done == ResponseDone(GeminiFinish(c.finish, CallNumber(c, Len(c.parts) + 1, offset)))
           d == Opt(c.finish # "", done)
           refused == Opt(c.blocked # None, RefusalDelta(0, c.blocked))
           blocked == Opt(c.blocked # None, ResponseDone("content_filter"))
           first == IF c.candidate THEN Concat(parts) ELSE refused
           last == IF c.candidate THEN d ELSE blocked
<1>1. Mute(Concat(parts))
  <2>1. parts = [n \in DOMAIN c.parts |-> parts[n]]
    OBVIOUS
  <2>2. \A n \in DOMAIN parts : Mute(parts[n])
    BY PiecesMute
  <2>3. Lst(parts)
    <3> HIDE DEF parts
    <3> QED BY <2>1, ListFunction
  <2> HIDE DEF parts
  <2> QED BY <2>2, <2>3, MuteConcat
<1>2. \A reason : ResponseDone(reason).type # "usage"
  BY DEF ResponseDone, Blank
<1>3. Mute(d) /\ Mute(blocked)
  BY <1>2, MuteOpt
<1>4. Mute(refused)
  BY EventTypes, MuteOpt
<1>5. Mute(first) /\ Mute(last)
  BY <1>1, <1>3, <1>4
<1>6. Telling(u, b)
  BY UsageTells DEF Telling
<1>7. GeminiChunkEvents(c, request, offset) = Joined(Joined(first, b), last)
  BY DEF GeminiChunkEvents, Joined
<1> HIDE DEF first, last, b, u
<1>8. Telling(u, Joined(first, b))
  BY <1>5, <1>6, TellingJoin
<1>9. Telling(u, Joined(Joined(first, b), last))
  BY <1>5, <1>8, TellingJoin
<1> QED BY <1>7, <1>9 DEF u

\* The last usage a reader was told, after chunk c.
UsageAfter(protocol, v, c) ==
    CASE protocol \in {Chat, Gemini} ->
             IF c.kind \in {"[DONE]", "error", "garbage"} \/ c.usage = ZeroUsage THEN v ELSE c.usage
      [] protocol = Responses -> IF c.kind = "final" THEN c.usage ELSE v
      [] protocol = Anthropic -> IF c.kind \in {"message_start", "message_delta"}
                                 THEN MergeUsage(v, c.usage) ELSE v

\* A chunk of Chat is counted.
LEMMA CountedChat ==
    ASSUME NEW v, NEW r, NEW c, Counted(v, r), Midway("any", Chat, c)
    PROVE  Counted(UsageAfter(Chat, v, c), ReadChat(r, c))
<1> DEFINE x == EmitIf(~r.started, r, ResponseStart)
           u == [x EXCEPT !.started = TRUE]
           w == c.usage
           s == ChatChunkEvents(c)
           done == [r EXCEPT !.terminated = TRUE, !.over = "break"]
           fail == Fail(r, "break")
           failed == [fail EXCEPT !.terminated = TRUE]
<1>1. Counted(v, u)
  <2>1. Counted(v, x)
    BY CountedEmit
  <2> HIDE DEF x
  <2> QED BY <2>1 DEF Counted, Reading
<1>2. Counted(v, done)
  BY DEF Counted, Reading
<1>3. Counted(v, failed) /\ Counted(v, Refuse(r))
  <2>1. Counted(v, fail) /\ Counted(v, Refuse(r))
    BY CountedOver
  <2> HIDE DEF fail
  <2> QED BY <2>1 DEF Counted, Reading
<1>4. Telling(w, s)
  BY ChatTells DEF Midway
<1>5. ReadChat(r, c) = CASE c.kind = "[DONE]" -> done
                         [] c.kind = "error" -> failed
                         [] c.kind = "garbage" -> Refuse(r)
                         [] OTHER -> FoldLeft(ChatEvent, u, s)
  BY DEF ReadChat
<1>6. UsageAfter(Chat, v, c) = IF c.kind \in {"[DONE]", "error", "garbage"} \/ w = ZeroUsage
                               THEN v ELSE w
  BY DEF UsageAfter, Chat, Responses, Anthropic, Gemini
<1> HIDE DEF u, w, s, done, failed
<1>7. Counted(IF w = ZeroUsage THEN v ELSE w, FoldLeft(ChatEvent, u, s))
  <2>1. CASE w = ZeroUsage
    <3>1. Mute(s)
      BY <1>4, <2>1 DEF Telling
    <3>2. /\ Lst(s) /\ \A i \in DOMAIN s : s[i].type = "usage" => s[i].usage = v
          /\ CountedBy(s, v, v, Len(s)) = v
      BY <3>1, CountedWhole
    <3>3. Counted(CountedBy(s, v, v, Len(s)), FoldLeft(ChatEvent, u, s))
      BY <1>1, <3>2, CountedChatEvents
    <3> QED BY <2>1, <3>2, <3>3
  <2>2. CASE w # ZeroUsage
    <3>1. Tells(w, s)
      BY <1>4, <2>2 DEF Telling
    <3>2. CountedBy(s, w, v, Len(s)) = w
      BY <3>1, CountedWhole
    <3>3. Counted(CountedBy(s, w, v, Len(s)), FoldLeft(ChatEvent, u, s))
      BY <1>1, <3>1, CountedChatEvents DEF Tells
    <3> QED BY <2>2, <3>2, <3>3
  <2> QED BY <2>1, <2>2
<1> QED BY <1>2, <1>3, <1>5, <1>6, <1>7

\* A chunk of Gemini is counted.
LEMMA CountedGemini ==
    ASSUME NEW v, NEW r, NEW c, Counted(v, r), Midway("any", Gemini, c)
    PROVE  Counted(UsageAfter(Gemini, v, c), ReadGemini(r, c))
<1> DEFINE w == c.usage
           s == GeminiChunkEvents(c, r.request, r.offset)
           done == [r EXCEPT !.terminated = TRUE, !.over = "break"]
           fail == Fail(r, "break")
           failed == [fail EXCEPT !.terminated = TRUE]
<1>2. Counted(v, done)
  BY DEF Counted, Reading
<1>3. Counted(v, failed) /\ Counted(v, Refuse(r))
  <2>1. Counted(v, fail) /\ Counted(v, Refuse(r))
    BY CountedOver
  <2> HIDE DEF fail
  <2> QED BY <2>1 DEF Counted, Reading
<1>4. Telling(w, s)
  BY GeminiTells DEF Midway, Gemini
<1>5. ReadGemini(r, c) = CASE c.kind = "[DONE]" -> done
                           [] c.kind = "error" -> failed
                           [] c.kind = "garbage" -> Refuse(r)
                           [] OTHER -> FoldLeft(GeminiEvent, r, s)
  BY DEF ReadGemini
<1>6. UsageAfter(Gemini, v, c) = IF c.kind \in {"[DONE]", "error", "garbage"} \/ w = ZeroUsage
                                 THEN v ELSE w
  BY DEF UsageAfter, Chat, Responses, Anthropic, Gemini
<1> HIDE DEF w, s, done, failed
<1>7. Counted(IF w = ZeroUsage THEN v ELSE w, FoldLeft(GeminiEvent, r, s))
  <2>1. CASE w = ZeroUsage
    <3>1. Mute(s)
      BY <1>4, <2>1 DEF Telling
    <3>2. /\ Lst(s) /\ \A i \in DOMAIN s : s[i].type = "usage" => s[i].usage = v
          /\ CountedBy(s, v, v, Len(s)) = v
      BY <3>1, CountedWhole
    <3>3. Counted(CountedBy(s, v, v, Len(s)), FoldLeft(GeminiEvent, r, s))
      BY <3>2, CountedGeminiEvents
    <3> QED BY <2>1, <3>2, <3>3
  <2>2. CASE w # ZeroUsage
    <3>1. Tells(w, s)
      BY <1>4, <2>2 DEF Telling
    <3>2. CountedBy(s, w, v, Len(s)) = w
      BY <3>1, CountedWhole
    <3>3. Counted(CountedBy(s, w, v, Len(s)), FoldLeft(GeminiEvent, r, s))
      BY <3>1, CountedGeminiEvents DEF Tells
    <3> QED BY <2>2, <3>2, <3>3
  <2> QED BY <2>1, <2>2
<1> QED BY <1>2, <1>3, <1>5, <1>6, <1>7

\* The calls of a final response: a fold.
LEMMA CountedFinalCalls ==
    ASSUME NEW v, NEW r, NEW s, Counted(v, r), Lst(s)
    PROVE  Counted(v, FoldLeft(FinalCall, r, s))
<1> DEFINE n == Len(s)
           p == <<"final", "", [j \in 0..n |-> v]>>
           D == DOMAIN s
           Value(k, T) == IF T = {} THEN r
                          ELSE FinalCall(k[T \ {Counts!LastOf(T)}], s[Counts!LastOf(T)])
           k == CHOOSE k : k = [T \in SUBSET D |-> Value(k, T)]
<1>1. D = 1..n /\ n \in Nat
  BY ListDomain
<1>2. /\ \A x, y : Step(p, x, y) = FinalCall(x, y)
      /\ \A x : \A j \in 0..n : CountKept(<<p, j>>, x) = Counted(v, x)
  BY DEF Step, CountKept
<1>3. FoldLeft(FinalCall, r, s) = k[D]
  BY DEF FoldLeft, MapThenFoldSet, Max, Counts!LastOf
<1> HIDE DEF p, D, n
<1>4. \A l : Counts!Recurs(l, D, p, r, s) <=> l = [T \in SUBSET D |-> Value(l, T)]
  BY <1>2 DEF Counts!Recurs
<1>5. \E l : Counts!Recurs(l, D, p, r, s)
  BY <1>1, Counts!RecursionExists DEF D, n
<1>6. Counts!Recurs(k, D, p, r, s)
  <2> HIDE DEF Value
  <2> QED BY <1>4, <1>5
<1> HIDE DEF k
<1>7. ASSUME NEW j \in 1..n, NEW x, CountKept(<<p, j - 1>>, x)
      PROVE  CountKept(<<p, j>>, Step(p, x, s[j]))
  <2>1. j \in 0..n /\ j - 1 \in 0..n
    BY <1>1
  <2>2. Counted(v, FinalCall(x, s[j]))
    BY <1>2, <1>7, <2>1, CountedTool DEF FinalCall
  <2> QED BY <1>2, <2>1, <2>2
<1>8. CountKept(<<p, 0>>, r)
  BY <1>1, <1>2
<1>9. CountKept(<<p, n>>, k[1..n])
  BY <1>1, <1>6, <1>7, <1>8, Counts!FoldReaches
<1> QED BY <1>1, <1>2, <1>3, <1>9

\* The final response is counted.
LEMMA CountedFinal ==
    ASSUME NEW v, NEW r, NEW response, Counted(v, r), Lst(response.calls)
    PROVE  Counted(response.usage, ResponsesFinal(r, response))
<1> DEFINE told == response.text # None /\ "text" \notin r.seen
           refused == response.refusal # None /\ "refusal" \notin r.seen
           t == EmitIf(told, r, TextDelta(0, response.text))
           f == EmitIf(refused, t, RefusalDelta(0, response.refusal))
           given == FoldLeft(FinalCall, f, response.calls)
           all == DoneAll(given)
           u == response.usage
           set == [all EXCEPT !.usage = u]
           counted == EmitIf(u # ZeroUsage, set, UsageEvent(u))
           e == ResponseDone(response.reason)
           x == Emit(counted, e)
<1>1. ResponsesFinal(r, response) = [x EXCEPT !.terminated = TRUE, !.over = "break"]
  BY DEF ResponsesFinal, FinalText
<1>2. Counted(v, t)
  <2> HIDE DEF told
  <2> QED BY CountedEmit
<1>3. Counted(v, f)
  <2> HIDE DEF t, refused
  <2> QED BY <1>2, CountedEmit
<1>4. Counted(v, given)
  <2> HIDE DEF f
  <2> QED BY <1>3, CountedFinalCalls
<1>5. Counted(v, all)
  <2> HIDE DEF given
  <2> QED BY <1>4, CountedDoneAll
<1>6. Counted(u, set)
  <2> HIDE DEF all, u
  <2> QED BY <1>5 DEF Counted, Reading
<1>7. Counted(u, counted)
  <2> HIDE DEF set, u
  <2> QED BY <1>6, CountedEmit
<1>8. Counted(u, x)
  <2> HIDE DEF counted, u, e
  <2> QED BY <1>7, CountedEmit
<1>9. Counted(u, [x EXCEPT !.terminated = TRUE, !.over = "break"])
  <2> HIDE DEF x, u
  <2> QED BY <1>8 DEF Counted, Reading
<1> QED BY <1>1, <1>9

\* An event of Responses counts if it is the last.
LEMMA CountedResponses ==
    ASSUME NEW v, NEW r, NEW c, Counted(v, r), Midway("any", Responses, c)
    PROVE  Counted(UsageAfter(Responses, v, c), ReadResponses(r, c))
<1>1. /\ Counted(v, Emit(r, ResponseStart))
      /\ \A e, what : Counted(v, See(Emit(r, e), what))
      /\ \A e : Counted(v, StartTool(r, e)) /\ Counted(v, DeltaTool(r, e)) /\ Counted(v, DoneTool(r, e))
      /\ \A cond : Counted(v, EmitIf(cond, r, MessageStart))
  BY CountedEmit, CountedTool, CountedOver
<1>2. Counted(v, ReasoningItemDone(r, c))
  <2> DEFINE delta == IF "reasoning" \in r.seen THEN None ELSE c.item.text
             e == ReasoningDelta(c.at, delta, c.item.sig)
  <2>1. ReasoningItemDone(r, c) = IF delta = None /\ c.item.sig = None THEN r
                                  ELSE See(Emit(r, e), "reasoning")
    BY DEF ReasoningItemDone
  <2> HIDE DEF delta, e
  <2> QED BY <1>1, <2>1
<1>3. Counted(v, Fail(r, "return")) /\ Counted(v, Refuse(r))
  BY CountedOver
<1>4. /\ c.kind \in {"created", "text.delta", "refusal.delta", "reasoning.delta", "item.added",
                     "arguments.delta", "arguments.done", "item.done", "error", "failed",
                     "garbage", "final"}
      /\ UsageAfter(Responses, v, c) = IF c.kind = "final" THEN c.usage ELSE v
  BY DEF Midway, UsageAfter, Chat, Responses, Anthropic, Gemini
<1>5. CASE c.kind \in {"created", "text.delta", "refusal.delta", "reasoning.delta"}
  BY <1>1, <1>4, <1>5 DEF ReadResponses
<1>6. CASE c.kind = "item.added"
  BY <1>1, <1>4, <1>6 DEF ReadResponses
<1>7. CASE c.kind \in {"arguments.delta", "arguments.done"}
  BY <1>1, <1>4, <1>7 DEF ReadResponses
<1>8. CASE c.kind = "item.done"
  <2>1. ReadResponses(r, c) =
          CASE c.item.kind = "reasoning" -> ReasoningItemDone(r, c)
            [] IsCallItem(c.item) ->
                   DoneTool(r, CallDone(c.at, FirstNonEmpty(c.item.id, c.item.item),
                                        c.item.name, c.item.args, None))
            [] OTHER -> r
    BY <1>8 DEF ReadResponses
  <2> QED BY <1>1, <1>2, <1>4, <1>8, <2>1 DEF IsCallItem
<1>9. CASE c.kind \in {"error", "failed", "garbage"}
  BY <1>3, <1>4, <1>9 DEF ReadResponses
<1>10. CASE c.kind = "final"
  <2> DEFINE response == FromResponses(c.output, c.status, c.why, c.usage)
  <2>1. Lst(response.calls)
    BY FinalCalls DEF Midway
  <2>2. ReadResponses(r, c) = ResponsesFinal(r, response)
    BY <1>10 DEF ReadResponses
  <2>3. response.usage = c.usage
    BY DEF FromResponses, Response
  <2> HIDE DEF response
  <2>4. Counted(response.usage, ResponsesFinal(r, response))
    BY <2>1, CountedFinal
  <2> QED BY <1>4, <1>10, <2>2, <2>3, <2>4
<1> QED BY <1>4, <1>5, <1>6, <1>7, <1>8, <1>9, <1>10

\* The end of an answer of Anthropic is merged with its beginning.
LEMMA CountedMessageDelta ==
    ASSUME NEW v, NEW r, NEW c, Counted(v, r)
    PROVE  Counted(MergeUsage(v, c.usage), MessageDelta(r, c))
<1> DEFINE w == MergeUsage(v, c.usage)
           x == [r EXCEPT !.reason = FromStopReason(c.reason), !.usage = MergeUsage(@, c.usage)]
           ended == DoneAll(x)
           seen == See(ended, "message_delta")
           counted == EmitIf(ended.usage # ZeroUsage, seen, UsageEvent(ended.usage))
           refusal == RefusalDelta(0, FirstNonEmpty(c.explanation, DefaultRefusal))
<1>1. Counted(w, x)
  <2>1. Reading("any", x)
    BY DEF Counted, Reading
  <2>2. "usage" \in DOMAIN x /\ x.usage = w
    BY DEF Counted
  <2> HIDE DEF w, x
  <2> QED BY <2>1, <2>2 DEF Counted
<1>2. MessageDelta(r, c) = EmitIf(c.reason = "refusal", counted, refusal)
  BY DEF MessageDelta
<1> HIDE DEF w, x, refusal
<1>3. Counted(w, ended)
  BY <1>1, CountedDoneAll
<1> HIDE DEF ended
<1>4. Counted(w, seen)
  BY <1>3, CountedOver
<1> HIDE DEF seen
<1>5. Counted(w, counted)
  BY <1>4, CountedEmit
<1> HIDE DEF counted
<1>6. Counted(w, MessageDelta(r, c))
  BY <1>2, <1>5, CountedEmit
<1> QED BY <1>6 DEF w

\* An event of Anthropic counts at the beginning of the answer and at its end.
LEMMA CountedAnthropic ==
    ASSUME NEW v, NEW r, NEW c, Counted(v, r), Midway("any", Anthropic, c)
    PROVE  Counted(UsageAfter(Anthropic, v, c), ReadAnthropic(r, c))
<1>1. Counted(MergeUsage(v, c.usage),
              Emit(Emit([r EXCEPT !.usage = MergeUsage(@, c.usage)], ResponseStart), MessageStart))
  <2> DEFINE w == MergeUsage(v, c.usage)
             x == [r EXCEPT !.usage = MergeUsage(@, c.usage)]
  <2>1. Reading("any", x)
    BY DEF Counted, Reading
  <2>2. "usage" \in DOMAIN x /\ x.usage = w
    BY DEF Counted
  <2> HIDE DEF w, x
  <2>3. Counted(w, x)
    BY <2>1, <2>2 DEF Counted
  <2>4. Counted(w, Emit(x, ResponseStart))
    BY <2>3, CountedEmit
  <2>5. Counted(w, Emit(Emit(x, ResponseStart), MessageStart))
    BY <2>4, CountedEmit
  <2> QED BY <2>5 DEF w, x
<1>2. \A e : Counted(v, StartTool(r, e)) /\ Counted(v, DoneTool(r, e)) /\ Counted(v, DeltaTool(r, e))
  BY CountedTool
<1>3. ASSUME c.kind = "block_delta" PROVE Counted(v, BlockDelta(r, c))
  <2>1. \A e : Counted(v, Emit(r, e))
    BY CountedEmit
  <2>2. c.delta.kind \in {"text", "thinking", "signature", "input_json"}
    BY <1>3 DEF Midway
  <2> QED BY <1>2, <2>1, <2>2 DEF BlockDelta
<1>4. Counted(v, Fail(r, "return")) /\ Counted(v, Refuse(r))
  BY CountedOver
<1>5. /\ c.kind \in {"message_start", "block_start", "block_delta", "block_stop", "error", "garbage",
                     "message_delta", "message_stop"}
      /\ UsageAfter(Anthropic, v, c) = IF c.kind \in {"message_start", "message_delta"}
                                       THEN MergeUsage(v, c.usage) ELSE v
  BY DEF Midway, UsageAfter, Chat, Responses, Anthropic, Gemini
<1>6. CASE c.kind = "message_start"
  BY <1>1, <1>5, <1>6 DEF ReadAnthropic
<1>7. CASE c.kind \in {"block_start", "block_stop"}
  BY <1>2, <1>5, <1>7 DEF ReadAnthropic
<1>8. CASE c.kind = "block_delta"
  BY <1>3, <1>5, <1>8 DEF ReadAnthropic
<1>9. CASE c.kind \in {"error", "garbage"}
  BY <1>4, <1>5, <1>9 DEF ReadAnthropic
<1>10. CASE c.kind = "message_delta"
  BY <1>5, <1>10, CountedMessageDelta DEF ReadAnthropic
<1>11. CASE c.kind = "message_stop"
  <2> DEFINE x == Emit(r, ResponseDone(r.reason))
             stopped == [x EXCEPT !.terminated = TRUE, !.over = "break"]
  <2>1. Counted(v, x)
    BY CountedEmit
  <2>2. ReadAnthropic(r, c) = IF "message_delta" \notin r.seen THEN Refuse(r) ELSE stopped
    BY <1>11 DEF ReadAnthropic
  <2> HIDE DEF x
  <2>3. Counted(v, stopped)
    BY <2>1 DEF Counted, Reading
  <2> QED BY <1>4, <1>5, <1>11, <2>2, <2>3
<1> QED BY <1>5, <1>6, <1>7, <1>8, <1>9, <1>10, <1>11

\* What any reader has counted after a chunk.
LEMMA CountedRead ==
    ASSUME NEW v, NEW protocol \in Protocols, NEW r, NEW c, Counted(v, r), Midway("any", protocol, c)
    PROVE  Counted(UsageAfter(protocol, v, c), Read(protocol, r, c))
BY CountedChat, CountedGemini, CountedResponses, CountedAnthropic
   DEF Read, Protocols, Chat, Responses, Anthropic, Gemini

\* It is kept when the reader is left.
Keeping(v, r) == "usage" \in DOMAIN r /\ r.usage = v

LEMMA CountedLeft ==
    ASSUME NEW v, NEW protocol \in Protocols, NEW r, NEW broken, Counted(v, r)
    PROVE  Keeping(v, Leave(protocol, r, broken))
<1>1. Keeping(v, LeaveChat(r))
  <2> DEFINE d == DoneAll(r)
             x == Emit(d, d.held[1])
             y == [x EXCEPT !.terminated = TRUE]
  <2>1. Counted(v, d)
    BY CountedDoneAll
  <2>2. LeaveChat(r) = IF d.held = <<>> THEN d ELSE y
    BY DEF LeaveChat
  <2> HIDE DEF d
  <2>3. Counted(v, x)
    BY <2>1, CountedEmit
  <2> HIDE DEF x
  <2> QED BY <2>1, <2>2, <2>3 DEF Counted, Keeping
<1>2. Keeping(v, LeaveAnthropic(r))
  <2>1. Counted(v, DoneAll(r))
    BY CountedDoneAll
  <2>2. \A cond, e : Counted(v, EmitIf(cond, DoneAll(r), e))
    BY <2>1, CountedEmit
  <2>3. Counted(v, LeaveAnthropic(r))
    BY <2>2 DEF LeaveAnthropic
  <2> QED BY <2>3 DEF Counted, Keeping
<1>3. Keeping(v, AfterLoop(protocol, r))
  BY <1>1, <1>2 DEF AfterLoop, Counted, Keeping
<1> DEFINE a == AfterLoop(protocol, r)
           result == IF broken \/ a.failed \/ ~a.terminated THEN "error" ELSE "ok"
<1>4. Leave(protocol, r, broken) = [a EXCEPT !.result = result]
  BY DEF Leave
<1> HIDE DEF a, result
<1> QED BY <1>3, <1>4 DEF Keeping, a

-----------------------------------------------------------------------------
(* What is recorded                                                        *)

Usages == [in : Nat, out : Nat, cached : Nat]

\* How many chunks end a stream before its usage is sent.
EndingsBefore(protocol, terse) == IF protocol = Chat /\ ~terse THEN 1 ELSE 0
Uncounted == EndingsBefore(ask.upstream, ask.terse)

\* What Anthropic says of its usage first.
InputOf(u) == [u EXCEPT !.out = 0]

\* What a reader has counted when so much is said: the usage once it is sent, and
\* of Anthropic the input before.
RightCount(said, v) ==
    /\ said.ending > Uncounted => v = answer.usage
    /\ ask.upstream = Anthropic /\ said.ending = 0 =>
          v = IF said.opening = 0 THEN ZeroUsage ELSE InputOf(answer.usage)

\* An ending comes after everything else.
EndsLast(said) ==
    said.ending > 0 => /\ said.opening >= Len(Opening(ask.upstream, ask.terse, answer))
                       /\ Ready(ask.upstream, ask.terse, answer, said.at) = {}

\* While an exchange is open its reader has the right count; then it is recorded.
UsageInv ==
    IF Open THEN /\ TypeInv /\ answer.usage \in Usages \ {ZeroUsage}
                 /\ ask.stream => /\ EndsLast(sent) /\ RightCount(sent, reader.usage)
                                  /\ "usage" \in DOMAIN reader
    ELSE UsageRecorded

\* The usage is split by Anthropic, and put together again.
LEMMA UsageMerges ==
    ASSUME NEW u \in Usages
    PROVE  /\ MergeUsage(ZeroUsage, [in |-> u.in - u.cached, out |-> 0, cached |-> u.cached])
                = InputOf(u)
           /\ MergeUsage(InputOf(u), [ZeroUsage EXCEPT !.out = u.out]) = u
           /\ MergeUsage(ZeroUsage, [u EXCEPT !.in = @ - u.cached]) = u
<1>1. /\ u.in \in Nat /\ u.out \in Nat /\ u.cached \in Nat
      /\ u = [in |-> u.in, out |-> u.out, cached |-> u.cached]
  BY DEF Usages
<1> DEFINE i == u.in
           o == u.out
           k == u.cached
<1>2. /\ ZeroUsage.in = 0 /\ ZeroUsage.out = 0 /\ ZeroUsage.cached = 0
      /\ InputOf(u) = [in |-> i, out |-> 0, cached |-> k]
      /\ [u EXCEPT !.in = @ - u.cached] = [in |-> i - k, out |-> o, cached |-> k]
      /\ [ZeroUsage EXCEPT !.out = u.out] = [in |-> 0, out |-> o, cached |-> 0]
  BY <1>1 DEF ZeroUsage, InputOf
<1> HIDE DEF i, o, k
<1>3. i \in Nat /\ o \in Nat /\ k \in Nat /\ u = [in |-> i, out |-> o, cached |-> k]
  BY <1>1 DEF i, o, k
<1>4. MergeUsage(ZeroUsage, [in |-> i - k, out |-> 0, cached |-> k]) = [in |-> i, out |-> 0, cached |-> k]
  BY <1>2, <1>3 DEF MergeUsage
<1>5. MergeUsage([in |-> i, out |-> 0, cached |-> k], [in |-> 0, out |-> o, cached |-> 0])
        = [in |-> i, out |-> o, cached |-> k]
  BY <1>3 DEF MergeUsage
<1>6. MergeUsage(ZeroUsage, [in |-> i - k, out |-> o, cached |-> k])
        = [in |-> i, out |-> o, cached |-> k]
  BY <1>2, <1>3 DEF MergeUsage
<1> QED BY <1>2, <1>3, <1>4, <1>5, <1>6 DEF i, k

\* What the usage is after a chunk of Anthropic.
LEMMA AnthropicAfter ==
    \A w, c : UsageAfter(Anthropic, w, c) = IF c.kind \in {"message_start", "message_delta"}
                                            THEN MergeUsage(w, c.usage) ELSE w
BY DEF UsageAfter, Chat, Responses, Anthropic, Gemini

\* A chunk that is not the first and not of the ending leaves the count of
\* Anthropic's reader as it is.
LEMMA AnthropicPieces ==
    ASSUME NEW v, NEW a, NEW terse, NEW i, NEW k
    PROVE  UsageAfter(Anthropic, v, Piece(Anthropic, terse, a, i, k)) = v
<1> DEFINE p == a.parts[i]
           c == [AnthropicBlank EXCEPT !.at = i - 1]
           block == CASE p.kind = "call" -> "tool_use" [] p.kind = "text" -> "text"
                      [] OTHER -> "thinking"
           delta == CASE p.kind = "call" -> "input_json" [] OTHER -> block
           begun == [NoBlock EXCEPT !.kind = block, !.id = p.id, !.name = p.name]
           grown == [NoBlock EXCEPT !.kind = delta, !.text = p.frags[k - 1]]
           signed == [NoBlock EXCEPT !.kind = "signature", !.text = p.sig]
           piece == Piece(Anthropic, terse, a, i, k)
<1>1. \/ piece = [c EXCEPT !.kind = "block_start", !.block = begun]
      \/ piece = [c EXCEPT !.kind = "block_delta", !.delta = grown]
      \/ piece = [c EXCEPT !.kind = "block_delta", !.delta = signed]
      \/ piece = [c EXCEPT !.kind = "block_stop"]
  BY DEF Piece, AnthropicPiece, Chat, Responses, Anthropic, Gemini
<1>2. "kind" \in DOMAIN c
  BY DEF AnthropicBlank
<1> HIDE DEF c, begun, grown, signed, piece
<1>3. piece.kind \in {"block_start", "block_delta", "block_stop"}
  BY <1>1, <1>2
<1> QED BY <1>3, AnthropicAfter DEF piece

\* The first begins it.
LEMMA AnthropicCounts ==
    ASSUME NEW v, NEW a, NEW terse
    PROVE  /\ \A c \in BadChunks(Anthropic) : UsageAfter(Anthropic, v, c) = v
           /\ Len(Opening(Anthropic, terse, a)) = 1
           /\ UsageAfter(Anthropic, ZeroUsage, Opening(Anthropic, terse, a)[1])
                = MergeUsage(ZeroUsage, [in |-> a.usage.in - a.usage.cached, out |-> 0,
                                         cached |-> a.usage.cached])
<1>1. ASSUME NEW c \in BadChunks(Anthropic) PROVE UsageAfter(Anthropic, v, c) = v
  <2>1. PICK k \in {"error", "garbage"} : c = [AnthropicBlank EXCEPT !.kind = k]
    BY DEF BadChunks, BlankOf, Chat, Responses, Anthropic, Gemini
  <2>2. c.kind = k
    BY <2>1 DEF AnthropicBlank
  <2> QED BY <2>2, AnthropicAfter
<1> DEFINE u == [in |-> a.usage.in - a.usage.cached, out |-> 0, cached |-> a.usage.cached]
           c == [AnthropicBlank EXCEPT !.kind = "message_start", !.usage = u]
<1>2. Opening(Anthropic, terse, a) = <<c>>
  BY DEF Opening, Chat, Responses, Anthropic, Gemini
<1>3. c.kind = "message_start" /\ c.usage = u
  <2> HIDE DEF u
  <2> QED BY DEF AnthropicBlank
<1> HIDE DEF c
<1>4. Len(<<c>>) = 1 /\ <<c>>[1] = c
  OBVIOUS
<1> QED BY <1>1, <1>2, <1>3, <1>4, AnthropicAfter

\* A list of the length of the parts joined, with their elements in turn, is
\* what joining them gives.
LEMMA JoinIs ==
    ASSUME NEW T, NEW s \in Seq(T), NEW t \in Seq(T), NEW w \in Seq(T),
           Len(w) = Len(s) + Len(t),
           \A i \in 1 .. Len(s) + Len(t) :
               w[i] = IF i <= Len(s) THEN s[i] ELSE t[i - Len(s)]
    PROVE  s \o t = w
<1> DEFINE a == s \o t
<1>1. /\ a \in Seq(T)
      /\ Len(a) = Len(s) + Len(t)
      /\ \A i \in 1 .. Len(s) + Len(t) :
             a[i] = IF i <= Len(s) THEN s[i] ELSE t[i - Len(s)]
  BY ConcatProperties, Zenon
<1> HIDE DEF a
<1>2. Len(a) = Len(w)
  BY <1>1
<1>3. ASSUME NEW i \in 1 .. Len(a) PROVE a[i] = w[i]
  <2>1. i \in 1 .. Len(s) + Len(t)
    BY <1>1
  <2> QED BY <2>1, <1>1, Zenon
<1>4. a = w
  BY <1>1, <1>2, <1>3, SeqEqual, Zenon
<1> QED BY <1>4 DEF a

\* Lists of one and of two elements are joined.
LEMMA SinglesJoin ==
    ASSUME NEW x, NEW y, NEW z
    PROVE  <<x>> \o <<y>> = <<x, y>> /\ <<x, y>> \o <<z>> = <<x, y, z>>
<1> DEFINE T == {x, y, z}
           s == <<x>>
           t == <<y>>
           v == <<z>>
           w == <<x, y>>
           u == <<x, y, z>>
<1>1. s \in Seq(T) /\ t \in Seq(T) /\ w \in Seq(T) /\ v \in Seq(T) /\ u \in Seq(T)
  OBVIOUS
<1>2. /\ Len(s) = 1 /\ s[1] = x /\ Len(t) = 1 /\ t[1] = y /\ Len(v) = 1 /\ v[1] = z
      /\ Len(w) = 2 /\ w[1] = x /\ w[2] = y
      /\ Len(u) = 3 /\ u[1] = x /\ u[2] = y /\ u[3] = z
  OBVIOUS
<1> HIDE DEF T, s, t, u, w, v
<1>3. /\ Len(w) = Len(s) + Len(t)
      /\ \A i \in 1 .. Len(s) + Len(t) :
             w[i] = IF i <= Len(s) THEN s[i] ELSE t[i - Len(s)]
  BY <1>2
<1>4. /\ Len(u) = Len(w) + Len(v)
      /\ \A i \in 1 .. Len(w) + Len(v) :
             u[i] = IF i <= Len(w) THEN w[i] ELSE v[i - Len(w)]
  BY <1>2
<1>5. s \o t = w
  BY <1>1, <1>3, JoinIs, Zenon
<1>6. w \o v = u
  BY <1>1, <1>4, JoinIs, Zenon
<1> QED BY <1>5, <1>6, Zenon DEF s, t, w, v, u

\* The chunks of an ending: the usage comes with the first, of Chat with the
\* second where it has one of its own.
LEMMA EndingCounts ==
    ASSUME NEW protocol \in Protocols, NEW terse, NEW a, a.usage \in Usages \ {ZeroUsage},
           NEW n \in Nat, n < Len(Ending(protocol, terse, a)), NEW v,
           n > EndingsBefore(protocol, terse) => v = a.usage,
           protocol = Anthropic /\ n = 0 => v = InputOf(a.usage),
           n + 1 > EndingsBefore(protocol, terse)
    PROVE  UsageAfter(protocol, v, Ending(protocol, terse, a)[n + 1]) = a.usage
<1> DEFINE ending == Ending(protocol, terse, a)
           word == Word(protocol, a.reason)
           refusal == TextOf(a, "refusal")
           u == a.usage
<1>0. n < Len(ending)
  OBVIOUS
<1>1. CASE protocol = Chat
  <2> DEFINE x == [ChatBlank EXCEPT !.finish = word, !.usage = u]
             y == [ChatBlank EXCEPT !.finish = word]
             z == [ChatBlank EXCEPT !.usage = u]
             d == [ChatBlank EXCEPT !.kind = "[DONE]"]
  <2>1. ending = (IF terse THEN <<x>> ELSE <<y, z>>) \o <<d>>
    BY <1>1 DEF Ending, Chat, Responses, Anthropic, Gemini
  <2> HIDE DEF word, u
  <2>2. /\ x.kind = "chunk" /\ x.usage = u /\ z.kind = "chunk" /\ z.usage = u
        /\ d.kind = "[DONE]"
    BY DEF ChatBlank
  <2>3. \A c : UsageAfter(Chat, v, c) = IF c.kind \in {"[DONE]", "error", "garbage"} \/ c.usage = ZeroUsage
                                        THEN v ELSE c.usage
    BY DEF UsageAfter, Chat, Responses, Anthropic, Gemini
  <2> HIDE DEF x, y, z, d
  <2>4. UsageAfter(Chat, v, x) = u /\ UsageAfter(Chat, v, z) = u /\ UsageAfter(Chat, v, d) = v
    <3>1. u # ZeroUsage
      BY DEF u
    <3> QED BY <2>2, <2>3, <3>1
  <2>5. CASE terse
    <3>1. ending = <<x, d>>
      <4> HIDE DEF ending
      <4>1. ending = <<x>> \o <<d>>
        BY <2>1, <2>5
      <4> QED BY <4>1, SinglesJoin
    <3> HIDE DEF ending
    <3>2. n < Len(ending) /\ (n > 0 => v = u)
      BY <1>0, <1>1, <2>5 DEF u, EndingsBefore
    <3>3. (n = 0 /\ ending[n + 1] = x) \/ (n = 1 /\ ending[n + 1] = d)
      BY <3>1, <3>2
    <3> QED BY <1>1, <2>4, <3>2, <3>3 DEF ending, u
  <2>6. CASE ~terse
    <3>1. ending = <<y, z, d>>
      <4> HIDE DEF ending
      <4>1. ending = <<y, z>> \o <<d>>
        BY <2>1, <2>6
      <4> QED BY <4>1, SinglesJoin
    <3> HIDE DEF ending
    <3>2. n < Len(ending) /\ (n > 1 => v = u) /\ n + 1 > 1
      BY <1>0, <1>1, <2>6 DEF u, EndingsBefore
    <3>3. (n = 1 /\ ending[n + 1] = z) \/ (n = 2 /\ ending[n + 1] = d)
      BY <3>1, <3>2
    <3> QED BY <1>1, <2>4, <3>2, <3>3 DEF ending, u
  <2> QED BY <2>5, <2>6
<1>2. CASE protocol = Gemini
  <2> DEFINE Flat(p) == [GeminiPart(p, IF p.kind = "call" THEN None ELSE PartText(p))
                           EXCEPT !.sig = p.sig]
             parts == IF ~terse THEN <<>> ELSE [i \in DOMAIN a.parts |-> Flat(a.parts[i])]
             x == [GeminiBlank EXCEPT !.candidate = FALSE, !.blocked = refusal, !.usage = u]
             y == [GeminiBlank EXCEPT !.parts = parts, !.finish = word, !.usage = u]
  <2>1. ending = <<x>> \/ ending = <<y>>
    BY <1>2 DEF Ending, Chat, Responses, Anthropic, Gemini
  <2> HIDE DEF parts, word, refusal, u
  <2>2. x.kind = "chunk" /\ x.usage = u /\ y.kind = "chunk" /\ y.usage = u
    BY DEF GeminiBlank
  <2>3. \A c : UsageAfter(Gemini, v, c) = IF c.kind \in {"[DONE]", "error", "garbage"} \/ c.usage = ZeroUsage
                                          THEN v ELSE c.usage
    BY DEF UsageAfter, Chat, Responses, Anthropic, Gemini
  <2> HIDE DEF x, y, ending
  <2>4. ending[n + 1] \in {x, y}
    BY <2>1, ListSingle, Within DEF ending
  <2> QED BY <1>2, <2>2, <2>3, <2>4 DEF ending, u
<1>3. CASE protocol = Responses
  <2> DEFINE output == [i \in DOMAIN a.parts |-> ResponsesItem(a.parts[i], i)]
             status == IF word = "completed" THEN word ELSE "incomplete"
             x == [ResponsesBlank EXCEPT !.kind = "final", !.status = status, !.why = word,
                                         !.usage = u, !.output = output]
  <2>1. ending = <<x>>
    BY <1>3 DEF Ending, Chat, Responses, Anthropic, Gemini
  <2> HIDE DEF output, word, status, u
  <2>2. x.kind = "final" /\ x.usage = u
    BY DEF ResponsesBlank
  <2>3. \A c : UsageAfter(Responses, v, c) = IF c.kind = "final" THEN c.usage ELSE v
    BY DEF UsageAfter, Chat, Responses, Anthropic, Gemini
  <2> HIDE DEF x, ending
  <2>4. ending[n + 1] = x
    BY <2>1, ListSingle, Within DEF ending
  <2> QED BY <1>3, <2>2, <2>3, <2>4 DEF ending, u
<1>4. CASE protocol = Anthropic
  <2> DEFINE w == [ZeroUsage EXCEPT !.out = a.usage.out]
             x == [AnthropicBlank EXCEPT !.kind = "message_delta", !.reason = word,
                                         !.explanation = refusal, !.usage = w]
             y == [AnthropicBlank EXCEPT !.kind = "message_stop"]
  <2>1. ending = <<x, y>>
    BY <1>4 DEF Ending, Chat, Responses, Anthropic, Gemini
  <2> HIDE DEF word, refusal
  <2>2. x.kind = "message_delta" /\ x.usage = w /\ y.kind = "message_stop"
    <3> HIDE DEF w
    <3> QED BY DEF AnthropicBlank
  <2>3. \A c : UsageAfter(Anthropic, v, c) = IF c.kind \in {"message_start", "message_delta"}
                                             THEN MergeUsage(v, c.usage) ELSE v
    BY DEF UsageAfter, Chat, Responses, Anthropic, Gemini
  <2>4. MergeUsage(InputOf(u), w) = u
    BY UsageMerges
  <2>5. n < Len(ending) /\ (n > 0 => v = u) /\ (n = 0 => v = InputOf(u))
    BY <1>0, <1>4 DEF Chat, Anthropic, EndingsBefore
  <2> HIDE DEF x, y, w, ending, u
  <2>6. (n = 0 /\ ending[n + 1] = x) \/ (n = 1 /\ ending[n + 1] = y)
    BY <2>1, <2>5
  <2>7. UsageAfter(Anthropic, v, ending[n + 1]) = u
    BY <2>2, <2>3, <2>4, <2>5, <2>6
  <2> QED BY <1>4, <2>7 DEF ending, u
<1> QED BY <1>1, <1>2, <1>3, <1>4 DEF Protocols

\* How many chunks open a stream.
LEMMA OpeningLength ==
    ASSUME NEW protocol \in Protocols, NEW terse, NEW a
    PROVE  Len(Opening(protocol, terse, a)) \in Nat
<1> DEFINE o == Opening(protocol, terse, a)
<1>1. Lst(o)
  <2>1. CASE protocol = Chat
    <3>1. \E c : o = Opt(~terse, c)
      BY <2>1 DEF Opening, Chat, Responses, Anthropic, Gemini
    <3> QED BY <3>1, ListOpt
  <2>2. CASE protocol = Gemini
    BY <2>2, EmptyList DEF Opening, Chat, Responses, Anthropic, Gemini
  <2>3. CASE protocol \in {Responses, Anthropic}
    <3>1. \E c : o = <<c>>
      BY <2>3 DEF Opening, Chat, Responses, Anthropic, Gemini
    <3> HIDE DEF o
    <3> QED BY <3>1, ListSingle
  <2> QED BY <2>1, <2>2, <2>3 DEF Protocols
<1> QED BY <1>1, ListDomain

\* The next chunk keeps the count right.
LEMMA ChunkCounts ==
    ASSUME TypeInv, answer.usage \in Usages \ {ZeroUsage}, EndsLast(sent),
           NEW v, RightCount(sent, v),
           NEW s \in NextChunks(ask.upstream, ask.terse, answer, sent)
    PROVE  EndsLast(s[2]) /\ RightCount(s[2], UsageAfter(ask.upstream, v, s[1]))
<1> DEFINE opening == Opening(ask.upstream, ask.terse, answer)
           ready == Ready(ask.upstream, ask.terse, answer, sent.at)
           ending == Ending(ask.upstream, ask.terse, answer)
           opened == [sent EXCEPT !.opening = @ + 1]
           ended == [sent EXCEPT !.ending = @ + 1]
           Came(i) == [sent EXCEPT !.at[i] = @ + 1]
           Next1(i) == Piece(ask.upstream, ask.terse, answer, i, sent.at[i] + 1)
<1>1. \/ sent.opening < Len(opening) /\ s = <<opening[sent.opening + 1], opened>>
      \/ /\ ~(sent.opening < Len(opening))
         /\ \E i \in ready : s = <<Next1(i), Came(i)>>
      \/ /\ ~(sent.opening < Len(opening)) /\ ready = {}
         /\ sent.ending < Len(ending) /\ s = <<ending[sent.ending + 1], ended>>
  <2> HIDE DEF opening, ready, ending, opened, ended, Came, Next1
  <2>1. NextChunks(ask.upstream, ask.terse, answer, sent) =
          IF sent.opening < Len(opening) THEN {<<opening[sent.opening + 1], opened>>}
          ELSE IF ready # {} THEN {<<Next1(i), Came(i)>> : i \in ready}
          ELSE IF sent.ending < Len(ending) THEN {<<ending[sent.ending + 1], ended>>}
          ELSE {}
    BY DEF NextChunks, opening, ready, ending, opened, ended, Came, Next1
  <2> QED BY <2>1
<1>2. /\ sent.opening \in Nat /\ sent.ending \in Nat /\ ask.upstream \in Protocols
      /\ opened.opening = sent.opening + 1 /\ opened.ending = sent.ending
      /\ \A i : Came(i).opening = sent.opening /\ Came(i).ending = sent.ending
      /\ ended.opening = sent.opening /\ ended.ending = sent.ending + 1 /\ ended.at = sent.at
  BY DEF TypeInv, Progress, Asks
<1>3. Len(opening) \in Nat
  BY OpeningLength, <1>2
<1>4. /\ sent.ending > 0 => sent.opening >= Len(opening) /\ ready = {}
      /\ Uncounted \in {0, 1}
  BY DEF EndsLast, Uncounted, EndingsBefore
<1>5. ask.upstream = Anthropic => Len(opening) = 1
  BY AnthropicCounts
<1> HIDE DEF ready, ending, opened, ended, Came
<1>6. CASE sent.opening < Len(opening) /\ s = <<opening[sent.opening + 1], opened>>
  <2>1. sent.ending = 0
    BY <1>2, <1>3, <1>4, <1>6
  <2>2. EndsLast(opened)
    BY <1>2, <2>1 DEF EndsLast
  <2>3. ask.upstream = Anthropic =>
          UsageAfter(ask.upstream, v, opening[sent.opening + 1]) = InputOf(answer.usage)
    <3>1. SUFFICES ASSUME ask.upstream = Anthropic
                   PROVE  UsageAfter(ask.upstream, v, opening[sent.opening + 1])
                            = InputOf(answer.usage)
      OBVIOUS
    <3>2. sent.opening = 0 /\ v = ZeroUsage
      BY <1>2, <1>5, <1>6, <2>1, <3>1 DEF RightCount
    <3>3. UsageAfter(Anthropic, ZeroUsage, Opening(Anthropic, ask.terse, answer)[1])
            = MergeUsage(ZeroUsage, [in |-> answer.usage.in - answer.usage.cached, out |-> 0,
                                     cached |-> answer.usage.cached])
      BY AnthropicCounts
    <3>4. MergeUsage(ZeroUsage, [in |-> answer.usage.in - answer.usage.cached, out |-> 0,
                                 cached |-> answer.usage.cached]) = InputOf(answer.usage)
      BY UsageMerges
    <3>5. 0 + 1 = 1
      OBVIOUS
    <3> QED BY <3>1, <3>2, <3>3, <3>4, <3>5
  <2>4. RightCount(opened, UsageAfter(ask.upstream, v, opening[sent.opening + 1]))
    <3> DEFINE w == UsageAfter(ask.upstream, v, opening[sent.opening + 1])
    <3> HIDE DEF w
    <3>1. opened.ending = 0 /\ opened.opening # 0
      BY <1>2, <2>1
    <3>2. ~(opened.ending > Uncounted)
      BY <1>4, <3>1
    <3>3. ask.upstream = Anthropic => w = InputOf(answer.usage)
      BY <2>3 DEF w
    <3>4. RightCount(opened, w)
      BY <3>1, <3>2, <3>3 DEF RightCount
    <3> QED BY <3>4 DEF w
  <2> HIDE DEF opening
  <2> QED BY <1>6, <2>2, <2>4
<1>7. CASE ~(sent.opening < Len(opening)) /\ \E i \in ready : s = <<Next1(i), Came(i)>>
  <2>1. PICK i \in ready : s = <<Next1(i), Came(i)>>
    BY <1>7
  <2>2. sent.ending = 0
    BY <1>2, <1>4, <2>1
  <2>3. EndsLast(Came(i))
    BY <1>2, <2>2 DEF EndsLast
  <2>4. ask.upstream = Anthropic => UsageAfter(ask.upstream, v, Next1(i)) = v
    <3>1. UsageAfter(Anthropic, v, Piece(Anthropic, ask.terse, answer, i, sent.at[i] + 1)) = v
      BY AnthropicPieces
    <3> QED BY <3>1
  <2>5. ask.upstream = Anthropic => v = InputOf(answer.usage) /\ sent.opening # 0
    <3>1. SUFFICES ASSUME ask.upstream = Anthropic
                   PROVE  v = InputOf(answer.usage) /\ sent.opening # 0
      OBVIOUS
    <3>2. sent.opening # 0
      <4> HIDE DEF opening, Next1
      <4>1. ~(sent.opening < Len(opening)) /\ Len(opening) = 1
        BY <1>5, <1>7, <3>1
      <4> QED BY <4>1
    <3> QED BY <2>2, <3>1, <3>2 DEF RightCount
  <2> DEFINE w == UsageAfter(ask.upstream, v, Next1(i))
             t == Came(i)
  <2>6. t.ending = 0 /\ t.opening = sent.opening
    BY <1>2, <2>2
  <2>7. ask.upstream = Anthropic => w = InputOf(answer.usage)
    BY <2>4, <2>5
  <2> HIDE DEF w, t
  <2>8. ~(t.ending > Uncounted)
    BY <1>4, <2>6
  <2>9. RightCount(t, w)
    BY <2>5, <2>6, <2>7, <2>8 DEF RightCount
  <2> HIDE DEF Next1
  <2> QED BY <2>1, <2>3, <2>9 DEF w, t
<1>8. CASE /\ ~(sent.opening < Len(opening)) /\ ready = {}
           /\ sent.ending < Len(ending) /\ s = <<ending[sent.ending + 1], ended>>
  <2>1. EndsLast(ended)
    <3>1. sent.opening >= Len(opening) /\ ready = {}
      BY <1>2, <1>3, <1>8
    <3> QED BY <1>2, <3>1 DEF EndsLast, ready
  <2> DEFINE w == UsageAfter(ask.upstream, v, ending[sent.ending + 1])
  <2>2. ended.ending > Uncounted => w = answer.usage
    <3>1. SUFFICES ASSUME sent.ending + 1 > Uncounted PROVE w = answer.usage
      BY <1>2
    <3>2. Uncounted = EndingsBefore(ask.upstream, ask.terse)
      BY DEF Uncounted
    <3>3. sent.ending > Uncounted => v = answer.usage
      BY DEF RightCount
    <3>4. ask.upstream = Anthropic /\ sent.ending = 0 => v = InputOf(answer.usage)
      <4>1. SUFFICES ASSUME ask.upstream = Anthropic, sent.ending = 0 PROVE v = InputOf(answer.usage)
        OBVIOUS
      <4>2. sent.opening # 0
        <5> HIDE DEF opening, w
        <5>1. ~(sent.opening < Len(opening)) /\ Len(opening) = 1
          BY <1>5, <1>8, <4>1
        <5> QED BY <5>1
      <4> QED BY <4>1, <4>2 DEF RightCount
    <3>5. sent.ending < Len(Ending(ask.upstream, ask.terse, answer))
      BY <1>8 DEF ending
    <3>6. /\ sent.ending \in Nat /\ ask.upstream \in Protocols
          /\ sent.ending > EndingsBefore(ask.upstream, ask.terse) => v = answer.usage
          /\ sent.ending + 1 > EndingsBefore(ask.upstream, ask.terse)
      BY <1>2, <3>1, <3>2, <3>3
    <3>7. UsageAfter(ask.upstream, v, Ending(ask.upstream, ask.terse, answer)[sent.ending + 1])
            = answer.usage
      <4> HIDE DEF opening, w
      <4> QED BY <3>4, <3>5, <3>6, EndingCounts
    <3> QED BY <3>7 DEF ending
  <2> HIDE DEF w
  <2>3. ended.ending # 0
    BY <1>2
  <2>4. RightCount(ended, w)
    BY <2>2, <2>3 DEF RightCount
  <2> QED BY <1>8, <2>1, <2>4 DEF w
<1> HIDE DEF opening, Next1
<1> QED BY <1>1, <1>6, <1>7, <1>8

\* A chunk that cannot be read counts nothing.
LEMMA BadCounts ==
    ASSUME NEW protocol \in Protocols, NEW v, NEW c \in BadChunks(protocol)
    PROVE  UsageAfter(protocol, v, c) = v
<1>1. CASE protocol = Anthropic
  BY <1>1, AnthropicCounts
<1>2. CASE protocol # Anthropic
  <2>1. PICK k \in {"error", "garbage", "failed"} :
          /\ c = [BlankOf(protocol) EXCEPT !.kind = k]
          /\ k = "failed" => protocol = Responses
    BY DEF BadChunks
  <2>2. c.kind = k
    BY <2>1 DEF BlankOf, ChatBlank, GeminiBlank, ResponsesBlank, AnthropicBlank, Protocols,
                Chat, Responses, Anthropic, Gemini
  <2> QED BY <1>2, <2>1, <2>2 DEF UsageAfter, Protocols, Chat, Responses, Anthropic, Gemini
<1> QED BY <1>1, <1>2

\* What is passed on keeps the count, and records it when it ends.
LEMMA UsagePassed ==
    ASSUME NEW v, NEW q, Keeping(v, q), PassOn(q)
    PROVE  /\ ask' = ask /\ answer' = answer
           /\ Keeping(v, reader') /\ (record' = record \/ record'.usage = v)
<1> DEFINE Passed(x, f, heard) ==
              /\ reader' = [x EXCEPT !.out = <<>>]
              /\ encoder' = [f EXCEPT !.out = <<>>]
              /\ client' = heard
              /\ shown' = ShownBy(heard)
              /\ record' = IF x.result = "" THEN record
                           ELSE [status |-> IF x.result = "ok" THEN 200 ELSE 502, usage |-> x.usage]
              /\ memory' \in Remembered(x.out)
              /\ UNCHANGED <<ask, answer>>
<1>1. PICK r \in {q} :
    \E e \in {FoldLeft(LAMBDA x, ev : Encode(ask.client, x, ev), encoder, r.out)} :
    \E f \in {IF r.result = "" THEN e ELSE EncodeEnd(ask.client, e, r.usage, r.result = "ok")} :
    \E heard \in {FoldLeft(LAMBDA c, w : Hear(ask.client, c, w), client, f.out)} :
        Passed(r, f, heard)
  BY DEF PassOn
<1>2. \E f, heard : Passed(q, f, heard)
  <2>1. r = q
    OBVIOUS
  <2>2. PICK e : \E f \in {IF r.result = "" THEN e ELSE EncodeEnd(ask.client, e, r.usage, r.result = "ok")} :
                 \E heard \in {FoldLeft(LAMBDA c, w : Hear(ask.client, c, w), client, f.out)} :
                    Passed(r, f, heard)
    BY <1>1
  <2> HIDE DEF Passed
  <2>3. \E f, heard : Passed(r, f, heard)
    BY <2>2
  <2> QED BY <2>1, <2>3
<1>3. /\ reader' = [q EXCEPT !.out = <<>>]
      /\ record' = IF q.result = "" THEN record
                   ELSE [status |-> IF q.result = "ok" THEN 200 ELSE 502, usage |-> q.usage]
      /\ ask' = ask /\ answer' = answer
  BY <1>2
<1>4. Keeping(v, reader')
  BY <1>3 DEF Keeping
<1>5. record' = record \/ record'.usage = v
  BY <1>3 DEF Keeping
<1> QED BY <1>3, <1>4, <1>5

\* A stream goes on with the right count, or is recorded with it.
LEMMA UsageGoesOn ==
    ASSUME UsageInv, Open, ask.stream, NEW v, NEW q, Keeping(v, q), PassOn(q), TypeInv',
           EndsLast(sent'), RightCount(sent', v)
    PROVE  UsageInv'
<1>1. /\ ask' = ask /\ answer' = answer
      /\ Keeping(v, reader') /\ (record' = record \/ record'.usage = v)
  BY UsagePassed
<1>2. EndsLast(sent)'
  BY <1>1 DEF EndsLast
<1>3. RightCount(sent, reader.usage)'
  BY <1>1 DEF RightCount, Keeping, Uncounted, EndingsBefore
<1>4. CASE Open'
  BY <1>1, <1>2, <1>3, <1>4 DEF UsageInv, Keeping
<1>5. CASE ~Open'
  <2>1. record'.usage = v
    BY <1>1, <1>5 DEF Open
  <2>2. UsageSent' => sent'.ending > Uncounted
    BY <1>1 DEF UsageSent, Uncounted, EndingsBefore, Finished
  <2>3. UsageRecorded'
    BY <1>1, <2>1, <2>2 DEF UsageRecorded, RightCount
  <2> QED BY <1>5, <2>3 DEF UsageInv
<1> QED BY <1>4, <1>5

\* So does every chunk that is delivered.
LEMMA UsageDelivered ==
    ASSUME UsageInv, Open, ask.stream, NEW chunk, Midway("any", ask.upstream, chunk), Deliver(chunk),
           TypeInv', EndsLast(sent'),
           RightCount(sent', UsageAfter(ask.upstream, reader.usage, chunk))
    PROVE  UsageInv'
<1> DEFINE v == UsageAfter(ask.upstream, reader.usage, chunk)
           r == Read(ask.upstream, reader, chunk)
           q == IF r.over = "" THEN r ELSE Leave(ask.upstream, r, FALSE)
<1>1. ask.upstream \in Protocols /\ Counted(reader.usage, reader)
  BY DEF UsageInv, TypeInv, Asks, Counted
<1>2. Counted(v, r)
  BY <1>1, CountedRead
<1>3. PassOn(q)
  BY DEF Deliver
<1> HIDE DEF v, r
<1>4. Keeping(v, q)
  <2>1. Keeping(v, r)
    BY <1>2 DEF Counted, Keeping
  <2> QED BY <1>1, <1>2, <2>1, CountedLeft
<1> HIDE DEF q
<1>5. RightCount(sent', v)
  BY DEF v
<1> QED BY <1>3, <1>4, <1>5, UsageGoesOn

\* The usage of a whole answer.
LEMMA WholeCounts ==
    ASSUME NEW protocol \in Protocols, NEW a, a.usage \in Usages, NEW request
    PROVE  FromProvider(protocol, a, request).usage = a.usage
<1>1. \A x1, x2, x3, x4, x5, x6, u : Response(x1, x2, x3, x4, x5, x6, u).usage = u
  BY DEF Response
<1>2. CASE protocol = Chat
  BY <1>1, <1>2 DEF FromProvider, WholeFromChat, Chat, Responses, Anthropic, Gemini
<1>3. CASE protocol = Gemini
  BY <1>3 DEF FromProvider, WholeFromGemini, Response, Chat, Responses, Anthropic, Gemini
<1>4. CASE protocol = Anthropic
  <2> DEFINE u == [a.usage EXCEPT !.in = @ - a.usage.cached]
  <2>1. MergeUsage(ZeroUsage, u) = a.usage
    BY UsageMerges
  <2>2. FromProvider(Anthropic, a, request).usage = MergeUsage(ZeroUsage, u)
    <3> HIDE DEF u
    <3>1. \E x1, x2, x3, x4, x5, x6 :
            FromProvider(Anthropic, a, request)
              = Response(x1, x2, x3, x4, x5, x6, MergeUsage(ZeroUsage, u))
      BY DEF FromProvider, WholeFromAnthropic, Chat, Responses, Anthropic, Gemini, u
    <3> QED BY <1>1, <3>1
  <2> QED BY <1>4, <2>1, <2>2
<1>5. CASE protocol = Responses
  <2> DEFINE word == Word(Responses, a.reason)
             u == a.usage
             output == [i \in DOMAIN a.parts |-> ResponsesItem(a.parts[i], i)]
             status == IF word = "completed" THEN word ELSE "incomplete"
             x == [ResponsesBlank EXCEPT !.kind = "final", !.status = status, !.why = word,
                                         !.usage = u, !.output = output]
             ending == Ending(Responses, TRUE, a)
             final == ending[1]
  <2>1. ending = <<x>>
    BY DEF Ending, Chat, Responses, Anthropic, Gemini
  <2> HIDE DEF output, word, status, u
  <2>2. x.usage = u
    BY DEF ResponsesBlank
  <2> HIDE DEF x
  <2> HIDE DEF ending
  <2>3. final = x
    BY <2>1
  <2> HIDE DEF final
  <2>4. \A o, s, w, n : FromResponses(o, s, w, n).usage = n
    BY <1>1 DEF FromResponses
  <2>5. FromProvider(Responses, a, request)
          = FromResponses(final.output, final.status, final.why, final.usage)
    BY DEF FromProvider, WholeFromResponses, final, ending, Chat, Responses, Anthropic, Gemini
  <2> QED BY <1>5, <2>2, <2>3, <2>4, <2>5 DEF u
<1> QED BY <1>2, <1>3, <1>4, <1>5 DEF Protocols

\* Nothing is counted at first.
LEMMA UsageInit == Init => UsageInv
<1> SUFFICES ASSUME Init PROVE UsageInv
  OBVIOUS
<1>1. PICK a \in Asks, w \in Answers :
         /\ ask = a /\ answer = Spoken(a.upstream, w)
         /\ reader = [NewReader(Request) EXCEPT
                        !.out = IF a.upstream = Gemini THEN <<ResponseStart, MessageStart>>
                                ELSE <<>>]
  BY DEF Init
<1>2. Open /\ sent.ending = 0 /\ sent.opening = 0
  BY DEF Init, Open, Untold
<1>3. answer.usage = w.usage
  <2>1. w.usage = Spoken(a.upstream, w).usage
    BY DEF Spoken
  <2> QED BY <1>1, <2>1
<1>4. answer.usage \in Usages \ {ZeroUsage}
  BY <1>3, UsageAssumption DEF Usages
<1>5. "usage" \in DOMAIN reader /\ reader.usage = ZeroUsage
  BY <1>1 DEF NewReader
<1>6. EndsLast(sent) /\ RightCount(sent, reader.usage)
  BY <1>2, <1>5 DEF EndsLast, RightCount, Uncounted, EndingsBefore
<1> QED BY <1>2, <1>4, <1>5, <1>6, TypeInit DEF UsageInv

\* Every step counts right.
LEMMA UsageNext == UsageInv /\ [Next]_vars => UsageInv'
<1> SUFFICES ASSUME UsageInv, [Next]_vars PROVE UsageInv'
  OBVIOUS
<1>1. Open => /\ TypeInv /\ TypeInv' /\ ask.upstream \in Protocols
              /\ Lst(answer.parts) /\ Progress(sent)
  BY TypeNext DEF UsageInv, TypeInv, Asks
<1>2. CASE ChunkArrives
  <2>1. PICK s \in NextChunks(ask.upstream, ask.terse, answer, sent) : sent' = s[2] /\ Deliver(s[1])
    BY <1>2 DEF ChunkArrives
  <2>2. Open /\ ask.stream
    BY <1>2 DEF ChunkArrives
  <2>3. Midway("any", ask.upstream, s[1])
    <3>1. "any" = "any" => Midway("any", ask.upstream, s[1])
      BY <1>1, <2>1, <2>2, NextMidway
    <3> QED BY <3>1
  <2>4. EndsLast(sent') /\ RightCount(sent', UsageAfter(ask.upstream, reader.usage, s[1]))
    <3>1. EndsLast(sent) /\ RightCount(sent, reader.usage) /\ answer.usage \in Usages \ {ZeroUsage}
      BY <2>2 DEF UsageInv
    <3>2. EndsLast(s[2]) /\ RightCount(s[2], UsageAfter(ask.upstream, reader.usage, s[1]))
      BY <1>1, <2>1, <2>2, <3>1, ChunkCounts
    <3> QED BY <2>1, <3>2
  <2> QED BY <1>1, <2>1, <2>2, <2>3, <2>4, UsageDelivered
<1>3. CASE BadChunkArrives
  <2>1. PICK c \in BadChunks(ask.upstream) : Deliver(c)
    BY <1>3 DEF BadChunkArrives
  <2>2. Open /\ ask.stream /\ sent' = sent
    BY <1>3 DEF BadChunkArrives
  <2>3. Midway("any", ask.upstream, c)
    BY <1>1, <2>1, <2>2, BadMidway
  <2>4. UsageAfter(ask.upstream, reader.usage, c) = reader.usage
    BY <1>1, <2>1, <2>2, BadCounts
  <2>5. EndsLast(sent') /\ RightCount(sent', UsageAfter(ask.upstream, reader.usage, c))
    BY <2>2, <2>4 DEF UsageInv
  <2> QED BY <1>1, <2>1, <2>2, <2>3, <2>5, UsageDelivered
<1>4. CASE BodyEnds
  <2>1. PICK broken \in BOOLEAN : PassOn(Leave(ask.upstream, reader, broken))
    BY <1>4 DEF BodyEnds
  <2>2. Open /\ ask.stream /\ sent' = sent
    BY <1>4 DEF BodyEnds
  <2>3. Counted(reader.usage, reader)
    BY <1>1, <2>2 DEF UsageInv, TypeInv, Counted
  <2>4. Keeping(reader.usage, Leave(ask.upstream, reader, broken))
    BY <1>1, <2>2, <2>3, CountedLeft
  <2>5. EndsLast(sent') /\ RightCount(sent', reader.usage)
    BY <2>2 DEF UsageInv
  <2> QED BY <1>1, <2>1, <2>2, <2>4, <2>5, UsageGoesOn
<1>5. CASE WholeArrives
  <2> DEFINE r == FromProvider(ask.upstream, answer, Request)
             told == [status |-> 200, usage |-> r.usage]
  <2>1. Open /\ record' = told /\ answer' = answer
    BY <1>5 DEF WholeArrives
  <2>2. r.usage = answer.usage
    BY <1>1, <2>1, WholeCounts DEF UsageInv
  <2> HIDE DEF r
  <2>3. record'.usage = answer.usage /\ record'.status = 200
    BY <2>1, <2>2
  <2>4. ~Open'
    BY <2>3, NoneRecorded DEF Open
  <2> QED BY <1>1, <2>1, <2>3, <2>4 DEF UsageInv, UsageRecorded
<1>6. CASE AnswerRefused
  <2>1. PICK status \in {400, 502} : record' = [NoRecord EXCEPT !.status = status]
    BY <1>6 DEF AnswerRefused
  <2>2. /\ ask' = ask /\ sent' = sent /\ sent = Untold(answer)
    BY <1>6 DEF AnswerRefused
  <2>3. record'.status = status
    BY <2>1 DEF NoRecord
  <2>4. ~Open'
    BY <2>3 DEF Open, NoRecord
  <2>5. sent'.ending = 0
    BY <2>2 DEF Untold
  <2>6. ~UsageSent'
    BY <2>2, <2>3, <2>5 DEF UsageSent, Finished
  <2> QED BY <1>1, <2>4, <2>6 DEF UsageInv, UsageRecorded
<1>7. CASE UNCHANGED vars
  <2>1. /\ ask' = ask /\ answer' = answer /\ sent' = sent /\ reader' = reader /\ record' = record
    BY <1>7 DEF vars
  <2>2. Open' <=> Open
    BY <2>1 DEF Open
  <2>3. UsageRecorded' <=> UsageRecorded
    BY <2>1 DEF UsageRecorded, UsageSent, Open, Finished
  <2>4. /\ EndsLast(sent)' <=> EndsLast(sent)
        /\ RightCount(sent, reader.usage)' <=> RightCount(sent, reader.usage)
    BY <2>1 DEF EndsLast, RightCount, Uncounted, EndingsBefore
  <2> QED BY <1>1, <2>1, <2>2, <2>3, <2>4 DEF UsageInv
<1> QED BY <1>2, <1>3, <1>4, <1>5, <1>6, <1>7 DEF Next

\* So it is along a conversation.
LEMMA UsageAlong == UsageInv /\ [ConversationNext]_conversationVars => UsageInv'
<1>1. ASSUME UsageInv, [Next]_vars PROVE UsageInv'
  BY <1>1, UsageNext
<1>2. ASSUME UsageInv, ~Open, UNCHANGED <<ask, answer, sent, reader, encoder, client, shown, record>>
      PROVE  UsageInv'
  BY <1>2 DEF UsageInv, UsageRecorded, UsageSent, Open, Finished
<1>3. Restart \/ DayPasses \/ Continue
        => ~Open /\ UNCHANGED <<ask, answer, sent, reader, encoder, client, shown, record>>
  BY DEF Restart, DayPasses, Continue, Between
<1>4. UNCHANGED conversationVars => UNCHANGED vars
  BY DEF conversationVars
<1> QED BY <1>1, <1>2, <1>3, <1>4 DEF ConversationNext, Answering

\* What a provider counted is recorded of the request, once it has sent it:
\* for every answer and every pair of protocols, streamed or whole, wherever the
\* stream stops and whatever the client makes of it.
THEOREM UsageRecordedAlong == ConversationSpec => []UsageRecorded
<1>1. UsageInv => UsageRecorded
  BY DEF UsageInv, UsageRecorded
<1>2. ConversationInit => UsageInv
  BY UsageInit DEF ConversationInit
<1> QED BY <1>1, <1>2, UsageAlong, PTL DEF ConversationSpec

=============================================================================
