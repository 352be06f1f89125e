---------------------------- MODULE MCConversation ----------------------------
EXTENDS Conversation

Part(kind, frags, s) == [kind |-> kind, frags |-> frags, id |-> None, name |-> None, sig |-> s]
CallPart(id, name, frags, s) == [kind |-> "call", frags |-> frags, id |-> id, name |-> name, sig |-> s]

T == Part("text", << <<"t1">>, <<"t2">> >>, None)
U == Part("text", << <<"u1">> >>, None)
R == Part("reasoning", << <<"r1">>, <<"r2">> >>, <<"sr">>)
Q == Part("reasoning", << <<"q1">> >>, <<"sq">>)
F == Part("refusal", << <<"f1">>, <<"f2">> >>, None)
C == CallPart(None, <<"find">>, << <<"a1">>, <<"a2">> >>, <<"sc">>)
D == CallPart(<<"call_d">>, <<"read">>, << <<"b1">> >>, <<"sd">>)
E == CallPart(<<"call_e">>, <<"list">>, <<>>, None)
\* The same function again: with the same arguments, and with others.
C2 == CallPart(<<"call_2">>, <<"find">>, << <<"a1">>, <<"a2">> >>, <<"sc2">>)
C3 == CallPart(<<"call_3">>, <<"find">>, << <<"c1">> >>, <<"sc3">>)

Usage(i, o, c) == [in |-> i, out |-> o, cached |-> c]
Answer(parts, reason, usage) == [parts |-> parts, reason |-> reason, usage |-> usage]

MCAnswers ==
    {Answer(<<T>>, "stop", Usage(3, 2, 1)),
     Answer(<<R, T>>, "length", Usage(3, 2, 0)),
     Answer(<<R, T, Q, C>>, "tool_calls", Usage(3, 2, 1)),
     Answer(<<T, C, D>>, "tool_calls", Usage(2, 4, 2)),
     Answer(<<R, D, C>>, "tool_calls", Usage(2, 4, 2)),
     Answer(<<C, E>>, "tool_calls", Usage(1, 1, 0)),
     Answer(<<D, T, C, E>>, "tool_calls", Usage(5, 4, 3)),
     Answer(<<C, C2, C3>>, "tool_calls", Usage(1, 1, 1)),
     Answer(<<F>>, "stop", Usage(3, 2, 0)),
     Answer(<<U, F>>, "stop", Usage(3, 2, 0))}

Target(protocol, model, max) == [protocol |-> protocol, model |-> model, max |-> max]
MCRoutes ==
    {<<Target(Chat, "other", 0), Target(Responses, "other", 0), Target(Anthropic, "other", 9),
       Target(Gemini, "gemini-3", 0)>>,
     <<Target(Gemini, "gemini-3-flash", 0), Target(Anthropic, "other", 0),
       Target(Responses, "other", 0), Target(Chat, "other", 0)>>}

MCQuestions ==
    {Question, <<TextPart(<<"q">>), MediaPart("image"), TextPart(<<"q2">>)>>,
     <<TextPart(<<"q">>), MediaPart("audio")>>}

Tools == << <<"find">>, <<"read">>, <<"list">> >>
Some == << <<"find">>, <<"read">> >>
One == << <<"list">> >>
Choice(mode, names) == [mode |-> mode, names |-> names]
Usual(m) == [NoOptions EXCEPT !.tools = Tools, !.max = m]
With(m, stops, choices, formats, reasonings) ==
    {[Usual(m) EXCEPT !.choice = c] : c \in choices}
    \union {[Usual(m) EXCEPT !.format = f, !.stop = stops] : f \in formats}
    \union {[Usual(m) EXCEPT !.reasoning = r] : r \in reasonings}
    \union {[Usual(m) EXCEPT !.beyond = TRUE]}
Effort(e) == [NoReasoning EXCEPT !.effort = e]
OpenAIChoices == {NoChoice} \union {Choice(m, <<>>) : m \in {"auto", "none", "required"}}
                 \union {Choice("function", One)}
                 \union {Choice(m, Some) : m \in {"allowed auto", "allowed required"}}
OpenAIOptions(stops) == With(0, stops, OpenAIChoices, {"text", "json_object", "json_schema"},
                      {Effort(e) : e \in {"none", "minimal", "low", "high", "xhigh"}})
MCOptionsOf ==
    [p \in Protocols |->
       CASE p = Chat -> OpenAIOptions(TRUE)
         [] p = Responses -> OpenAIOptions(FALSE) \union
                {[Usual(7) EXCEPT !.reasoning = [Effort("low") EXCEPT !.summary = s]] :
                   s \in {"auto", "detailed"}}
         [] p = Anthropic ->
                With(5, TRUE, {NoChoice, Choice("tool", One)}
                        \union {Choice(m, <<>>) : m \in {"auto", "none", "any"}},
                     {"json_schema"},
                     {[Effort(e) EXCEPT !.mode = m] :
                        e \in {"", "high", "max"}, m \in {"adaptive", "disabled"}}
                     \union {[NoReasoning EXCEPT !.mode = "enabled", !.budget = 2048]})
         [] p = Gemini ->
                With(0, TRUE, {NoChoice, Choice("NONE", <<>>), Choice("ANY", <<>>), Choice("ANY", Some),
                         Choice("AUTO", Some), Choice("ANY", One)},
                     {"json", "schema"},
                     {[NoReasoning EXCEPT !.budget = b] : b \in {0, 128, 1025, 9000}}
                     \union {[Effort("high") EXCEPT !.thoughts = "no"]})]
==============================================================================
