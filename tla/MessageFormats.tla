---------------------------- MODULE MessageFormats ----------------------------
(***************************************************************************)
(* The messages of a request: from the protocol a client speaks to the      *)
(* canonical form and from that to the protocol of a provider.              *)
(*                                                                          *)
(* In every protocol a message, an item or a content is [role, name,        *)
(* parts].  A conversion is [ok, messages]; one that is not ok is answered  *)
(* with an error.                                                           *)
(***************************************************************************)
EXTENDS Canonical, FiniteSets

\* Results of tools.  A JSON value is absent, null, an object, {"result": v},
\* a string (of a text) or a list; a text is plain, or that of a JSON value.
Absent == <<"absent">>
Null == <<"null">>
IsObject(v) == v[1] \in {"object", "wrap"}
Wrap(v) == <<"wrap", v>>
Str(t) == <<"string", t>>
EmptyText == <<"plain", "">>
TextOfValue(v) == <<"json", v>>

NoPart == [type |-> "", text |-> None, id |-> None, name |-> None, args |-> None,
           response |-> Absent, sig |-> None]
TextPart(t) == [NoPart EXCEPT !.type = "text", !.text = t]
ThoughtPart(t, s) == [NoPart EXCEPT !.type = "reasoning", !.text = t, !.sig = s]
MediaPart(type) == [NoPart EXCEPT !.type = type, !.text = <<type>>]
CallPartOf(id, name, args, s) ==
    [NoPart EXCEPT !.type = "tool_call", !.id = id, !.name = name, !.args = args, !.sig = s]
ResultPart(id, name, v) ==
    [NoPart EXCEPT !.type = "tool_response", !.id = id, !.name = name, !.response = v]

Message(role, parts) == [role |-> role, name |-> None, parts |-> parts]

IsCall(p) == p.type = "tool_call"
IsResult(p) == p.type = "tool_response"
IsThought(p) == p.type = "reasoning"
\* Only Gemini has a place for the signature of a text or of a call.
Unsigned(p) == IF IsThought(p) THEN p ELSE [p EXCEPT !.sig = None]
IsContent(p) == p.type \in {"text", "image", "audio"}
AllResults(parts) == parts # <<>> /\ \A n \in DOMAIN parts : IsResult(parts[n])

\* canonicalPartsEmpty: a message of such parts is skipped.
EmptyPart(p) ==
    CASE p.type \in {"text", "reasoning"} -> p.text = None /\ p.sig = None
      [] IsCall(p) \/ IsResult(p) -> p.name = None /\ p.id = None /\ p.response = Absent
      [] OTHER -> FALSE
EmptyParts(parts) == \A n \in DOMAIN parts : EmptyPart(parts[n])

\* What converting message by message has come to.
Nothing == [ok |-> TRUE, messages |-> <<>>, system |-> None, names |-> <<>>, pending |-> <<>>,
            joining |-> FALSE, index |-> 0]
RefuseIf(cond, acc) == [acc EXCEPT !.ok = @ /\ ~cond]
Add(acc, m) == [acc EXCEPT !.messages = Append(@, m)]
\* Where it is not a message, the instruction of the system is put together.
IsSystem(m) == m.role \in {"system", "developer"}
Instruct(acc, m) ==
    LET texts == SelectSeq(m.parts, LAMBDA p : p.type = "text")
    IN [acc EXCEPT !.system = @ \o Concat([n \in DOMAIN texts |-> texts[n].text])]
AddUnlessEmpty(acc, m) == IF EmptyParts(m.parts) THEN acc ELSE Add(acc, m)

Learn(names, p) == [id \in DOMAIN names \union {p.id} |-> IF id = p.id THEN p.name ELSE names[id]]

\* populateCanonicalToolResponseNames: from the calls that come before.
NamePart(acc, p) ==
    CASE IsCall(p) /\ p.id # None /\ p.name # None ->
             [parts |-> Append(acc.parts, p), names |-> Learn(acc.names, p)]
      [] IsResult(p) /\ p.name = None /\ p.id \in DOMAIN acc.names ->
             [acc EXCEPT !.parts = Append(@, [p EXCEPT !.name = acc.names[p.id]])]
      [] OTHER -> [acc EXCEPT !.parts = Append(@, p)]
\* A mutant: the names of one message are forgotten in the next.
NameMessageForgetting(acc, m) ==
    Add(acc, [m EXCEPT !.parts = FoldLeft(NamePart, [parts |-> <<>>, names |-> <<>>], @).parts])

NameMessage(acc, m) ==
    LET named == FoldLeft(NamePart, [parts |-> <<>>, names |-> acc.names], m.parts)
    IN [Add(acc, [m EXCEPT !.parts = named.parts]) EXCEPT !.names = named.names]
Named(messages) == FoldLeft(NameMessage, Nothing, messages).messages

NameAll(acc) == IF acc.ok THEN [acc EXCEPT !.messages = Named(@)] ELSE acc

------------------------------------------------------------------------------
(* OpenAI Chat *)

\* openAIToolContentToCanonicalResponse, of a content or null.
ChatResult(t) ==
    IF t = Null THEN Wrap(Null)
    ELSE IF t[1] = "json" /\ IsObject(t[2]) THEN t[2]
    ELSE Wrap(Str(t))

\* A message of OpenAIChatToCanonical: its parts are the reasoning, the content
\* and the calls in this order, or the one result of a tool message.
FromChatMessage(acc, m) ==
    LET calls == SelectSeq(m.parts, IsCall)
        names == FoldLeft(Learn, acc.names, calls)
    IN IF m.role = "tool"
       THEN LET p == m.parts[1]
                known == p.id \in DOMAIN acc.names
            IN AddUnlessEmpty(RefuseIf(~known, acc),
                              [m EXCEPT !.parts[1].response = ChatResult(@),
                                        !.parts[1].name = IF known THEN acc.names[p.id] ELSE None])
       ELSE AddUnlessEmpty(
              RefuseIf(\E n \in DOMAIN calls : calls[n].id = None \/ calls[n].name = None,
                       [acc EXCEPT !.names = names]),
              [m EXCEPT !.parts = [n \in DOMAIN @ |->
                                     IF IsCall(@[n]) THEN [@[n] EXCEPT !.args = ObjectOf(@)]
                                     ELSE @[n]]])

FromChat(messages) ==
    LET all == FoldLeft(FromChatMessage, Nothing, messages)
    IN RefuseIf(~\E n \in DOMAIN all.messages : all.messages[n].role \in {"user", "assistant"}, all)

\* canonicalToolResponseToOpenAIContent; canonicalToolResponseToAnthropic does the same.
ResultText(v) ==
    IF v \in {Absent, Null} THEN EmptyText
    ELSE IF v[1] = "string" THEN v[2]
    ELSE TextOfValue(v)

\* canonicalMessageToOpenAI: every result becomes a message; an assistant that
\* says nothing is left out.
ToChatMessage(acc, m) ==
    LET results == SelectSeq(m.parts, IsResult)
        calls == SelectSeq(m.parts, IsCall)
        content == SelectSeq(m.parts, IsContent)
        thoughts == SelectSeq(m.parts, IsThought)
        thought == Concat([n \in DOMAIN thoughts |-> thoughts[n].text])
        told == [n \in DOMAIN results |->
                   Message("tool", <<[results[n] EXCEPT !.response = ResultText(@), !.name = None]>>)]
        sent == [m EXCEPT !.parts = Opt(thought # None, ThoughtPart(thought, None))
                                    \o [n \in DOMAIN content |-> Unsigned(content[n])] \o calls]
    IN IF thoughts # <<>> /\ m.role # "assistant" THEN RefuseIf(TRUE, acc)
       ELSE IF results # <<>> THEN
              [RefuseIf(content # <<>> \/ calls # <<>> \/ m.role # "tool", acc)
                 EXCEPT !.messages = @ \o told]
       ELSE IF m.role = "assistant" /\ content = <<>> /\ calls = <<>> THEN acc
       ELSE Add(acc, sent)

ToChat(messages) == FoldLeft(ToChatMessage, Nothing, messages)

------------------------------------------------------------------------------
(* OpenAI Responses; an item is a message of one part, but for "message"    *)

\* openAIResponsesInputToCanonical: reasoning waits for what it led to, calls
\* that follow each other are one message, an output is a string.
FromResponsesItem(acc, m) ==
    LET p == m.parts[1]
        waiting == acc.pending # <<>>
        apart == [acc EXCEPT !.joining = FALSE]
        taken == [apart EXCEPT !.pending = <<>>]
        call == [p EXCEPT !.args = ObjectOf(@), !.sig = None]
        result == [p EXCEPT !.response = Str(@)]
    IN CASE IsThought(p) ->
                IF EmptyPart(p) THEN apart ELSE [apart EXCEPT !.pending = Append(@, p)]
         [] IsCall(p) ->
                IF acc.joining
                THEN [acc EXCEPT !.messages[Len(acc.messages)].parts = Append(@, call)]
                ELSE [Add(taken, Message("assistant", Append(acc.pending, call)))
                        EXCEPT !.joining = TRUE]
         [] IsResult(p) -> Add(RefuseIf(waiting, taken), Message("tool", <<result>>))
         [] OTHER -> Add(RefuseIf(waiting /\ m.role # "assistant", taken),
                         [m EXCEPT !.parts = acc.pending \o @])

FromResponsesInput(items) ==
    LET all == FoldLeft(FromResponsesItem, Nothing, items)
    IN NameAll(RefuseIf(all.pending # <<>>, all))

\* canonicalMessageToOpenAIResponsesInput: reasoning, content, then calls and
\* outputs; an output is the text of the value.
ToResponsesMessage(acc, m) ==
    LET after == SelectSeq(m.parts, LAMBDA p : IsCall(p) \/ IsResult(p))
        thoughts == SelectSeq(m.parts, IsThought)
        content == SelectSeq(m.parts, IsContent)
        Output(v) == IF v = Absent THEN EmptyText ELSE TextOfValue(v)
        Item(p) == IF IsResult(p)
                   THEN Message("tool", <<[p EXCEPT !.response = Output(@), !.name = None]>>)
                   ELSE Message("assistant", <<Unsigned(p)>>)
    IN IF IsSystem(m) THEN Instruct(RefuseIf(m.name # None, acc), m)
       ELSE
       [RefuseIf(m.name # None \/ \E n \in DOMAIN content : content[n].type = "audio", acc)
          EXCEPT !.messages = @ \o [n \in DOMAIN thoughts |-> Item(thoughts[n])]
                                \o Opt(content # <<>>,
                                       Message(m.role, [n \in DOMAIN content |-> Unsigned(content[n])]))
                                \o [n \in DOMAIN after |-> Item(after[n])]]

ToResponsesInput(messages) == FoldLeft(ToResponsesMessage, Nothing, messages)

------------------------------------------------------------------------------
(* Anthropic Messages *)

\* A tool_result of anthropicContentToCanonical: a text, or a list of blocks.
AnthropicResult(c) == IF c[1] \in {"plain", "json"} THEN Str(c) ELSE c

\* A message of AnthropicMessagesToCanonicalRequest: only results make it a tool's.
FromAnthropicMessage(acc, m) ==
    LET Take(p) == CASE IsCall(p) -> [p EXCEPT !.args = ObjectOf(@), !.sig = None]
                     [] IsResult(p) -> [p EXCEPT !.response = AnthropicResult(@), !.name = None]
                     [] OTHER -> p
        parts == [n \in DOMAIN m.parts |-> Take(m.parts[n])]
    IN AddUnlessEmpty(acc, Message(IF AllResults(parts) THEN "tool" ELSE m.role, parts))

FromAnthropicMessages(messages) == NameAll(FoldLeft(FromAnthropicMessage, Nothing, messages))

\* A message of CanonicalToAnthropicMessagesRequest.
ToAnthropicMessage(acc, m) ==
    LET Give(p) == IF IsResult(p) THEN [p EXCEPT !.response = ResultText(@), !.name = None]
                   ELSE Unsigned(p)
        role == IF m.role = "assistant" THEN "assistant" ELSE "user"
        parts == [n \in DOMAIN m.parts |-> Give(m.parts[n])]
        refused == m.name # None \/ \E n \in DOMAIN m.parts : m.parts[n].type = "audio"
        checked == RefuseIf(refused, acc)
    IN IF m.parts = <<>> THEN checked
       ELSE IF IsSystem(m) THEN Instruct(checked, m)
       ELSE Add(checked, Message(role, parts))

ToAnthropicMessages(messages) == FoldLeft(ToAnthropicMessage, Nothing, messages)

------------------------------------------------------------------------------
(* Gemini.  pending holds [id, name] of the calls that wait for a response. *)

\* A mutant: the last of that name.
TakenLast(pending, p) ==
    LET fits == {n \in DOMAIN pending : /\ pending[n].name = p.name
                                        /\ p.id \in {None, pending[n].id}}
    IN IF fits = {} THEN 0 ELSE CHOOSE n \in fits : \A m \in fits : m <= n

\* geminiToolCallResolver.take: the named one, else the first of that name.
Taken(pending, p) ==
    LET fits == {n \in DOMAIN pending : /\ pending[n].name = p.name
                                        /\ p.id \in {None, pending[n].id}}
    IN IF fits = {} THEN 0 ELSE CHOOSE n \in fits : \A m \in fits : n <= m

\* A mutant: a text is joined to the reasoning before it.
JoinsAny(parts, p) ==
    /\ parts # <<>>
    /\ Last(parts).type \in {"text", "reasoning"} /\ p.type \in {"text", "reasoning"}
    /\ Last(parts).sig = None /\ p.sig = None

\* Adjacent pieces of the same kind are one, unless they are signed.
Joins(parts, p) ==
    /\ parts # <<>>
    /\ Last(parts).type = p.type /\ p.type \in {"text", "reasoning"}
    /\ Last(parts).sig = None /\ p.sig = None

\* A part of geminiPartsToCanonical; one without an identifier is given one.
FromGeminiPart(acc, p) ==
    LET id == FirstNonEmpty(p.id, <<"call", acc.index, acc.at>>)
        n == Taken(acc.pending, p)
        next == [acc EXCEPT !.at = @ + 1]
    IN CASE IsCall(p) ->
                [RefuseIf(p.name = None, next) EXCEPT
                   !.parts = Append(@, [p EXCEPT !.id = id]),
                   !.pending = Append(@, [id |-> id, name |-> p.name])]
         [] IsResult(p) ->
                IF p.name = None \/ n = 0 THEN RefuseIf(TRUE, next)
                ELSE [next EXCEPT !.parts = Append(@, [p EXCEPT !.id = acc.pending[n].id]),
                                  !.pending = RemoveAt(@, n)]
         [] OTHER ->
                IF EmptyPart(p) THEN RefuseIf(TRUE, next)
                ELSE IF Joins(acc.parts, p)
                THEN [next EXCEPT !.parts[Len(acc.parts)].text = @ \o p.text]
                ELSE [next EXCEPT !.parts = Append(@, p)]

\* A content of GeminiGenerateToCanonicalRequest, with geminiRoleToCanonical;
\* the one of role system is the systemInstruction.
FromGeminiContent(acc, m) ==
    LET read == FoldLeft(FromGeminiPart,
                         [ok |-> acc.ok, index |-> acc.index, pending |-> acc.pending,
                          parts |-> <<>>, at |-> 0], m.parts)
        role == IF IsSystem(m) THEN m.role ELSE IF AllResults(read.parts) THEN "tool"
                  ELSE IF m.role = "model" THEN "assistant" ELSE "user"
    IN AddUnlessEmpty([acc EXCEPT !.ok = read.ok, !.pending = read.pending, !.index = @ + 1],
                      Message(role, read.parts))

FromGeminiContents(contents) == FoldLeft(FromGeminiContent, Nothing, contents)

\* canonicalToolResponseToGemini: an object stays, anything else is wrapped.
GeminiObject(v) ==
    IF v = Absent THEN Wrap(Null)
    ELSE IF IsObject(v) THEN v
    ELSE Wrap(v)

\* A message of CanonicalToGeminiGenerateRequest; empty texts are left out.
ToGeminiContent(acc, m) ==
    LET given == SelectSeq(m.parts, LAMBDA p : ~(p.type \in {"text", "reasoning"} /\ EmptyPart(p)))
        parts == [n \in DOMAIN given |->
                    IF IsResult(given[n]) THEN [given[n] EXCEPT !.response = GeminiObject(@)]
                    ELSE given[n]]
        refused == m.name # None \/ \E n \in DOMAIN given : IsResult(given[n]) /\ given[n].name = None
        role == IF m.role = "assistant" THEN "model" ELSE "user"
        checked == RefuseIf(refused, acc)
    IN IF parts = <<>> THEN checked
       ELSE IF IsSystem(m) THEN Instruct(checked, m)
       ELSE Add(checked, Message(role, parts))

ToGeminiContents(messages) ==
    LET all == FoldLeft(ToGeminiContent, Nothing, Named(messages))
    IN RefuseIf(all.messages = <<>>, all)

------------------------------------------------------------------------------
(* The conversions as one *)

Inbound(protocol, messages) ==
    CASE protocol = Chat -> FromChat(messages)
      [] protocol = Responses -> FromResponsesInput(messages)
      [] protocol = Anthropic -> FromAnthropicMessages(messages)
      [] protocol = Gemini -> FromGeminiContents(messages)

Outbound(protocol, messages) ==
    CASE protocol = Chat -> ToChat(messages)
      [] protocol = Responses -> ToResponsesInput(messages)
      [] protocol = Anthropic -> ToAnthropicMessages(messages)
      [] protocol = Gemini -> ToGeminiContents(messages)
==============================================================================
