----------------------------- MODULE Conversation -----------------------------
(***************************************************************************)
(* A conversation goes on: the client sends what it was answered back, with *)
(* the results of the calls, in its own protocol; the handler converts this *)
(* for every target of the route (the handlers, proxyMixedCanonicalRoutes,  *)
(* prepareCanonicalProviderRequest), which may speak another protocol than  *)
(* the one that answered.  Between the two the replica may have restarted,  *)
(* or a day may have gone by.                                               *)
(***************************************************************************)
EXTENDS Exchange, MessageFormats, RequestOptions

CONSTANTS Routes,        \* sequences of targets [protocol, model, max]
          Questions,     \* what a user may ask: sequences of parts
          OptionsOf      \* what a client of each protocol may ask for besides

ASSUME RoutesAssumption == Routes \subseteq Seq([protocol : Protocols, model : STRING, max : Nat])

\* The words for a choice of functions that come with their names.
NamingWords(protocol) ==
    IF protocol \in {Chat, Responses} THEN {"function", "allowed auto", "allowed required"}
    ELSE IF protocol = Anthropic THEN {"tool"} ELSE {"AUTO", "NONE", "ANY"}

\* A client names functions only where its protocol has a place for them.
ASSUME OptionsAssumption ==
    \A p \in Protocols : \A o \in OptionsOf[p] :
        o \in AllOptions /\ (o.choice.names # <<>> => o.choice.mode \in NamingWords(p))

VARIABLE followUp        \* what was asked, and what was made of it for each target

conversationVars == <<vars, followUp>>

NoFollowUp == <<>>

------------------------------------------------------------------------------
(* The client, which is not part of this program                           *)

\* How a client goes on: whether it returns the signatures and identifiers
\* that it could leave out, answers the calls in reverse, and says more.
Manners == [faithful : BOOLEAN, reversed : BOOLEAN, more : BOOLEAN]

Plainest == [faithful |-> FALSE, reversed |-> FALSE, more |-> FALSE]

SystemText == <<"be brief">>
Question == <<TextPart(<<"q">>)>>
Plain(question, o) == question = Question /\ o = [NoOptions EXCEPT !.tools = o.tools, !.max = o.max]
More == TextPart(<<"more">>)
ToldCalls == CallsIn(Told)

EchoedPart(how, i) ==
    CASE i.kind = "reasoning" -> ThoughtPart(i.text, IF ask.client = Chat THEN None ELSE i.sig)
      [] i.kind = "call" ->
             CallPartOf(IF ask.client = Gemini /\ ~how.faithful THEN None ELSE i.id, i.name, i.text,
                        IF ask.client \in {Chat, Gemini} /\ how.faithful THEN i.sig ELSE None)
      [] OTHER -> TextPart(i.text)

\* The answer as the protocol holds it: an item each, or one message; that of
\* Chat has one reasoning and one content.
Echo(how) ==
    LET known == SelectSeq(Told, LAMBDA i : i.kind = "call" => i.name # None)
        all == [n \in DOMAIN known |-> EchoedPart(how, known[n])]
        parts == SelectSeq(all, LAMBDA p : ~EmptyPart(p))
        thought == TextIn(known, "reasoning")
        text == TextIn(known, "text")
    IN CASE ask.client = Responses ->
                [n \in DOMAIN parts |-> Message("assistant", <<parts[n]>>)]
         [] ask.client = Chat ->
                <<Message("assistant", Opt(thought # None, ThoughtPart(thought, None))
                                       \o Opt(text # None, TextPart(text))
                                       \o SelectSeq(parts, IsCall))>>
         [] ask.client = Anthropic -> <<Message("assistant", parts)>>
         [] ask.client = Gemini -> <<Message("model", parts)>>

\* The result of the n-th call: a text or JSON, of Gemini always an object.
Result(n) ==
    LET text == <<"plain", "result " \o ToString(n)>>
        value == <<"object", "result " \o ToString(n)>>
    IN IF ask.client = Gemini THEN (IF n = 1 THEN value ELSE Wrap(Str(text)))
       ELSE IF n = 1 THEN text
       ELSE IF ask.client = Anthropic THEN <<"list", "result " \o ToString(n)>>
       ELSE TextOfValue(value)

Results(how) ==
    LET told == ToldCalls
        part(n) == ResultPart(IF ask.client = Gemini /\ ~how.faithful THEN None ELSE told[n].id,
                              IF ask.client = Gemini THEN told[n].name ELSE None, Result(n))
        parts == [n \in DOMAIN told |-> part(n)]
    IN IF how.reversed THEN Reverse(parts) ELSE parts

\* What the client sends after the answer: the results, and what the user says.
Reply(how) ==
    LET results == Results(how)
        more == Opt(how.more, More)
    IN IF ask.client \in {Anthropic, Gemini} THEN <<Message("user", results \o more)>>
       ELSE [n \in DOMAIN results |-> Message("tool", <<results[n]>>)]
            \o Opt(how.more, Message("user", more))

History(how, question) ==
    <<Message("system", <<TextPart(SystemText)>>), Message("user", question)>>
    \o Echo(how) \o Reply(how)

------------------------------------------------------------------------------
(* The handler                                                             *)

\* A mutant: no copy is made.
AfterPreparingShared(canonical, changed) == changed

\* What is left of the canonical request after a target was prepared from it:
\* cloneCanonicalRequest copies what preparing one changes.
AfterPreparing(canonical, changed) == canonical

Unprepared(target) == [target |-> target, ok |-> FALSE, messages |-> <<>>, system |-> None,
                       options |-> NoOptions]

\* A target that speaks the client's protocol gets the body as it is.
AsIs(way, target, asked) ==
    [way EXCEPT !.sent = Append(@, [target |-> target, ok |-> TRUE, messages |-> asked.messages,
                                    system |-> None, options |-> asked.options])]

\* What prepareCanonicalProviderRequest changes of its copy of the options.
OwnOptions(target, o) ==
    CASE target.protocol \in {Chat, Responses} -> [o EXCEPT !.reasoning = BudgetAsEffort(@)]
      [] target.protocol = Gemini /\ ask.client \in {Chat, Responses} ->
             [o EXCEPT !.reasoning = Level(@, target.model)]
      [] OTHER -> o

Converted(way, target, signed) ==
    LET m == Outbound(target.protocol, signed.messages)
        o == OutboundOptions(target, ask.client, way.canonical.options)
    IN [sent |-> Append(way.sent,
                        IF ~(m.ok /\ o.ok) THEN Unprepared(target)
                        ELSE [target |-> target, ok |-> TRUE, messages |-> m.messages,
                              system |-> m.system, options |-> o.options]),
        memory |-> signed.memory,
        canonical |-> AfterPreparing(way.canonical,
                                     [messages |-> signed.messages,
                                      options |-> OwnOptions(target, way.canonical.options)])]

\* prepareCanonicalProviderRequest: the ways it can go for one target.
Prepare(way, target, asked, replica, reachable) ==
    LET o == way.canonical.options
        unsigned == [messages |-> way.canonical.messages, memory |-> way.memory]
    IN IF target.protocol = ask.client THEN {AsIs(way, target, asked)}
       ELSE IF target.protocol = Gemini
              /\ (ask.client \in {Chat, Responses} => LevelFits(o.reasoning, target.model)) THEN
              {Converted(way, target, s) :
                 s \in SignMessages(way.memory, replica, way.canonical.messages, reachable)}
       ELSE {Converted(way, target, unsigned)}

\* The handlers: what cannot be converted still goes to the targets of the
\* client's own protocol (proxyRawIfAvailable); where no target is prepared
\* the client is answered with an error.
Handled(route, asked, replica, reachable) ==
    LET m == Inbound(ask.client, asked.messages)
        o == InboundOptions(ask.client, asked.options)
        first == [sent |-> <<>>, memory |-> memory,
                  canonical |-> [messages |-> m.messages, options |-> o.options]]
        Raw(way, t) == IF t.protocol = ask.client THEN AsIs(way, t, asked)
                       ELSE [way EXCEPT !.sent = Append(@, Unprepared(t))]
    IN IF m.ok /\ o.ok
       THEN FoldLeft(LAMBDA ways, t : UNION {Prepare(w, t, asked, replica, reachable) : w \in ways},
                     {first}, route)
       ELSE {FoldLeft(Raw, first, route)}

------------------------------------------------------------------------------
(* What happens between the two turns                                      *)

\* The client can go on: it has an answer, and was not refused one.
Between ==
    /\ ~Open /\ followUp = NoFollowUp
    /\ client.told = "complete" /\ KnownOf(Told, "refusal") = <<>> /\ client.refusal = None

\* A replica restarts, and its map is empty.
Restart ==
    /\ Between
    /\ memory.local["here"] # <<>>
    /\ memory' = [memory EXCEPT !.local["here"] = <<>>, !.lost = @ \union {"restart"}]
    /\ UNCHANGED <<ask, answer, sent, reader, encoder, client, shown, record, followUp>>

\* toolSignatureTTL goes by, and every copy is forgotten, of those that were kept.
DayPasses ==
    /\ Between
    /\ memory # NoMemory /\ memory.lost = {}
    /\ memory' = [NoMemory EXCEPT !.lost = {"expired"}]
    /\ UNCHANGED <<ask, answer, sent, reader, encoder, client, shown, record, followUp>>

\* Bounds: media and options of all kinds are asked for after whole answers
\* without calls, one thing at a time; not every combination of manners follows
\* a stream, and only the plainest one where signatures may be out of reach.
AsksFor(calls, question, options) ==
    /\ calls > 0 \/ ask.stream => Plain(question, options)
    /\ question = Question \/ Plain(Question, options)
GoesOn(calls, how, replica, reachable) ==
    /\ calls = 0 => how.more /\ how.faithful
    /\ how.reversed => calls > 1 /\ (ask.client = Gemini => how.faithful)
    /\ ask.stream => how.faithful = how.more
    /\ \/ replica = "here" /\ reachable /\ memory.lost = {}
       \/ memory # NoMemory /\ calls > 0 /\ how = Plainest

Continue ==
    /\ Between
    /\ \E calls \in {Len(ToldCalls)}, question \in Questions, options \in OptionsOf[ask.client] :
          /\ AsksFor(calls, question, options)
          /\ \E how \in Manners, replica \in Replicas, reachable \in BOOLEAN :
                /\ GoesOn(calls, how, replica, reachable)
                /\ LET asked == [messages |-> History(how, question), options |-> options]
                   IN \E route \in Routes : \E way \in Handled(route, asked, replica, reachable) :
                         /\ memory' = way.memory
                         /\ followUp' = [asked |-> asked, how |-> how,
                                         plain |-> Plain(question, options),
                                         replica |-> replica, reachable |-> reachable,
                                         sent |-> way.sent]
    /\ UNCHANGED <<ask, answer, sent, reader, encoder, client, shown, record>>

ConversationInit == Init /\ followUp = NoFollowUp

Answering == Next /\ UNCHANGED followUp

ConversationNext == Answering \/ Restart \/ DayPasses \/ Continue

ConversationSpec == ConversationInit /\ [][ConversationNext]_conversationVars /\ Fairness

------------------------------------------------------------------------------
(* Properties.  They are about the targets the request was converted for.   *)

Conversed == followUp # NoFollowUp
Conversions == IF ~Conversed THEN {}
               ELSE {e \in ToSet(followUp.sent) : e.target.protocol # ask.client}
Requests == {e \in Conversions : e.ok}

PartsIn(messages) == Concat([n \in DOMAIN messages |-> messages[n].parts])
CallsSent(e) == SelectSeq(PartsIn(e.messages), IsCall)

\* What a result says, however it is wrapped and quoted.
Bare(v) == IF v[1] \in {"wrap", "string", "json"} THEN v[2] ELSE v
Said(v) == Bare(Bare(Bare(Bare(v))))

\* The result of the n-th call, at j among the parts, belongs to it.
Belongs(e, call, n, j) ==
    LET parts == PartsIn(e.messages)
        p == parts[j]
    IN /\ IsResult(p) /\ p.id = call.id
       /\ e.target.protocol = Gemini => p.name = call.name
       /\ Said(p.response) = Said(Result(n))
       /\ \E i \in 1..(j - 1) : parts[i] = call

\* The loop of tool calls closes whichever two protocols meet: every call the
\* client was given goes to the next provider as it was, with an identifier
\* of its own, and after it exactly one result, its own (the resolver of
\* Gemini, the merging of items of Responses, the names of results).
LoopCloses ==
    \A e \in Requests :
       LET calls == CallsSent(e)
           told == ToldCalls
       IN /\ Len(calls) = Len(told)
          /\ \A n \in DOMAIN calls :
                /\ calls[n].name = told[n].name
                /\ ObjectOf(calls[n].args) = ObjectOf(told[n].text)
                /\ calls[n].id = told[n].id \/ (ask.client = Gemini /\ ~followUp.how.faithful)
                /\ \A m \in DOMAIN calls \ {n} : calls[m].id # calls[n].id
                /\ \E j \in DOMAIN PartsIn(e.messages) : Belongs(e, calls[n], n, j)
          /\ Len(SelectSeq(PartsIn(e.messages), IsResult)) = Len(calls)

\* What has been said by one side: [said, thought].
WordsOf(messages, roles) ==
    LET parts == PartsIn(SelectSeq(messages, LAMBDA m : m.role \in roles))
        texts == SelectSeq(parts, IsContent)
        thoughts == SelectSeq(parts, IsThought)
    IN [said |-> Concat([n \in DOMAIN texts |-> texts[n].text]),
        thought |-> Concat([n \in DOMAIN thoughts |-> thoughts[n].text])]

SystemSent(e) == IF e.target.protocol = Chat
                 THEN WordsOf(e.messages, {"system", "developer"}).said ELSE e.system

\* Nothing that was said before is lost, doubled or put in another's mouth: the
\* next provider is told the system's instruction, the user's words and media
\* and the answer with its reasoning, each in order.
WordsSent ==
    \A e \in Requests :
       /\ SystemSent(e) = SystemText
       /\ \A side \in {{"user"}, {"assistant", "model"}} :
             WordsOf(e.messages, side) = WordsOf(followUp.asked.messages, side)

\* A conversation in text and calls is never refused, for any pair of protocols
\* and whichever provider comes next: only words beside results in one message
\* have no place in Chat.
PlainGoesOn ==
    Conversed /\ followUp.plain =>
        \A e \in Conversions :
           \/ e.ok
           \/ /\ e.target.protocol = Chat /\ ask.client \in {Anthropic, Gemini}
              /\ ToldCalls # <<>> /\ followUp.how.more

\* The signatures of the call a client was told, by what the provider said.
SignedAs(n) == {SaidCalls[k].sig : k \in {k \in DOMAIN SaidCalls : SameCall(SaidCalls[k], k, ToldCalls[n])}}

\* The replica has them all, or Redis has: neither restarts nor the replica the
\* next request goes to matter then.
Remembers == \/ memory.lost = {} /\ followUp.replica = "here"
             \/ memory.lost \intersect {"write", "expired"} = {} /\ followUp.reachable

\* A call of Gemini's goes back to Gemini with its own signature, through clients
\* that have no place for one, as long as the map of the replica or Redis has
\* kept all of them (rememberToolSignatures, applyToolSignatures).  Remembers
\* asks for more than is needed: any write to Redis that failed, any eviction
\* and any expiry excuses the map of the replica as well.
SignaturesRestored ==
    \A e \in Requests :
       e.target.protocol = Gemini /\ ask.upstream = Gemini /\ Remembers =>
           \A n \in DOMAIN ToldCalls : CallsSent(e)[n].sig \in SignedAs(n)

\* Whatever was forgotten, no call is given the signature of another function or
\* of other arguments.
SignaturesRight ==
    \A e \in Requests : \A n \in DOMAIN ToldCalls :
       LET call == CallsSent(e)[n]
       IN call.sig # None =>
             \E k \in DOMAIN SaidCalls :
                /\ SaidCalls[k].sig = call.sig
                /\ SaidCalls[k].name = call.name
                /\ ObjectOf(PartText(SaidCalls[k])) = ObjectOf(call.args)

\* What options mean, in the words of any protocol: the functions that may be
\* called, whether one must be, the format.
MayCall(o) == IF o.choice.mode \in {"none", "NONE"} THEN {}
              ELSE IF o.choice.names = <<>> THEN ToSet(o.tools) ELSE ToSet(o.choice.names)
MustCall(o) == o.choice.mode \in {"required", "function", "allowed required", "any", "tool", "ANY"}
FormatOf(o) == CASE o.format \in {Unset, "text"} -> "text"
                 [] o.format \in {"json", "json_object"} -> "json"
                 [] o.format \in {"schema", "json_schema"} -> "schema"
                 [] OTHER -> o.format

\* The same effort, but that Gemini's least one is not in every model; a budget
\* is one of Anthropic's, or an effort.  None is only made up of none.
SameReasoning(asked, given, protocol) ==
    IF asked.budget > 0
    THEN IF protocol = Anthropic THEN given.budget = asked.budget /\ given.effort = asked.effort
         ELSE given.effort # Unset
    ELSE /\ given.budget = asked.budget \/ given.budget = NoBudget
         /\ \/ given.effort = asked.effort
            \/ protocol = Gemini /\ asked.effort = "minimal" /\ given.effort = "low"

\* What a client may not do without is kept for every target or the target is
\* passed over, as it is for what no other protocol knows: no function is
\* called that was not allowed, the format, the limits and the effort are those
\* asked for, whatever was prepared before for another target
\* (cloneCanonicalRequest).  Where to stop is not passed on to Responses.
OptionsKept ==
    \A e \in Requests :
       LET asked == followUp.asked.options
       IN /\ ~asked.beyond
          /\ MayCall(e.options) = MayCall(asked) /\ (MustCall(e.options) <=> MustCall(asked))
          /\ FormatOf(e.options) = FormatOf(asked)
          /\ asked.max # 0 => e.options.max = asked.max
          /\ e.target.protocol # Responses => e.options.stop = asked.stop
          /\ SameReasoning(asked.reasoning, e.options.reasoning, e.target.protocol)
==============================================================================
