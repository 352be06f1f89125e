------------------------------- MODULE Exchange -------------------------------
(***************************************************************************)
(* An exchange between a client and a provider that speak different        *)
(* protocols (canonical_proxy.go).  The answer is streamed chunk by chunk  *)
(* through a reader and an encoder, or converted whole.                    *)
(***************************************************************************)
EXTENDS WholeAnswers, ToolSignatures, TLC

CONSTANT Answers         \* [parts, reason, usage]: what a provider may have to say

\* The parts of an answer are a sequence.
ASSUME AnswersAssumption ==
    \A w \in Answers : /\ DOMAIN w = {"parts", "reason", "usage"}
                       /\ w.parts \in Seq({w.parts[n] : n \in DOMAIN w.parts})

\* Its tokens are counted, and there are some.
ASSUME UsageAssumption ==
    \A w \in Answers : w.usage \in [in : Nat, out : Nat, cached : Nat] \ {ZeroUsage}

VARIABLES ask,           \* [client, upstream, stream, terse, usage]: the exchange
          answer,        \* what the provider says, in its words
          sent,          \* how much of it has been sent
          reader,        \* the reader of its stream
          encoder,       \* the encoder that writes to the client
          client,        \* what the client has made of it
          shown,         \* [text, reasoning]: what that shows of the answer
          record,        \* [status, usage]: what is recorded of the request
          memory         \* the signatures of the calls

vars == <<ask, answer, sent, reader, encoder, client, shown, record, memory>>

NoRecord == [status |-> 0, usage |-> ZeroUsage]
Request == 1             \* the identifier of the request, in those made from it

\* What the program does not pass on whole (README) is left out: the encoder
\* for Responses repeats the first reasoning in a second one; of a stream with
\* nothing but the final event of Responses, reasoning is not read, and the
\* arguments of calls do not reach a Chat client.
Asked(a, w) ==
    /\ a.client # a.upstream
    /\ a.terse => a.stream /\ a.upstream # Anthropic
    /\ ~a.usage => a.client = Chat /\ a.stream
    /\ a.terse /\ a.upstream = Responses =>
          /\ PartsOf(w, "reasoning") = <<>>
          /\ a.client = Chat => PartsOf(w, "call") = <<>>
    /\ a.client = Responses => Len(PartsOf(w, "reasoning")) <= 1

Asks == [client : Protocols, upstream : Protocols, stream : BOOLEAN, terse : BOOLEAN,
         usage : BOOLEAN]

Init == /\ \E a \in Asks, w \in Answers :
              /\ Asked(a, w)
              /\ ask = a
              /\ answer = Spoken(a.upstream, w)
              /\ reader = [NewReader(Request) EXCEPT
                             !.out = IF a.upstream = Gemini THEN <<ResponseStart, MessageStart>>
                                     ELSE <<>>]
              /\ encoder = NewEncoderOf(a.client, a.usage)
        /\ sent = Untold(answer)
        /\ client = NewClient
        /\ shown = [text |-> None, reasoning |-> None]
        /\ record = NoRecord
        /\ memory = NoMemory

Open == record = NoRecord

\* A text and a refusal are one to the reader of an answer.
ShownBy(c) ==
    LET items == Understood(ask.client, c)
    IN [text |-> TextIn(items, "text") \o TextIn(items, "refusal"),
        reasoning |-> TextIn(items, "reasoning")]

\* rememberingEmit: each call of a stream is remembered when it is done, those
\* of a whole answer together.
Remembered(events) ==
    LET done == Concat([n \in DOMAIN events |-> Opt(events[n].type = "tool_call_done", events[n])])
    IN FoldLeft(LAMBDA ms, ev : UNION {Remember(m, "here", <<ToolCall(ev.id, ev.name, ev.args, ev.sig)>>)
                                         : m \in ms},
                {memory}, done)

\* The events of a chunk are written as they are read; when the reader
\* returns, the stream is ended and the request recorded.  (The sets of one
\* element name values that are computed once.)
PassOn(read) ==
    \E r \in {read} :
    \E e \in {FoldLeft(LAMBDA x, ev : Encode(ask.client, x, ev), encoder, r.out)} :
    \E f \in {IF r.result = "" THEN e ELSE EncodeEnd(ask.client, e, r.usage, r.result = "ok")} :
    \E heard \in {FoldLeft(LAMBDA c, w : Hear(ask.client, c, w), client, f.out)} :
        /\ reader' = [r EXCEPT !.out = <<>>]
        /\ encoder' = [f EXCEPT !.out = <<>>]
        /\ client' = heard
        /\ shown' = ShownBy(heard)
        /\ record' = IF r.result = "" THEN record
                     ELSE [status |-> IF r.result = "ok" THEN 200 ELSE 502, usage |-> r.usage]
        /\ memory' \in Remembered(r.out)
        /\ UNCHANGED <<ask, answer>>

Deliver(chunk) ==
    \E r \in {Read(ask.upstream, reader, chunk)} :
        PassOn(IF r.over = "" THEN r ELSE Leave(ask.upstream, r, FALSE))

\* The next chunk of the answer arrives.
ChunkArrives ==
    /\ Open /\ ask.stream
    /\ \E s \in NextChunks(ask.upstream, ask.terse, answer, sent) :
          sent' = s[2] /\ Deliver(s[1])

\* A chunk that cannot be read arrives, or the report of an error.
BadChunkArrives ==
    /\ Open /\ ask.stream
    /\ \E c \in BadChunks(ask.upstream) : Deliver(c)
    /\ UNCHANGED sent

\* The body ends, early or not, or breaks off; the timeout of the HTTP client
\* and the departure of the client break it off too.
BodyEnds ==
    /\ Open /\ ask.stream
    /\ \E broken \in BOOLEAN : PassOn(Leave(ask.upstream, reader, broken))
    /\ UNCHANGED sent

\* A whole answer arrives, and is converted.
WholeArrives ==
    /\ Open /\ ~ask.stream
    /\ LET r == FromProvider(ask.upstream, answer, Request)
           g == ToClient(ask.client, r)
           heard == [FoldLeft(Collect, client, g.items) EXCEPT
                       !.reason = g.reason, !.refusal = g.refusal, !.usage = g.usage,
                       !.told = "complete", !.begun = TRUE]
       IN /\ client' = heard
          /\ shown' = ShownBy(heard)
          /\ record' = [status |-> 200, usage |-> r.usage]
          /\ memory' \in Remember(memory, "here", r.calls)
    /\ UNCHANGED <<ask, answer, sent, reader, encoder>>

\* Something else arrives: an error of the provider, a stream where a whole
\* answer was asked for or the reverse, or a body that is not an answer.
AnswerRefused ==
    /\ Open /\ sent = Untold(answer) /\ client = NewClient
    /\ \E status \in {400, 502} : record' = [NoRecord EXCEPT !.status = status]
    /\ client' = [client EXCEPT !.told = "error"]
    /\ UNCHANGED <<ask, answer, sent, reader, encoder, shown, memory>>

Next == ChunkArrives \/ BadChunkArrives \/ BodyEnds \/ WholeArrives \/ AnswerRefused

Proceeds == ChunkArrives \/ BodyEnds \/ WholeArrives

\* WF_vars(Proceeds): of an exchange that is open the body can always end, for
\* the HTTP client of the server gives up after its timeout; Open stands for
\* ENABLED <<Proceeds>>_vars, which would be computed by converting the answer.
Fairness == []<>(~Open) \/ []<><<Proceeds>>_vars

Spec == Init /\ [][Next]_vars /\ Fairness

------------------------------------------------------------------------------
(* Properties *)

\* The values of the variables that are not structures of their own; the map of
\* signatures stays within its limit.
TypeOK ==
    /\ ask \in Asks
    /\ client.told \in {"", "complete", "error"}
    /\ reader.result \in {"", "ok", "error"} /\ reader.over \in {"", "break", "return"}
    /\ record.status \in {0, 200, 400, 502}
    /\ \A r \in Replicas : Cardinality(DOMAIN memory.local[r]) <= MaxToolSignatures

\* What is written to a client is legal in its protocol, for any answer in Asks,
\* in any order of its chunks, and wherever it stops: items are opened, grown
\* and closed in turn, a closed item is what its deltas were, nothing follows
\* the end (the encoders of stream_convert.go).  Two things that the code is
\* known to write are not held against it: the index of an item as that of the
\* choice of a Chat chunk (openai_chat_response.go:233), which HearChat does not
\* look at; and to a Gemini client a finish and then an error, or an error and
\* then a finish, when a Chat stream breaks after its finish (Hear).
StreamLegal == client.breaches = {}

Told == Understood(ask.client, client)
SaidCalls == PartsOf(answer, "call")
Finished == sent.ending > 0

\* No client is told that a stream is complete unless the provider ended it:
\* one that breaks off, or is cut short, ends in an error (the terminated and
\* failed flags of the readers).
NoFalseSuccess == ask.stream /\ client.told = "complete" => Finished

\* The same call: an identifier the provider left out is made from the request.
SameCall(p, n, item) ==
    /\ item.id = FirstNonEmpty(p.id, <<"call", Request, n - 1>>)
    /\ item.name = p.name
    /\ ObjectOf(item.text) = ObjectOf(PartText(p))
    /\ ask.client \in {Chat, Gemini} => item.sig = p.sig

\* Every call of the provider reaches the client exactly once, whole and with
\* an identifier no other call has, whichever pieces it came in and however
\* the calls were interleaved (canonicalStreamToolTracker and the encoders).
CallsKept ==
    client.told = "complete" =>
        LET told == CallsIn(Told)
        IN /\ Len(told) = Len(SaidCalls)
           /\ \A n \in DOMAIN SaidCalls :
                 \E m \in DOMAIN told : SameCall(SaidCalls[n], n, told[m])

\* The documents promise that tool start, arguments and tool done come in order
\* and with stable identifiers; so a call a client is told of is one that the
\* provider started, and has its name.
NoInventedCalls == \A n \in DOMAIN KnownOf(Told, "call") : KnownOf(Told, "call")[n].name # None

\* What a client that asks a is due of the texts of w.  A refusal comes after
\* the text, but is the reason for Anthropic; a whole answer has no text
\* beside a refusal, for Chat none beside calls, for Anthropic nothing at all
\* beside a refusal.
Due(a, w) ==
    LET refusal == TextOf(w, "refusal")
        text == IF ~a.stream /\ (refusal # None \/ (a.client = Chat /\ PartsOf(w, "call") # <<>>))
                THEN None ELSE TextOf(w, "text")
    IN [text |-> IF a.client = Anthropic THEN text ELSE text \o refusal,
        reasoning |-> IF ~a.stream /\ refusal # None /\ a.client = Anthropic THEN None
                      ELSE TextOf(w, "reasoning")]

\* Every pair of protocols relays an answer as AnswerRelay promises: what the
\* client has is always a beginning of what it is due, it is told of an end,
\* and told it is complete only with all of it (streamCanonicalResult).
Relay == INSTANCE AnswerRelay
         WITH Texts <- {Due(a, Spoken(a.upstream, w)) : a \in Asks, w \in Answers},
              answer <- Due(ask, answer), outcome <- client.told
Relayed == Relay!Spec

\* The signature of reasoning reaches a client whose protocol has a place for
\* it, whole and once, though it may come in an event of its own.
SignatureKept ==
    client.told = "complete" /\ ask.client # Chat /\ shown.reasoning # None =>
        SigIn(Told) = LET said == PartsOf(answer, "reasoning")
                      IN IF ask.stream THEN Concat([n \in DOMAIN said |-> said[n].sig])
                         ELSE IF ask.upstream = Gemini THEN LastSig(answer.parts)
                         ELSE LastSig(said)

\* The reason an answer ended is told in the client's words, and a refusal
\* with its explanation where it is the reason.
ReasonKept ==
    client.told = "complete" =>
        /\ TextOf(answer, "refusal") = None => client.reason = Word(ask.client, answer.reason)
        /\ client.reason = "refusal" => client.refusal = FirstNonEmpty(TextOf(answer, "refusal"), NoExplanation)

\* The usage is all sent: a Chat stream sends it after the finish.
UsageSent == IF ask.upstream = Chat /\ ask.stream /\ ~ask.terse THEN sent.ending > 1
             ELSE IF ask.stream THEN Finished ELSE record.status = 200

\* What the provider counted is what is recorded of the request, and charged,
\* though it may come in two parts or after the finish, and whatever the client
\* is told or misses.
UsageRecorded == UsageSent /\ ~Open => record.usage = answer.usage

\* It is also what the client is told, in its words.
UsageKept ==
    UsageSent /\ ~Open /\ client.told = "complete" /\ ask.usage =>
        client.usage = IF ask.client = Anthropic
                       THEN [answer.usage EXCEPT !.in = @ - answer.usage.cached]
                       ELSE answer.usage
==============================================================================
