--------------------------- MODULE ExchangeProofs ---------------------------
(***************************************************************************)
(* What is proved of Exchange, for every set of answers and every pair of  *)
(* protocols: no client is told that a stream is complete before the       *)
(* provider has begun to end it; and what is told a client of Anthropic's  *)
(* or Gemini's protocol, and every whole answer, is legal.                 *)
(***************************************************************************)
EXTENDS Exchange, FiniteSetTheorems, TLAPS

-----------------------------------------------------------------------------
(* Lists                                                                   *)

\* A sequence, of whatever it is made of.
Lst(s) == s \in Seq({s[i] : i \in DOMAIN s})

\* A sequence over a set is a list.
LEMMA ListOf == ASSUME NEW T, NEW s \in Seq(T) PROVE Lst(s)
<1>1. DOMAIN s = 1..Len(s) /\ Len(s) \in Nat /\ s = [i \in 1..Len(s) |-> s[i]]
  OBVIOUS
<1> QED BY <1>1 DEF Lst

\* The positions of a list are 1..Len.
LEMMA ListDomain == ASSUME NEW s, Lst(s) PROVE Len(s) \in Nat /\ DOMAIN s = 1..Len(s)
BY DEF Lst

\* A function on the positions of a list is a list.
LEMMA ListFunction ==
    ASSUME NEW s, Lst(s), NEW f, f = [i \in DOMAIN s |-> f[i]]
    PROVE  Lst(f)
<1> DEFINE T == {f[i] : i \in DOMAIN f}
           n == Len(s)
<1>1. n \in Nat /\ f = [i \in 1..n |-> f[i]] /\ DOMAIN f = 1..n
  BY ListDomain
<1>2. \A i \in 1..n : f[i] \in T
  BY <1>1
<1>3. f \in Seq(T)
  <2> HIDE DEF T, n
  <2> QED BY <1>1, <1>2
<1> QED BY <1>3 DEF Lst

\* Appending adds one element and keeps the others.
LEMMA ListAppend ==
    ASSUME NEW s, NEW x, Lst(s)
    PROVE  /\ Lst(Append(s, x))
           /\ \A i \in DOMAIN Append(s, x) :
                 Append(s, x)[i] = x \/ \E j \in DOMAIN s : Append(s, x)[i] = s[j]
<1> DEFINE T == {s[i] : i \in DOMAIN s} \union {x}
<1>1. s \in Seq(T)
  <2>1. \A i \in DOMAIN s : s[i] \in T
    OBVIOUS
  <2>2. DOMAIN s = 1..Len(s) /\ Len(s) \in Nat /\ s = [i \in DOMAIN s |-> s[i]]
    BY DEF Lst
  <2> HIDE DEF T
  <2> QED BY <2>1, <2>2
<1>2. x \in T
  OBVIOUS
<1>3. Append(s, x) \in Seq(T)
  <2> HIDE DEF T
  <2> QED BY <1>1, <1>2
<1>4. \A i \in DOMAIN Append(s, x) : Append(s, x)[i] \in T
  <2> HIDE DEF T
  <2> QED BY <1>3
<1>5. Lst(Append(s, x))
  <2> HIDE DEF T
  <2> QED BY <1>3, ListOf
<1> QED BY <1>4, <1>5

\* So does joining.
Joined(s, t) == s \o t

\* Joining gives the elements of both.
LEMMA ListJoin ==
    ASSUME NEW s, NEW t, Lst(s), Lst(t)
    PROVE  /\ Lst(Joined(s, t))
           /\ \A i \in DOMAIN Joined(s, t) :
                 \/ \E j \in DOMAIN s : Joined(s, t)[i] = s[j]
                 \/ \E j \in DOMAIN t : Joined(s, t)[i] = t[j]
<1> DEFINE S == {s[i] : i \in DOMAIN s}
           T == {t[i] : i \in DOMAIN t}
           w == Joined(s, t)
<1>1. s \in Seq(S) /\ t \in Seq(T)
  BY DEF Lst
<1>2. s \in Seq(S \union T) /\ t \in Seq(S \union T)
  <2> HIDE DEF S, T
  <2> QED BY <1>1
<1>3. w \in Seq(S \union T)
  <2> HIDE DEF S, T
  <2> QED BY <1>2 DEF Joined
<1>4. \A i \in DOMAIN w : w[i] \in S \union T
  <2> HIDE DEF S, T, w
  <2> QED BY <1>3
<1>5. Lst(w)
  <2> HIDE DEF S, T, w
  <2> QED BY <1>3, ListOf
<1> QED BY <1>4, <1>5

\* An optional element.
LEMMA ListOpt ==
    ASSUME NEW cond, NEW x
    PROVE  Lst(Opt(cond, x)) /\ \A i \in DOMAIN Opt(cond, x) : Opt(cond, x)[i] = x
<1>1. <<x>> \in Seq({x}) /\ <<>> \in Seq({x})
  OBVIOUS
<1>2. Lst(<<x>>) /\ Lst(<<>>)
  BY <1>1, ListOf
<1>3. DOMAIN <<x>> = {1} /\ <<x>>[1] = x /\ DOMAIN <<>> = {}
  OBVIOUS
<1>4. CASE cond
  BY <1>2, <1>3, <1>4 DEF Opt
<1>5. CASE ~cond
  BY <1>2, <1>3, <1>5 DEF Opt
<1> QED BY <1>4, <1>5

-----------------------------------------------------------------------------
(* What holds of each actor, by m: how much of an answer may have been     *)
(* read.  That is nothing of its end ("before"), at most a finish that is  *)
(* kept back ("held"), or all of it ("any").                               *)

\* Events none of which ends the answer, unless it may have ended.
Quiet(m, s) == Lst(s) /\ (m # "any" => \A i \in DOMAIN s : s[i].type # "response_done")

\* A reader that goes on.  Before the end of an answer it holds no finish back,
\* has told no end, and says that the stream was terminated only if it failed.
Reading(m, r) ==
    /\ {"out", "order", "states", "held", "terminated", "failed", "over", "result"} \subseteq DOMAIN r
    /\ Quiet(m, r.out) /\ Lst(r.order)
    /\ r.result = "" /\ r.over \in {"", "break", "return"}
    /\ m = "before" => r.held = <<>> /\ (r.terminated => r.failed)

\* What is written to a client before its answer ends, in its own words, and
\* what ends it.
Tokens(to) ==
    CASE to = Chat -> {"role", "usage", "call", "chunk", "error"}
      [] to = Responses -> {"created", "added", "delta", "done", "error"}
      [] to = Anthropic -> {"message_start", "block_start", "block_delta", "block_stop", "error"}
      [] to = Gemini -> {"chunk", "error"}

Endings(to) ==
    CASE to = Chat -> {"[DONE]"}
      [] to = Responses -> {"final"}
      [] to = Anthropic -> {"message_delta", "message_stop"}
      [] to = Gemini -> {}

Unended(m, to, w) ==
    /\ w.type \in Tokens(to) \union (IF m = "any" THEN Endings(to) ELSE {})
    /\ IF m = "any" THEN Lst(w.calls) ELSE w.reason = "" /\ w.calls = <<>>

AllUnended(m, to, s) == Lst(s) /\ \A i \in DOMAIN s : Unended(m, to, s[i])

\* An encoder that has written nothing else; its calls have an order.
Encoding(m, to, e) ==
    /\ {"out", "calls", "output"} \subseteq DOMAIN e /\ AllUnended(m, to, e.out)
    /\ to = Responses => IsFiniteSet(DOMAIN e.calls)
    /\ to = Gemini => Lst(e.calls)

\* A client that has not been told that its answer is complete, unless it may
\* have been.
Hearing(m, c) ==
    /\ "told" \in DOMAIN c /\ c.told \in {"", "error"} \union (IF m = "any" THEN {"complete"} ELSE {})

\* The folds an exchange is made of, by name, with the protocol of the client,
\* and what each of them keeps.
Step(p, x, y) ==
    CASE p[1] = "join" -> x \o y
      [] p[1] = "done" -> DoneTool(x, CallDone(y, None, None, None, None))
      [] p[1] = "chat" -> ChatEvent(x, y)
      [] p[1] = "final" -> FinalCall(x, y)
      [] p[1] = "gemini" -> GeminiEvent(x, y)
      [] p[1] = "encode" -> Encode(p[2], x, y)
      [] p[1] = "hear" -> Hear(p[2], x, y)
      [] p[1] = "collect" -> Collect(x, y)
      [] p[1] = "tools" ->
             LET c == x.calls[y].call IN RToolDone(x, CallDone(y, c.id, c.name, c.args, c.sig))

Kept(p, x) ==
    CASE p[1] = "join" -> Quiet(p[3], x)
      [] p[1] \in {"done", "chat", "gemini", "final"} -> Reading(p[3], x)
      [] p[1] \in {"encode", "tools"} -> Encoding(p[3], p[2], x)
      [] p[1] \in {"hear", "collect"} -> Hearing(p[3], x)

Along == INSTANCE LeftFolds WITH Op <- Step, Good <- Kept

-----------------------------------------------------------------------------
(* Events, and the lists of them that do not end an answer                 *)

\* No event but ResponseDone ends an answer.
LEMMA EventTypes ==
    /\ ResponseStart.type = "response_start" /\ MessageStart.type = "message_start"
    /\ ErrorEvent.type = "error"
    /\ \A i, d : TextDelta(i, d).type = "text_delta" /\ RefusalDelta(i, d).type = "refusal_delta"
    /\ \A i, d, s : [TextDelta(i, d) EXCEPT !.sig = s].type = "text_delta"
    /\ \A i, d, s : ReasoningDelta(i, d, s).type = "reasoning_delta"
    /\ \A i, id, n, s : CallStart(i, id, n, s).type = "tool_call_start"
    /\ \A i, id, n, d : ArgumentsDelta(i, id, n, d).type = "tool_arguments_delta"
    /\ \A i, id, n, a, s : CallDone(i, id, n, a, s).type = "tool_call_done"
    /\ \A u : UsageEvent(u).type = "usage"
BY DEF ResponseStart, MessageStart, ErrorEvent, TextDelta, RefusalDelta, ReasoningDelta, CallStart,
       ArgumentsDelta, CallDone, UsageEvent, Blank

\* Quiet lists grow into quiet lists.
LEMMA QuietAppend ==
    ASSUME NEW m, NEW s, NEW e, Quiet(m, s), m = "any" \/ e.type # "response_done"
    PROVE  Quiet(m, Append(s, e))
<1>1. Lst(s)
  BY DEF Quiet
<1> QED BY <1>1, ListAppend DEF Quiet

\* Two quiet lists joined are quiet.
LEMMA QuietJoin ==
    ASSUME NEW m, NEW s, NEW t, Quiet(m, s), Quiet(m, t)
    PROVE  Quiet(m, s \o t)
<1>1. Lst(s) /\ Lst(t)
  BY DEF Quiet
<1>2. Quiet(m, Joined(s, t))
  BY <1>1, ListJoin DEF Quiet
<1> QED BY <1>2 DEF Joined

\* So is an event that may be there or not.
LEMMA QuietOpt ==
    ASSUME NEW m, NEW cond, NEW e, cond /\ m # "any" => e.type # "response_done"
    PROVE  Quiet(m, Opt(cond, e))
<1>1. CASE cond
  BY <1>1, ListOpt DEF Quiet
<1>2. CASE ~cond
  <2>1. DOMAIN Opt(cond, e) = {}
    BY <1>2 DEF Opt
  <2> QED BY <2>1, ListOpt DEF Quiet
<1> QED BY <1>1, <1>2

\* The empty list is quiet.
LEMMA QuietNone == ASSUME NEW m PROVE Quiet(m, None)
<1>1. <<>> \in Seq({}) /\ DOMAIN <<>> = {}
  OBVIOUS
<1>2. Lst(<<>>)
  BY <1>1, ListOf
<1> QED BY <1>1, <1>2 DEF Quiet, None

\* The empty list.
LEMMA EmptyList == Lst(<<>>) /\ DOMAIN <<>> = {}
BY QuietNone DEF Quiet, None

\* The concatenation of quiet lists is quiet: a fold, as all that follow are
\* (LeftFolds), whose value k[D] is that of the recursion over its positions.
LEMMA QuietConcat ==
    ASSUME NEW m, NEW s, Lst(s), \A i \in DOMAIN s : Quiet(m, s[i])
    PROVE  Quiet(m, Concat(s))
<1> DEFINE p == <<"join", "", m>>
           D == DOMAIN s
           Value(k, T) == IF T = {} THEN None
                          ELSE (k[T \ {Along!LastOf(T)}] \o s[Along!LastOf(T)])
           k == CHOOSE k : k = [T \in SUBSET D |-> Value(k, T)]
<1>1. D = 1..Len(s) /\ Len(s) \in Nat
  BY ListDomain
<1>2. \A x, y : Step(p, x, y) = (x \o y) /\ Kept(p, x) = Quiet(m, x)
  BY DEF Step, Kept
<1>3. Concat(s) = k[D]
  BY DEF Concat, FoldLeft, MapThenFoldSet, Max, Along!LastOf
<1> HIDE DEF p, D
<1>4. \A l : Along!Recurs(l, D, p, None, s) <=> l = [T \in SUBSET D |-> Value(l, T)]
  BY <1>2 DEF Along!Recurs
<1>5. \E l : Along!Recurs(l, D, p, None, s)
  BY <1>1, Along!RecursionExists DEF D
<1>6. Along!Recurs(k, D, p, None, s)
  <2> HIDE DEF Value
  <2> QED BY <1>4, <1>5
<1> HIDE DEF k
<1>7. \A x : \A i \in D : Kept(p, x) => Kept(p, Step(p, x, s[i]))
  BY <1>2, QuietJoin DEF D
<1>8. Kept(p, None)
  BY <1>2, QuietNone
<1>9. Kept(p, k[D])
  BY <1>1, <1>6, <1>7, <1>8, Along!FoldKeeps DEF D
<1> QED BY <1>2, <1>3, <1>9

-----------------------------------------------------------------------------
(* The readers                                                             *)

\* What a reader does besides keeps it so.
LEMMA ReadingEmit ==
    ASSUME NEW m, NEW r, NEW e, Reading(m, r), m = "any" \/ e.type # "response_done"
    PROVE  Reading(m, Emit(r, e))
<1>1. Quiet(m, Append(r.out, e))
  BY QuietAppend DEF Reading
<1> QED BY <1>1 DEF Reading, Emit

\* An event that is emitted or not.
LEMMA ReadingEmitIf ==
    ASSUME NEW m, NEW r, NEW e, NEW cond, Reading(m, r), cond /\ m # "any" => e.type # "response_done"
    PROVE  Reading(m, EmitIf(cond, r, e))
BY ReadingEmit DEF EmitIf

\* A kind of content is noted.
LEMMA ReadingSee == ASSUME NEW m, NEW r, NEW what, Reading(m, r) PROVE Reading(m, See(r, what))
BY DEF Reading, See

\* An error is passed on.
LEMMA ReadingFail ==
    ASSUME NEW m, NEW r, NEW how \in {"break", "return"}, Reading(m, r)
    PROVE  Reading(m, Fail(r, how))
<1>1. Reading(m, Emit(r, ErrorEvent))
  BY ReadingEmit, EventTypes
<1> QED BY <1>1 DEF Reading, Fail

\* A chunk is refused.
LEMMA ReadingRefuse == ASSUME NEW m, NEW r, Reading(m, r) PROVE Reading(m, Refuse(r))
BY DEF Reading, Refuse

\* So do the tracker's steps.
LEMMA ReadingEnsure == ASSUME NEW m, NEW r, NEW e, Reading(m, r) PROVE Reading(m, Ensure(r, e))
<1>1. Lst(Append(r.order, e.index))
  BY ListAppend DEF Reading
<1> QED BY <1>1 DEF Reading, Ensure

\* A call starts.
LEMMA ReadingStart == ASSUME NEW m, NEW r, NEW e, Reading(m, r) PROVE Reading(m, StartTool(r, e))
<1> DEFINE s == Ensure(r, e)
           t == s.states[e.index]
<1>1. Reading(m, s)
  BY ReadingEnsure
<1>2. CallStart(e.index, t.id, t.name, t.sig).type # "response_done"
  BY EventTypes
<1>3. StartTool(r, e) = EmitIf(~Tracked(r, e.index), s, CallStart(e.index, t.id, t.name, t.sig))
  BY DEF StartTool
<1> HIDE DEF s, t
<1> QED BY <1>1, <1>2, <1>3, ReadingEmitIf

\* Its arguments grow.
LEMMA ReadingDelta == ASSUME NEW m, NEW r, NEW e, Reading(m, r) PROVE Reading(m, DeltaTool(r, e))
<1> DEFINE s == Ensure(r, e)
           t == s.states[e.index]
           u == [s EXCEPT !.states[e.index].args = @ \o e.delta]
<1>1. Reading(m, s)
  BY ReadingEnsure
<1>2. ArgumentsDelta(e.index, t.id, t.name, e.delta).type # "response_done"
  BY EventTypes
<1>3. DeltaTool(r, e) = Emit(u, ArgumentsDelta(e.index, t.id, t.name, e.delta))
  BY DEF DeltaTool
<1> HIDE DEF s, t
<1>4. Reading(m, u)
  BY <1>1 DEF Reading
<1> HIDE DEF u
<1> QED BY <1>2, <1>3, <1>4, ReadingEmit

\* It is done.
LEMMA ReadingDone == ASSUME NEW m, NEW r, NEW e, Reading(m, r) PROVE Reading(m, DoneTool(r, e))
<1> DEFINE s == Ensure(r, e)
           t == s.states[e.index]
           args == FirstNonEmpty(e.args, t.args)
           u == [s EXCEPT !.states[e.index].args = args, !.states[e.index].done = TRUE]
           done == CallDone(e.index, t.id, t.name, args, t.sig)
<1>1. Reading(m, s)
  BY ReadingEnsure
<1>2. done.type # "response_done"
  BY EventTypes
<1>3. DoneTool(r, e) = IF t.done THEN s ELSE Emit(u, done)
  BY DEF DoneTool
<1> HIDE DEF s, t, args
<1>4. Reading(m, u)
  BY <1>1 DEF Reading
<1> HIDE DEF u, done
<1> QED BY <1>1, <1>2, <1>3, <1>4, ReadingEmit

\* Ending all calls is a fold of such steps.
LEMMA ReadingDoneAll ==
    ASSUME NEW m, NEW r, Reading(m, r)
    PROVE  Reading(m, DoneAll(r))
<1> DEFINE p == <<"done", "", m>>
           D == DOMAIN r.order
           Value(k, T) == IF T = {} THEN r
                          ELSE DoneTool(k[T \ {Along!LastOf(T)}], CallDone(r.order[Along!LastOf(T)], None, None, None, None))
           k == CHOOSE k : k = [T \in SUBSET D |-> Value(k, T)]
<1>1. D = 1..Len(r.order) /\ Len(r.order) \in Nat
  BY ListDomain DEF Reading
<1>2. \A x, y : Step(p, x, y) = DoneTool(x, CallDone(y, None, None, None, None)) /\ Kept(p, x) = Reading(m, x)
  BY DEF Step, Kept
<1>3. DoneAll(r) = k[D]
  BY DEF DoneAll, FoldLeft, MapThenFoldSet, Max, Along!LastOf
<1> HIDE DEF p, D
<1>4. \A l : Along!Recurs(l, D, p, r, r.order) <=> l = [T \in SUBSET D |-> Value(l, T)]
  BY <1>2 DEF Along!Recurs
<1>5. \E l : Along!Recurs(l, D, p, r, r.order)
  BY <1>1, Along!RecursionExists DEF D
<1>6. Along!Recurs(k, D, p, r, r.order)
  <2> HIDE DEF Value
  <2> QED BY <1>4, <1>5
<1> HIDE DEF k
<1>7. \A x : \A i \in D : Kept(p, x) => Kept(p, Step(p, x, r.order[i]))
  BY <1>2, ReadingDone
<1>8. Kept(p, r)
  BY <1>2
<1>9. Kept(p, k[D])
  BY <1>1, <1>6, <1>7, <1>8, Along!FoldKeeps DEF D
<1> QED BY <1>2, <1>3, <1>9

-----------------------------------------------------------------------------
(* Chunks that do not end an answer, and what reading one does             *)

\* A chunk of a stream, from before its end if m says so.
Midway(m, protocol, c) ==
    /\ protocol = Chat =>
          Lst(c.calls) /\ (m = "before" => c.kind # "[DONE]" /\ c.finish = "")
    /\ protocol = Gemini =>
          Lst(c.parts) /\ (m # "any" => c.kind # "[DONE]" /\ c.candidate /\ c.finish = "")
    /\ protocol = Responses =>
          /\ c.kind \in {"created", "text.delta", "refusal.delta", "reasoning.delta", "item.added",
                         "arguments.delta", "arguments.done", "item.done", "error", "failed",
                         "garbage"} \union (IF m = "any" THEN {"final"} ELSE {})
          /\ Lst(c.output)
    /\ protocol = Anthropic =>
          /\ c.kind \in {"message_start", "block_start", "block_delta", "block_stop", "error",
                         "garbage"}
                        \union (IF m = "before" THEN {} ELSE {"message_delta"})
                        \union (IF m = "any" THEN {"message_stop"} ELSE {})
          /\ c.kind = "block_delta" =>
                c.delta.kind \in {"text", "thinking", "signature", "input_json"}

\* The events of such a chunk are quiet.
LEMMA CallEventsQuiet == ASSUME NEW m, NEW c PROVE Quiet(m, CallChunkEvents(c))
<1>1. Quiet(m, Opt(c.id # None \/ c.name # None, CallStart(c.index, c.id, c.name, c.sig)))
  BY EventTypes, QuietOpt
<1>2. Quiet(m, Opt(c.args # None, ArgumentsDelta(c.index, c.id, c.name, c.args)))
  BY EventTypes, QuietOpt
<1> QED BY <1>1, <1>2, QuietJoin DEF CallChunkEvents

\* Those of a Chat chunk without a finish.
LEMMA ChatEventsQuiet ==
    ASSUME NEW m, NEW c, m = "any" \/ c.finish = "", Lst(c.calls)
    PROVE  Quiet(m, ChatChunkEvents(c))
<1> DEFINE calls == [n \in DOMAIN c.calls |-> CallChunkEvents(c.calls[n])]
           a == Opt(c.role, MessageStart)
           b == Opt(c.text # None, TextDelta(0, c.text))
           d == Opt(c.refusal # None, RefusalDelta(0, c.refusal))
           e == Opt(c.reasoning # None, ReasoningDelta(0, c.reasoning, None))
           f == Concat(calls)
           g == Opt(c.finish # "", ResponseDone(c.finish))
           h == Opt(c.usage # ZeroUsage, UsageEvent(c.usage))
<1>1. Quiet(m, a) /\ Quiet(m, b) /\ Quiet(m, d) /\ Quiet(m, e) /\ Quiet(m, h)
  BY EventTypes, QuietOpt
<1>2. Quiet(m, f)
  <2>1. calls = [n \in DOMAIN c.calls |-> calls[n]]
    OBVIOUS
  <2>2. \A n \in DOMAIN calls : Quiet(m, calls[n])
    BY CallEventsQuiet
  <2>3. Lst(calls)
    <3> HIDE DEF calls
    <3> QED BY <2>1, ListFunction
  <2> HIDE DEF calls
  <2> QED BY <2>2, <2>3, QuietConcat
<1>3. Quiet(m, g)
  BY QuietOpt
<1>4. ChatChunkEvents(c) = a \o b \o d \o e \o f \o g \o h
  BY DEF ChatChunkEvents
<1> HIDE DEF a, b, d, e, f, g, h
<1> QED BY <1>1, <1>2, <1>3, <1>4, QuietJoin

\* Those of a part of Gemini.
LEMMA PartEventsQuiet == ASSUME NEW m, NEW p, NEW i, NEW request PROVE Quiet(m, PartEvents(p, i, request))
<1> DEFINE id == FirstNonEmpty(p.id, <<"call", request, i>>)
           args == ObjectOf(p.args)
           a == CallStart(i, id, p.name, p.sig)
           b == ArgumentsDelta(i, id, p.name, args)
           c == CallDone(i, id, p.name, args, p.sig)
           d == IF p.kind = "thought" THEN ReasoningDelta(0, p.text, p.sig)
                ELSE [TextDelta(0, p.text) EXCEPT !.sig = p.sig]
           told == p.kind # "call" /\ (p.text # None \/ p.sig # None)
<1>1. PartEvents(p, i, request) = IF IsNamedCall(p) THEN <<a, b, c>> ELSE Opt(told, d)
  BY DEF PartEvents
<1>2. /\ a.type # "response_done" /\ b.type # "response_done" /\ c.type # "response_done"
      /\ d.type # "response_done"
  BY EventTypes
<1> HIDE DEF a, b, c, d, told
<1>3. Quiet(m, Opt(told, d))
  BY <1>2, QuietOpt
<1>4. Quiet(m, <<a, b, c>>)
  <2> DEFINE s == <<a, b, c>>
  <2>1. s \in Seq({a, b, c}) /\ DOMAIN s = 1..3
    OBVIOUS
  <2>2. \A i_1 \in DOMAIN s : s[i_1] \in {a, b, c}
    BY <2>1
  <2> HIDE DEF s
  <2>3. Lst(s)
    BY <2>1, ListOf
  <2>4. Quiet(m, s)
    BY <1>2, <2>2, <2>3 DEF Quiet
  <2> QED BY <2>4 DEF s
<1> QED BY <1>1, <1>3, <1>4

\* Those of a chunk of Gemini without a finish.
LEMMA GeminiEventsQuiet ==
    ASSUME NEW m, NEW c, NEW request, NEW offset, m = "any" \/ (c.candidate /\ c.finish = ""),
           Lst(c.parts)
    PROVE  Quiet(m, GeminiChunkEvents(c, request, offset))
<1> DEFINE parts == [n \in DOMAIN c.parts |->
                        PartEvents(c.parts[n], CallNumber(c, n, offset), request)]
           b == Opt(c.usage # ZeroUsage, UsageEvent(c.usage))
           done == ResponseDone(GeminiFinish(c.finish, CallNumber(c, Len(c.parts) + 1, offset)))
           d == Opt(c.finish # "", done)
           refused == Opt(c.blocked # None, RefusalDelta(0, c.blocked))
           blocked == Opt(c.blocked # None, ResponseDone("content_filter"))
<1>1. Quiet(m, Concat(parts))
  <2>1. parts = [n \in DOMAIN c.parts |-> parts[n]]
    OBVIOUS
  <2>2. \A n \in DOMAIN parts : Quiet(m, parts[n])
    BY PartEventsQuiet
  <2>3. Lst(parts)
    <3> HIDE DEF parts
    <3> QED BY <2>1, ListFunction
  <2> HIDE DEF parts
  <2> QED BY <2>2, <2>3, QuietConcat
<1>2. Quiet(m, b)
  BY EventTypes, QuietOpt
<1>3. Quiet(m, d)
  <2> HIDE DEF done
  <2> QED BY QuietOpt
<1>4. Quiet(m, refused) /\ (m = "any" => Quiet(m, blocked))
  BY EventTypes, QuietOpt
<1>5. GeminiChunkEvents(c, request, offset)
        = IF c.candidate THEN Concat(parts) \o b \o d ELSE refused \o b \o blocked
  BY DEF GeminiChunkEvents
<1> HIDE DEF parts, b, d, refused, blocked
<1> QED BY <1>1, <1>2, <1>3, <1>4, <1>5, QuietJoin

\* An event keeps a reader reading; a finish is held back.
LEMMA ReadingChatEvent ==
    ASSUME NEW m, NEW r, NEW e, Reading(m, r), m # "before" \/ e.type # "response_done"
    PROVE  Reading(m, ChatEvent(r, e))
<1>1. /\ Reading(m, StartTool(r, e)) /\ Reading(m, DeltaTool(r, e))
      /\ e.type # "response_done" => Reading(m, Emit(r, e))
  BY ReadingStart, ReadingDelta, ReadingEmit
<1>2. e.type # "response_done" => Reading(m, Emit([r EXCEPT !.usage = e.usage], e))
  <2>1. Reading(m, [r EXCEPT !.usage = e.usage])
    BY DEF Reading
  <2> QED BY <2>1, ReadingEmit
<1>3. m # "before" => Reading(m, [DoneAll(r) EXCEPT !.held = <<e>>])
  <2>1. Reading(m, DoneAll(r))
    BY ReadingDoneAll
  <2> QED BY <2>1 DEF Reading
<1> QED BY <1>1, <1>2, <1>3 DEF ChatEvent

\* An event of Gemini goes through the tracker or straight on.
LEMMA ReadingGeminiEvent ==
    ASSUME NEW m, NEW r, NEW e, Reading(m, r), m = "any" \/ e.type # "response_done"
    PROVE  Reading(m, GeminiEvent(r, e))
<1> DEFINE u == [r EXCEPT !.usage = IF e.type = "usage" THEN e.usage ELSE @,
                          !.offset = IF e.type = "tool_call_done" THEN @ + 1 ELSE @,
                          !.terminated = @ \/ e.type = "response_done"]
<1>1. Reading(m, u)
  BY DEF Reading
<1>2. GeminiEvent(r, e) = Emit(u, e)
  BY DEF GeminiEvent
<1> HIDE DEF u
<1> QED BY <1>1, <1>2, ReadingEmit

\* So do the events of a chunk, one after the other.
LEMMA ReadingChatEvents ==
    ASSUME NEW m, NEW n, NEW r, NEW s, Reading(m, r), Quiet(n, s), m # "before" \/ n # "any"
    PROVE  Reading(m, FoldLeft(ChatEvent, r, s))
<1> DEFINE p == <<"chat", "", m>>
           D == DOMAIN s
           Value(k, T) == IF T = {} THEN r
                          ELSE ChatEvent(k[T \ {Along!LastOf(T)}], s[Along!LastOf(T)])
           k == CHOOSE k : k = [T \in SUBSET D |-> Value(k, T)]
<1>1. D = 1..Len(s) /\ Len(s) \in Nat
  BY ListDomain DEF Quiet
<1>2. \A x, y : Step(p, x, y) = ChatEvent(x, y) /\ Kept(p, x) = Reading(m, x)
  BY DEF Step, Kept
<1>3. FoldLeft(ChatEvent, r, s) = k[D]
  BY DEF FoldLeft, MapThenFoldSet, Max, Along!LastOf
<1> HIDE DEF p, D
<1>4. \A l : Along!Recurs(l, D, p, r, s) <=> l = [T \in SUBSET D |-> Value(l, T)]
  BY <1>2 DEF Along!Recurs
<1>5. \E l : Along!Recurs(l, D, p, r, s)
  BY <1>1, Along!RecursionExists DEF D
<1>6. Along!Recurs(k, D, p, r, s)
  <2> HIDE DEF Value
  <2> QED BY <1>4, <1>5
<1> HIDE DEF k
<1>7. \A x : \A i \in D : Kept(p, x) => Kept(p, Step(p, x, s[i]))
  BY <1>2, ReadingChatEvent DEF Quiet, D
<1>8. Kept(p, r)
  BY <1>2
<1>9. Kept(p, k[D])
  BY <1>1, <1>6, <1>7, <1>8, Along!FoldKeeps DEF D
<1> QED BY <1>2, <1>3, <1>9

\* So do the events of a chunk in turn.
LEMMA ReadingGeminiEvents ==
    ASSUME NEW m, NEW r, NEW s, Reading(m, r), Quiet(m, s)
    PROVE  Reading(m, FoldLeft(GeminiEvent, r, s))
<1> DEFINE p == <<"gemini", "", m>>
           D == DOMAIN s
           Value(k, T) == IF T = {} THEN r
                          ELSE GeminiEvent(k[T \ {Along!LastOf(T)}], s[Along!LastOf(T)])
           k == CHOOSE k : k = [T \in SUBSET D |-> Value(k, T)]
<1>1. D = 1..Len(s) /\ Len(s) \in Nat
  BY ListDomain DEF Quiet
<1>2. \A x, y : Step(p, x, y) = GeminiEvent(x, y) /\ Kept(p, x) = Reading(m, x)
  BY DEF Step, Kept
<1>3. FoldLeft(GeminiEvent, r, s) = k[D]
  BY DEF FoldLeft, MapThenFoldSet, Max, Along!LastOf
<1> HIDE DEF p, D
<1>4. \A l : Along!Recurs(l, D, p, r, s) <=> l = [T \in SUBSET D |-> Value(l, T)]
  BY <1>2 DEF Along!Recurs
<1>5. \E l : Along!Recurs(l, D, p, r, s)
  BY <1>1, Along!RecursionExists DEF D
<1>6. Along!Recurs(k, D, p, r, s)
  <2> HIDE DEF Value
  <2> QED BY <1>4, <1>5
<1> HIDE DEF k
<1>7. \A x : \A i \in D : Kept(p, x) => Kept(p, Step(p, x, s[i]))
  BY <1>2, ReadingGeminiEvent DEF Quiet, D
<1>8. Kept(p, r)
  BY <1>2
<1>9. Kept(p, k[D])
  BY <1>1, <1>6, <1>7, <1>8, Along!FoldKeeps DEF D
<1> QED BY <1>2, <1>3, <1>9

\* Each reader goes on reading after such a chunk.
LEMMA ReadingChat ==
    ASSUME NEW m, NEW r, NEW c, Reading(m, r), Midway(m, Chat, c)
    PROVE  Reading(m, ReadChat(r, c))
<1> DEFINE u == [EmitIf(~r.started, r, ResponseStart) EXCEPT !.started = TRUE]
           n == IF m = "before" THEN "before" ELSE "any"
<1>1. Reading(m, u)
  <2>1. Reading(m, EmitIf(~r.started, r, ResponseStart))
    BY EventTypes, ReadingEmitIf
  <2> QED BY <2>1 DEF Reading
<1>2. Reading(m, FoldLeft(ChatEvent, u, ChatChunkEvents(c)))
  <2>1. n = "any" \/ c.finish = ""
    BY DEF Midway
  <2>2. (m # "before" \/ n # "any") /\ Lst(c.calls)
    BY DEF Midway
  <2> HIDE DEF u, n
  <2>3. Quiet(n, ChatChunkEvents(c))
    BY <2>1, <2>2, ChatEventsQuiet
  <2> QED BY <1>1, <2>2, <2>3, ReadingChatEvents
<1>3. Reading(m, [Fail(r, "break") EXCEPT !.terminated = TRUE])
  <2>1. Reading(m, Fail(r, "break")) /\ Fail(r, "break").failed = TRUE
    BY ReadingFail DEF Fail, Emit, Reading
  <2> QED BY <2>1 DEF Reading
<1>4. Reading(m, Refuse(r))
  BY ReadingRefuse
<1>5. c.kind = "[DONE]" => Reading(m, [r EXCEPT !.terminated = TRUE, !.over = "break"])
  BY DEF Reading, Midway
<1> HIDE DEF u
<1> QED BY <1>2, <1>3, <1>4, <1>5 DEF ReadChat, u

\* A chunk of Gemini.
LEMMA ReadingGemini ==
    ASSUME NEW m, NEW r, NEW c, Reading(m, r), Midway(m, Gemini, c)
    PROVE  Reading(m, ReadGemini(r, c))
<1>1. Reading(m, FoldLeft(GeminiEvent, r, GeminiChunkEvents(c, r.request, r.offset)))
  BY GeminiEventsQuiet, ReadingGeminiEvents DEF Midway
<1>2. Reading(m, [Fail(r, "break") EXCEPT !.terminated = TRUE])
  <2>1. Reading(m, Fail(r, "break")) /\ Fail(r, "break").failed = TRUE
    BY ReadingFail DEF Fail, Emit, Reading
  <2> QED BY <2>1 DEF Reading
<1>3. Reading(m, Refuse(r))
  BY ReadingRefuse
<1>4. c.kind = "[DONE]" => Reading(m, [r EXCEPT !.terminated = TRUE, !.over = "break"])
  BY DEF Reading, Midway, Gemini
<1> QED BY <1>1, <1>2, <1>3, <1>4 DEF ReadGemini

\* The calls of a final response are a list.
LEMMA FinalCalls ==
    ASSUME NEW output, NEW status, NEW why, NEW usage, Lst(output)
    PROVE  Lst(FromResponses(output, status, why, usage).calls)
<1> DEFINE each == [n \in DOMAIN output |-> Opt(IsCallItem(output[n]), output[n])]
           items == CallItems(output)
           calls == [n \in DOMAIN items |-> CallOfItem(items[n])]
<1>1. Lst(each)
  <2>1. each = [n \in DOMAIN output |-> each[n]]
    OBVIOUS
  <2> HIDE DEF each
  <2> QED BY <2>1, ListFunction
<1>2. \A n \in DOMAIN each : Quiet("any", each[n])
  BY ListOpt DEF Quiet
<1>3. Lst(items)
  <2>1. items = Concat(each)
    BY DEF CallItems
  <2> HIDE DEF each, items
  <2> QED BY <1>1, <1>2, <2>1, QuietConcat DEF Quiet
<1>4. Lst(calls)
  <2>1. calls = [n \in DOMAIN items |-> calls[n]]
    OBVIOUS
  <2> HIDE DEF items, calls
  <2> QED BY <1>3, <2>1, ListFunction
<1>5. FromResponses(output, status, why, usage).calls = calls
  BY DEF FromResponses, Response
<1> QED BY <1>4, <1>5

\* What a final response tells of itself before its end: texts, and calls.
LEMMA ReadingFinalText ==
    ASSUME NEW m, NEW r, NEW response, Reading(m, r)
    PROVE  Reading(m, FinalText(r, response))
<1> DEFINE told == response.text # None /\ "text" \notin r.seen
           t == EmitIf(told, r, TextDelta(0, response.text))
           refused == response.refusal # None /\ "refusal" \notin r.seen
<1>1. Reading(m, t)
  <2> HIDE DEF told
  <2> QED BY EventTypes, ReadingEmitIf
<1>2. FinalText(r, response) = EmitIf(refused, t, RefusalDelta(0, response.refusal))
  BY DEF FinalText
<1> HIDE DEF refused, t
<1> QED BY <1>1, <1>2, EventTypes, ReadingEmitIf

\* A call of the final response that was not told before may be told.
LEMMA ReadingFinalCall ==
    ASSUME NEW m, NEW r, NEW call, Reading(m, r)
    PROVE  Reading(m, FinalCall(r, call))
BY ReadingStart, ReadingDone DEF FinalCall

\* The calls in turn: a fold.
LEMMA ReadingFinalCalls ==
    ASSUME NEW m, NEW r, NEW s, Reading(m, r), Lst(s)
    PROVE  Reading(m, FoldLeft(FinalCall, r, s))
<1> DEFINE p == <<"final", "", m>>
           D == DOMAIN s
           Value(k, T) == IF T = {} THEN r
                          ELSE FinalCall(k[T \ {Along!LastOf(T)}], s[Along!LastOf(T)])
           k == CHOOSE k : k = [T \in SUBSET D |-> Value(k, T)]
<1>1. D = 1..Len(s) /\ Len(s) \in Nat
  BY ListDomain
<1>2. \A x, y : Step(p, x, y) = FinalCall(x, y) /\ Kept(p, x) = Reading(m, x)
  BY DEF Step, Kept
<1>3. FoldLeft(FinalCall, r, s) = k[D]
  BY DEF FoldLeft, MapThenFoldSet, Max, Along!LastOf
<1> HIDE DEF p, D
<1>4. \A l : Along!Recurs(l, D, p, r, s) <=> l = [T \in SUBSET D |-> Value(l, T)]
  BY <1>2 DEF Along!Recurs
<1>5. \E l : Along!Recurs(l, D, p, r, s)
  BY <1>1, Along!RecursionExists DEF D
<1>6. Along!Recurs(k, D, p, r, s)
  <2> HIDE DEF Value
  <2> QED BY <1>4, <1>5
<1> HIDE DEF k
<1>7. \A x : \A i \in D : Kept(p, x) => Kept(p, Step(p, x, s[i]))
  BY <1>2, ReadingFinalCall
<1>8. Kept(p, r)
  BY <1>2
<1>9. Kept(p, k[D])
  BY <1>1, <1>6, <1>7, <1>8, Along!FoldKeeps DEF D
<1> QED BY <1>2, <1>3, <1>9

\* The last event, after which the loop is left.
Over(r, e) == [Emit(r, e) EXCEPT !.terminated = TRUE, !.over = "break"]

\* The end of the response is the last it tells.
LEMMA FinalTold ==
    ASSUME NEW m, NEW r, NEW response, Reading(m, r), Lst(response.calls)
    PROVE  \E x, e : /\ Reading(m, x) /\ e.type = "response_done"
                     /\ ResponsesFinal(r, response) = Over(x, e)
<1> DEFINE given == FoldLeft(FinalCall, FinalText(r, response), response.calls)
           told == DoneAll(given)
           t == [told EXCEPT !.usage = response.usage]
           counted == EmitIf(response.usage # ZeroUsage, t, UsageEvent(response.usage))
           e == ResponseDone(response.reason)
<1>1. Reading(m, given)
  <2> DEFINE f == FinalText(r, response)
  <2>1. Reading(m, f)
    BY ReadingFinalText
  <2> HIDE DEF f
  <2> QED BY <2>1, ReadingFinalCalls DEF f
<1> HIDE DEF given
<1>2. Reading(m, told)
  BY <1>1, ReadingDoneAll
<1> HIDE DEF told
<1>3. Reading(m, t)
  BY <1>2 DEF Reading
<1> HIDE DEF t
<1>4. Reading(m, counted)
  BY <1>3, EventTypes, ReadingEmitIf
<1>5. e.type = "response_done"
  BY DEF ResponseDone, Blank
<1>6. ResponsesFinal(r, response) = Over(counted, e)
  BY DEF ResponsesFinal, Over, counted, t, told, given
<1> HIDE DEF counted, e
<1> QED BY <1>4, <1>5, <1>6

\* The end of a stream of Responses is read.
LEMMA FinalKept ==
    ASSUME NEW r, NEW response, Reading("any", r), Lst(response.calls)
    PROVE  Reading("any", ResponsesFinal(r, response))
<1>1. PICK x, e : /\ Reading("any", x) /\ e.type = "response_done"
                  /\ ResponsesFinal(r, response) = Over(x, e)
  BY FinalTold
<1> DEFINE y == Emit(x, e)
<1>2. Reading("any", y)
  BY <1>1, ReadingEmit
<1>3. Over(x, e) = [y EXCEPT !.terminated = TRUE, !.over = "break"]
  BY DEF Over
<1> HIDE DEF y
<1>4. Reading("any", Over(x, e))
  BY <1>2, <1>3 DEF Reading
<1> QED BY <1>1, <1>4

\* An event of Responses.
LEMMA ReadingResponses ==
    ASSUME NEW m, NEW r, NEW c, Reading(m, r), Midway(m, Responses, c)
    PROVE  Reading(m, ReadResponses(r, c))
<1>1. Reading(m, Emit(r, ResponseStart))
  BY EventTypes, ReadingEmit
<1>2. /\ Reading(m, See(Emit(r, TextDelta(c.at, c.delta)), "text"))
      /\ Reading(m, See(Emit(r, RefusalDelta(c.at, c.delta)), "refusal"))
      /\ Reading(m, See(Emit(r, ReasoningDelta(c.at, c.delta, None)), "reasoning"))
  BY EventTypes, ReadingEmit, ReadingSee
<1>3. /\ \A e : Reading(m, StartTool(r, e)) /\ Reading(m, DeltaTool(r, e)) /\ Reading(m, DoneTool(r, e))
      /\ \A cond : Reading(m, EmitIf(cond, r, MessageStart))
  BY EventTypes, ReadingStart, ReadingDelta, ReadingDone, ReadingEmitIf
<1>4. Reading(m, ReasoningItemDone(r, c))
  <2> DEFINE delta == IF "reasoning" \in r.seen THEN None ELSE c.item.text
             e == ReasoningDelta(c.at, delta, c.item.sig)
  <2>1. Reading(m, See(Emit(r, e), "reasoning"))
    <3>1. e.type # "response_done"
      BY EventTypes
    <3> HIDE DEF e
    <3> QED BY <3>1, ReadingEmit, ReadingSee
  <2>2. ReasoningItemDone(r, c) = IF delta = None /\ c.item.sig = None THEN r
                                  ELSE See(Emit(r, e), "reasoning")
    BY DEF ReasoningItemDone
  <2> HIDE DEF delta, e
  <2> QED BY <2>1, <2>2
<1>5. Reading(m, Fail(r, "return")) /\ Reading(m, Refuse(r))
  BY ReadingFail, ReadingRefuse
<1>6. c.kind \in {"created", "text.delta", "refusal.delta", "reasoning.delta", "item.added",
                  "arguments.delta", "arguments.done", "item.done", "error", "failed",
                  "garbage"} \union (IF m = "any" THEN {"final"} ELSE {})
  BY DEF Midway
<1>7. CASE c.kind \in {"created", "text.delta", "refusal.delta", "reasoning.delta"}
  BY <1>1, <1>2, <1>7 DEF ReadResponses
<1>8. CASE c.kind = "item.added"
  BY <1>3, <1>8 DEF ReadResponses
<1>9. CASE c.kind \in {"arguments.delta", "arguments.done"}
  BY <1>3, <1>9 DEF ReadResponses
<1>10. CASE c.kind = "item.done"
  <2>1. ReadResponses(r, c) =
          CASE c.item.kind = "reasoning" -> ReasoningItemDone(r, c)
            [] IsCallItem(c.item) ->
                   DoneTool(r, CallDone(c.at, FirstNonEmpty(c.item.id, c.item.item),
                                        c.item.name, c.item.args, None))
            [] OTHER -> r
    BY <1>10 DEF ReadResponses
  <2> QED BY <1>3, <1>4, <2>1 DEF IsCallItem
<1>11. CASE c.kind \in {"error", "failed", "garbage"}
  BY <1>5, <1>11 DEF ReadResponses
<1>12. CASE m = "any" /\ c.kind = "final"
  <2> DEFINE response == FromResponses(c.output, c.status, c.why, c.usage)
  <2>1. Lst(response.calls)
    BY FinalCalls DEF Midway
  <2>2. ReadResponses(r, c) = ResponsesFinal(r, response)
    BY <1>12 DEF ReadResponses
  <2> HIDE DEF response
  <2>3. Reading(m, ResponsesFinal(r, response))
    BY <1>12, <2>1, FinalKept
  <2> QED BY <2>2, <2>3
<1> QED BY <1>6, <1>7, <1>8, <1>9, <1>10, <1>11, <1>12

\* The reason of an answer of Anthropic ends its calls, and is told as a refusal.
LEMMA ReadingMessageDelta ==
    ASSUME NEW m, NEW r, NEW c, Reading(m, r)
    PROVE  Reading(m, MessageDelta(r, c))
<1> DEFINE u == [r EXCEPT !.reason = FromStopReason(c.reason), !.usage = MergeUsage(@, c.usage)]
           ended == DoneAll(u)
           seen == See(ended, "message_delta")
           counted == EmitIf(ended.usage # ZeroUsage, seen, UsageEvent(ended.usage))
           refusal == RefusalDelta(0, FirstNonEmpty(c.explanation, DefaultRefusal))
<1>1. Reading(m, u)
  BY DEF Reading
<1>2. MessageDelta(r, c) = EmitIf(c.reason = "refusal", counted, refusal)
  BY DEF MessageDelta
<1>3. refusal.type # "response_done"
  BY EventTypes
<1> HIDE DEF u, refusal
<1>4. Reading(m, ended)
  BY <1>1, ReadingDoneAll
<1> HIDE DEF ended
<1>5. Reading(m, seen)
  BY <1>4, ReadingSee
<1> HIDE DEF seen
<1>6. Reading(m, counted)
  BY <1>5, EventTypes, ReadingEmitIf
<1> HIDE DEF counted
<1> QED BY <1>2, <1>3, <1>6, ReadingEmitIf

\* An event of Anthropic.
LEMMA ReadingAnthropic ==
    ASSUME NEW m, NEW r, NEW c, Reading(m, r), Midway(m, Anthropic, c)
    PROVE  Reading(m, ReadAnthropic(r, c))
<1>1. Reading(m, Emit(Emit([r EXCEPT !.usage = MergeUsage(@, c.usage)], ResponseStart), MessageStart))
  <2>1. Reading(m, [r EXCEPT !.usage = MergeUsage(@, c.usage)])
    BY DEF Reading
  <2> QED BY <2>1, EventTypes, ReadingEmit
<1>2. \A e : Reading(m, StartTool(r, e)) /\ Reading(m, DoneTool(r, e)) /\ Reading(m, DeltaTool(r, e))
  BY ReadingStart, ReadingDone, ReadingDelta
<1>3. ASSUME c.kind = "block_delta" PROVE Reading(m, BlockDelta(r, c))
  <2>1. /\ Reading(m, Emit(r, TextDelta(c.at, c.delta.text)))
        /\ Reading(m, Emit(r, ReasoningDelta(c.at, c.delta.text, None)))
        /\ Reading(m, Emit(r, ReasoningDelta(c.at, None, c.delta.text)))
    BY EventTypes, ReadingEmit
  <2>2. c.delta.kind \in {"text", "thinking", "signature", "input_json"}
    BY <1>3 DEF Midway
  <2> QED BY <1>2, <2>1, <2>2 DEF BlockDelta
<1>4. Reading(m, Fail(r, "return")) /\ Reading(m, Refuse(r))
  BY ReadingFail, ReadingRefuse
<1>5. c.kind \in {"message_start", "block_start", "block_delta", "block_stop", "error", "garbage",
                  "message_delta"} \union (IF m = "any" THEN {"message_stop"} ELSE {})
  BY DEF Midway
<1>6. CASE c.kind = "message_start"
  BY <1>1, <1>6 DEF ReadAnthropic
<1>7. CASE c.kind \in {"block_start", "block_stop"}
  BY <1>2, <1>7 DEF ReadAnthropic
<1>8. CASE c.kind = "block_delta"
  BY <1>3, <1>8 DEF ReadAnthropic
<1>9. CASE c.kind \in {"error", "garbage"}
  BY <1>4, <1>9 DEF ReadAnthropic
<1>10. CASE c.kind = "message_delta"
  BY <1>10, ReadingMessageDelta DEF ReadAnthropic
<1>11. CASE m = "any" /\ c.kind = "message_stop"
  <2> DEFINE e == ResponseDone(r.reason)
  <2>1. Reading(m, Emit(r, e))
    <3> HIDE DEF e
    <3> QED BY <1>11, ReadingEmit
  <2>2. Reading(m, [Emit(r, e) EXCEPT !.terminated = TRUE, !.over = "break"])
    <3> HIDE DEF e
    <3> QED BY <1>11, <2>1 DEF Reading
  <2>3. ReadAnthropic(r, c)
          = IF "message_delta" \notin r.seen THEN Refuse(r)
            ELSE [Emit(r, e) EXCEPT !.terminated = TRUE, !.over = "break"]
    BY <1>11 DEF ReadAnthropic
  <2> HIDE DEF e
  <2> QED BY <1>4, <2>2, <2>3
<1> QED BY <1>5, <1>6, <1>7, <1>8, <1>9, <1>10, <1>11

\* A reader that has read no end reads none in a chunk from before the end.
LEMMA ReadingRead ==
    ASSUME NEW m, NEW protocol \in Protocols, NEW r, NEW c, Reading(m, r), Midway(m, protocol, c)
    PROVE  Reading(m, Read(protocol, r, c))
BY ReadingChat, ReadingGemini, ReadingResponses, ReadingAnthropic
   DEF Read, Protocols, Chat, Responses, Anthropic, Gemini

\* A reader that is left returns, an error if it has not read the end.
Returned(m, r) ==
    /\ {"out", "result", "over"} \subseteq DOMAIN r /\ Quiet(m, r.out)
    /\ r.result \in {"error"} \union (IF m = "before" THEN {} ELSE {"ok"})
    /\ r.over \in {"", "break", "return"}

\* It is left when the body ends or breaks off; what it held back is told then.
LEMMA LeftReading ==
    ASSUME NEW m \in {"before", "any"}, NEW protocol \in Protocols, NEW r, NEW broken,
           Reading(m, r)
    PROVE  Returned(m, Leave(protocol, r, broken))
<1>1. Reading(m, LeaveChat(r))
  <2> DEFINE d == DoneAll(r)
  <2>1. Reading(m, d)
    BY ReadingDoneAll
  <2>2. LeaveChat(r) = IF d.held = <<>> THEN d ELSE [Emit(d, d.held[1]) EXCEPT !.terminated = TRUE]
    BY DEF LeaveChat
  <2> HIDE DEF d
  <2>3. CASE m = "before"
    BY <2>1, <2>2, <2>3 DEF Reading
  <2>4. CASE m = "any"
    <3> DEFINE x == Emit(d, d.held[1])
    <3>1. Reading(m, x)
      BY <2>1, <2>4, ReadingEmit
    <3> HIDE DEF x
    <3>2. Reading(m, [x EXCEPT !.terminated = TRUE])
      BY <2>4, <3>1 DEF Reading
    <3> QED BY <2>1, <2>2, <3>2 DEF x
  <2> QED BY <2>3, <2>4
<1>2. Reading(m, LeaveAnthropic(r))
  <2>1. Reading(m, DoneAll(r)) /\ UsageEvent(r.usage).type # "response_done"
    BY ReadingDoneAll, EventTypes
  <2> QED BY <2>1, ReadingEmitIf DEF LeaveAnthropic
<1>3. Reading(m, AfterLoop(protocol, r))
  BY <1>1, <1>2 DEF AfterLoop
<1> DEFINE a == AfterLoop(protocol, r)
<1>4. Leave(protocol, r, broken)
        = [a EXCEPT !.result = IF broken \/ a.failed \/ ~a.terminated THEN "error" ELSE "ok"]
  BY DEF Leave
<1>5. (m = "before" => a.failed \/ ~a.terminated) /\ Reading(m, a)
  BY <1>3 DEF Reading
<1> HIDE DEF a
<1> QED BY <1>4, <1>5 DEF Returned, Reading

-----------------------------------------------------------------------------
(* The encoders                                                            *)

\* What the encoders write for such events.
LEMMA WriteUnended ==
    ASSUME NEW m
    PROVE  /\ \A to, type, at, item : type \in Tokens(to) => Unended(m, to, Write(type, at, item))
           /\ \A to \in Protocols : Unended(m, to, ErrorWritten)
           /\ \A u : Unended(m, Chat, [Written EXCEPT !.type = "usage", !.usage = u])
           /\ \A u : Unended(m, Gemini, [Written EXCEPT !.type = "chunk", !.usage = u])
<1>0. Lst(<<>>)
  BY QuietNone DEF Quiet, None
<1>1. \A to, type, at, item :
          type \in Tokens(to) => Unended(m, to, Write(type, at, item))
  BY <1>0 DEF Unended, Write, Written
<1>2. /\ \A to \in Protocols : "error" \in Tokens(to)
      /\ "usage" \in Tokens(Chat) /\ "chunk" \in Tokens(Gemini)
  BY DEF Tokens, Protocols, Chat, Responses, Anthropic, Gemini
<1>3. ErrorWritten.type = "error" /\ ErrorWritten.reason = "" /\ ErrorWritten.calls = <<>>
  BY DEF ErrorWritten, Written
<1>4. \A t, u : LET w == [Written EXCEPT !.type = t, !.usage = u]
                IN w.type = t /\ w.reason = "" /\ w.calls = <<>>
  BY DEF Written
<1>5. \A to \in Protocols : Unended(m, to, ErrorWritten)
  BY <1>0, <1>2, <1>3 DEF Unended
<1>6. \A u : Unended(m, Chat, [Written EXCEPT !.type = "usage", !.usage = u])
  BY <1>0, <1>2, <1>4 DEF Unended
<1>7. \A u : Unended(m, Gemini, [Written EXCEPT !.type = "chunk", !.usage = u])
  BY <1>0, <1>2, <1>4 DEF Unended
<1> QED BY <1>1, <1>5, <1>6, <1>7

\* What they write besides when the answer ends.
LEMMA WriteEndings ==
    /\ \A to, type, at, item : type \in Endings(to) => Unended("any", to, Write(type, at, item))
    /\ \A status, reason, output, usage :
          Unended("any", Responses, [Written EXCEPT !.type = "final", !.status = status,
                                     !.reason = reason, !.output = output, !.usage = usage])
    /\ \A reason, refusal, usage :
          Unended("any", Anthropic, [Written EXCEPT !.type = "message_delta", !.reason = reason,
                                     !.refusal = refusal, !.usage = usage])
    /\ \A reason : Unended("any", Gemini, [Written EXCEPT !.type = "chunk", !.reason = reason])
    /\ \A calls, reason :
          Lst(calls) => Unended("any", Gemini, [Written EXCEPT !.type = "chunk", !.calls = calls,
                                                !.reason = reason])
    /\ \A at, reason : Unended("any", Chat, [Write("chunk", at, Silent) EXCEPT !.reason = reason])
<1>0. Lst(<<>>)
  BY QuietNone DEF Quiet, None
<1>1. /\ "final" \in Endings(Responses) /\ "message_delta" \in Endings(Anthropic)
      /\ "chunk" \in Tokens(Gemini) /\ "chunk" \in Tokens(Chat)
  BY DEF Tokens, Endings, Chat, Responses, Anthropic, Gemini
<1>2. \A to, w : w.type \in Tokens(to) \union Endings(to) /\ Lst(w.calls) => Unended("any", to, w)
  BY DEF Unended
<1>3. \A to, type, at, item : type \in Endings(to) => Unended("any", to, Write(type, at, item))
  BY <1>0, <1>2 DEF Write, Written
<1>4. ASSUME NEW status, NEW reason, NEW output, NEW usage
      PROVE  Unended("any", Responses, [Written EXCEPT !.type = "final", !.status = status,
                                        !.reason = reason, !.output = output, !.usage = usage])
  BY <1>0, <1>1, <1>2 DEF Written
<1>5. ASSUME NEW reason, NEW refusal, NEW usage
      PROVE  Unended("any", Anthropic, [Written EXCEPT !.type = "message_delta", !.reason = reason,
                                        !.refusal = refusal, !.usage = usage])
  BY <1>0, <1>1, <1>2 DEF Written
<1>6. \A reason : Unended("any", Gemini, [Written EXCEPT !.type = "chunk", !.reason = reason])
  BY <1>0, <1>1, <1>2 DEF Written
<1>7. ASSUME NEW calls, NEW reason, Lst(calls)
      PROVE  Unended("any", Gemini, [Written EXCEPT !.type = "chunk", !.calls = calls,
                                     !.reason = reason])
  BY <1>1, <1>2, <1>7 DEF Written
<1>8. \A at, reason : Unended("any", Chat, [Write("chunk", at, Silent) EXCEPT !.reason = reason])
  BY <1>0, <1>1, <1>2 DEF Write, Written
<1> QED BY <1>3, <1>4, <1>5, <1>6, <1>7, <1>8

\* Writing something like it keeps an encoder so.
LEMMA UnendedAppend ==
    ASSUME NEW m, NEW to, NEW s, NEW w, AllUnended(m, to, s), Unended(m, to, w)
    PROVE  AllUnended(m, to, Append(s, w))
<1>1. Lst(s)
  BY DEF AllUnended
<1> QED BY <1>1, ListAppend DEF AllUnended

\* Two such lists joined are one.
LEMMA UnendedJoin ==
    ASSUME NEW m, NEW to, NEW s, NEW t, AllUnended(m, to, s), AllUnended(m, to, t)
    PROVE  AllUnended(m, to, s \o t)
<1>1. Lst(s) /\ Lst(t)
  BY DEF AllUnended
<1>2. AllUnended(m, to, Joined(s, t))
  BY <1>1, ListJoin DEF AllUnended
<1> QED BY <1>2 DEF Joined

\* So is what may be written or not.
LEMMA UnendedOpt ==
    ASSUME NEW m, NEW to, NEW cond, NEW w, cond => Unended(m, to, w)
    PROVE  AllUnended(m, to, Opt(cond, w))
<1>1. CASE cond
  BY <1>1, ListOpt DEF AllUnended
<1>2. CASE ~cond
  <2>1. DOMAIN Opt(cond, w) = {}
    BY <1>2 DEF Opt
  <2> QED BY <2>1, ListOpt DEF AllUnended
<1> QED BY <1>1, <1>2

\* An encoder writes one more thing.
LEMMA EncodingPut ==
    ASSUME NEW m, NEW to, NEW e, NEW w, Encoding(m, to, e), Unended(m, to, w)
    PROVE  Encoding(m, to, Put(e, w))
<1>1. AllUnended(m, to, Append(e.out, w))
  BY UnendedAppend DEF Encoding
<1> QED BY <1>1 DEF Encoding, Put

\* Or does not.
LEMMA EncodingPutIf ==
    ASSUME NEW m, NEW to, NEW e, NEW w, NEW cond, Encoding(m, to, e), cond => Unended(m, to, w)
    PROVE  Encoding(m, to, PutIf(cond, e, w))
BY EncodingPut DEF PutIf

\* A change of anything but its calls and what it writes.
LEMMA SameEncoding ==
    ASSUME NEW m, NEW to, to # Gemini, NEW e, Encoding(m, to, e), NEW f,
           DOMAIN f = DOMAIN e, f.out = e.out, DOMAIN f.calls = DOMAIN e.calls
    PROVE  Encoding(m, to, f)
BY DEF Encoding

\* The encoder for Responses: each of its writers.
LEMMA RWrites ==
    ASSUME NEW m
    PROVE  \A type \in {"created", "added", "delta", "done", "error"} :
              \A at, item : Unended(m, Responses, Write(type, at, item))
<1>1. Tokens(Responses) = {"created", "added", "delta", "done", "error"}
  BY DEF Tokens, Chat, Responses, Anthropic, Gemini
<1> QED BY <1>1, WriteUnended

\* An item is closed.
LEMMA RClose ==
    ASSUME NEW m, NEW e, NEW at, NEW item, Encoding(m, Responses, e)
    PROVE  Encoding(m, Responses, CloseItem(e, at, item))
<1>1. Encoding(m, Responses, [e EXCEPT !.output = At(@, at, item)])
  BY DEF Encoding
<1> QED BY <1>1, RWrites, EncodingPut DEF CloseItem

\* Reasoning is opened, grown and closed.
LEMMA RReasoningKept ==
    ASSUME NEW m, NEW e, Encoding(m, Responses, e)
    PROVE  /\ Encoding(m, Responses, RCloseReasoning(e))
           /\ \A ev : Encoding(m, Responses, RReasoning(e, ev))
<1>1. Encoding(m, Responses, RCloseReasoning(e))
  <2>1. Encoding(m, Responses, CloseItem(e, e.reasoningAt, Item("reasoning", e.reasoning, e.sig)))
    BY RClose
  <2> QED BY <2>1 DEF RCloseReasoning, Encoding
<1>2. Encoding(m, Responses, REnsureReasoning(e))
  <2>1. Encoding(m, Responses, [e EXCEPT !.reasoningAt = e.next, !.reasoningOpen = TRUE, !.next = @ + 1])
    BY DEF Encoding
  <2> QED BY <2>1, RWrites, EncodingPut DEF REnsureReasoning
<1>3. ASSUME NEW ev PROVE Encoding(m, Responses, RReasoning(e, ev))
  <2> DEFINE o == REnsureReasoning(e)
             p == [o EXCEPT !.reasoning = @ \o ev.delta, !.sig = @ \o ev.sig]
  <2>1. Encoding(m, Responses, p)
    BY <1>2 DEF Encoding
  <2>2. RReasoning(e, ev) = IF ev.delta = None /\ ev.sig = None THEN e
            ELSE PutIf(ev.delta # None, p,
                       Write("delta", o.reasoningAt, Item("reasoning", ev.delta, None)))
    BY DEF RReasoning
  <2> HIDE DEF o, p
  <2> QED BY <2>1, <2>2, RWrites, EncodingPutIf
<1> QED BY <1>1, <1>3

\* A text or a refusal is opened and grown.
LEMMA RTextKept ==
    ASSUME NEW m, NEW e, NEW kind, NEW d, Encoding(m, Responses, e)
    PROVE  Encoding(m, Responses, RText(e, kind, d))
<1>1. Encoding(m, Responses, REnsureText(e, kind))
  <2> DEFINE c == RCloseReasoning(e)
             p == [c EXCEPT !.textAt = c.next, !.textOpen = TRUE, !.textKind = kind, !.next = @ + 1]
  <2>1. Encoding(m, Responses, p)
    BY RReasoningKept DEF Encoding
  <2>2. REnsureText(e, kind) = IF e.textOpen THEN e
                               ELSE Put(p, Write("added", c.next, Item(kind, None, None)))
    BY DEF REnsureText
  <2> HIDE DEF c, p
  <2> QED BY <2>1, <2>2, RWrites, EncodingPut
<1> DEFINE o == REnsureText(e, kind)
           q == [o EXCEPT !.text = @ \o d]
<1>2. Encoding(m, Responses, q)
  BY <1>1 DEF Encoding
<1>3. RText(e, kind, d) = IF d = None THEN e
                          ELSE Put(q, Write("delta", o.textAt, Item(o.textKind, d, None)))
  BY DEF RText
<1> HIDE DEF o, q
<1> QED BY <1>2, <1>3, RWrites, EncodingPut

\* A call is opened, grown and closed.
LEMMA RToolKept ==
    ASSUME NEW m, NEW e, NEW ev, Encoding(m, Responses, e)
    PROVE  /\ Encoding(m, Responses, RToolStart(e, ev))
           /\ Encoding(m, Responses, RToolDelta(e, ev))
           /\ Encoding(m, Responses, RToolDone(e, ev))
<1>1. Encoding(m, Responses, RToolStart(e, ev))
  <2> DEFINE c == RCloseReasoning(e)
             p == [c EXCEPT !.next = @ + 1,
                            !.calls = At(@, ev.index,
                                         [call |-> ToolCall(ev.id, ev.name, None, ev.sig),
                                          at |-> c.next, done |-> FALSE])]
             q == [e EXCEPT !.calls[ev.index].call.id = FirstNonEmpty(@, ev.id),
                            !.calls[ev.index].call.name = FirstNonEmpty(@, ev.name),
                            !.calls[ev.index].call.sig = FirstNonEmpty(@, ev.sig)]
  <2>1. Encoding(m, Responses, p)
    <3>1. Encoding(m, Responses, c)
      BY RReasoningKept
    <3> HIDE DEF c
    <3>2. IsFiniteSet(DOMAIN c.calls \union {ev.index})
      BY <3>1, FS_AddElement DEF Encoding
    <3>3. DOMAIN p.calls = DOMAIN c.calls \union {ev.index} /\ p.out = c.out /\ DOMAIN p = DOMAIN c
      BY <3>1 DEF Encoding, At
    <3> HIDE DEF p
    <3> QED BY <3>1, <3>2, <3>3 DEF Encoding, Responses, Gemini
  <2>2. Encoding(m, Responses, q)
    <3>1. DOMAIN q = DOMAIN e /\ q.out = e.out /\ DOMAIN q.calls = DOMAIN e.calls
      BY DEF Encoding
    <3> HIDE DEF q
    <3> QED BY <3>1, SameEncoding DEF Responses, Gemini
  <2>3. RToolStart(e, ev) = IF ev.index \in DOMAIN e.calls THEN q
                            ELSE Put(p, Write("added", c.next, CallItem(ev.id, ev.name, None)))
    BY DEF RToolStart
  <2> HIDE DEF c, p, q
  <2> QED BY <2>1, <2>2, <2>3, RWrites, EncodingPut
<1> DEFINE o == RAnnounced(e, ev)
           s == o.calls[ev.index]
<1>2. Encoding(m, Responses, o)
  BY <1>1 DEF RAnnounced
<1>3. Encoding(m, Responses, RToolDelta(e, ev))
  <2> DEFINE p == [o EXCEPT !.calls[ev.index].call.args = @ \o ev.delta]
  <2>1. RToolDelta(e, ev) = IF s.done \/ ev.delta = None THEN o
                            ELSE Put(p, Write("delta", s.at, CallItem(None, None, ev.delta)))
    BY DEF RToolDelta
  <2> HIDE DEF o, s
  <2>2. DOMAIN p = DOMAIN o /\ p.out = o.out /\ DOMAIN p.calls = DOMAIN o.calls
    BY <1>2 DEF Encoding
  <2> HIDE DEF p
  <2>3. Encoding(m, Responses, p)
    BY <1>2, <2>2, SameEncoding DEF Responses, Gemini
  <2> QED BY <1>2, <2>1, <2>3, RWrites, EncodingPut
<1>4. Encoding(m, Responses, RToolDone(e, ev))
  <2> DEFINE call == ToolCall(FirstNonEmpty(s.call.id, ev.id), FirstNonEmpty(s.call.name, ev.name),
                              FirstNonEmpty(ev.args, s.call.args), FirstNonEmpty(ev.sig, s.call.sig))
             p == [o EXCEPT !.calls[ev.index].call = call, !.calls[ev.index].done = TRUE]
  <2>1. RToolDone(e, ev) = IF s.done THEN o
                           ELSE CloseItem(p, s.at, CallItem(call.id, call.name, call.args))
    BY DEF RToolDone
  <2> HIDE DEF o, s, call
  <2>2. DOMAIN p = DOMAIN o /\ p.out = o.out /\ DOMAIN p.calls = DOMAIN o.calls
    BY <1>2 DEF Encoding
  <2> HIDE DEF p
  <2>3. Encoding(m, Responses, p)
    BY <1>2, <2>2, SameEncoding DEF Responses, Gemini
  <2> QED BY <1>2, <2>1, <2>3, RClose
<1> QED BY <1>1, <1>3, <1>4

\* The domain of a finite function, in order.
LEMMA SortedList ==
    ASSUME NEW f, IsFiniteSet(DOMAIN f)
    PROVE  Lst(SortedDomain(f))
<1> DEFINE n == Cardinality(DOMAIN f)
           s == SortedDomain(f)
           V(k) == CHOOSE x \in DOMAIN f : Cardinality({y \in DOMAIN f : y < x}) = k - 1
<1>1. n \in Nat
  BY FS_CardinalityType
<1>2. s = [k \in 1..n |-> V(k)]
  BY DEF SortedDomain
<1> HIDE DEF n, s, V
<1>3. s \in Seq({V(k) : k \in 1..n})
  BY <1>1, <1>2
<1> QED BY <1>3, ListOf DEF s

\* The calls that are not over when the answer ends: a fold.
LEMMA RToolsKept ==
    ASSUME NEW m, NEW e, Encoding(m, Responses, e)
    PROVE  Encoding(m, Responses, RToolsDone(e))
<1> DEFINE p == <<"tools", Responses, m>>
           s == SortedDomain(e.calls)
           D == DOMAIN s
           Turned(x, i) == LET c == x.calls[i].call
                           IN RToolDone(x, CallDone(i, c.id, c.name, c.args, c.sig))
           Value(k, T) == IF T = {} THEN e
                          ELSE Turned(k[T \ {Along!LastOf(T)}], s[Along!LastOf(T)])
           k == CHOOSE k : k = [T \in SUBSET D |-> Value(k, T)]
<1>0. Lst(s)
  BY SortedList DEF Encoding
<1>2. \A x, y : Step(p, x, y) = Turned(x, y) /\ Kept(p, x) = Encoding(m, Responses, x)
  BY DEF Step, Kept
<1>3. RToolsDone(e) = k[D]
  BY DEF RToolsDone, FoldLeft, MapThenFoldSet, Max, Along!LastOf
<1> HIDE DEF s
<1>1. D = 1..Len(s) /\ Len(s) \in Nat
  BY <1>0, ListDomain
<1> HIDE DEF p, D
<1>4. \A l : Along!Recurs(l, D, p, e, s) <=> l = [T \in SUBSET D |-> Value(l, T)]
  <2> HIDE DEF Turned
  <2> QED BY <1>2 DEF Along!Recurs
<1>5. \E l : Along!Recurs(l, D, p, e, s)
  BY <1>0, <1>1, Along!RecursionExists DEF D
<1>6. Along!Recurs(k, D, p, e, s)
  <2> HIDE DEF Value
  <2> QED BY <1>4, <1>5
<1> HIDE DEF k
<1>7. \A x : \A i \in D : Kept(p, x) => Kept(p, Step(p, x, s[i]))
  BY <1>2, RToolKept DEF D
<1>8. Kept(p, e)
  BY <1>2
<1>9. Kept(p, k[D])
  BY <1>0, <1>1, <1>6, <1>7, <1>8, Along!FoldKeeps DEF D
<1> QED BY <1>2, <1>3, <1>9

\* The answer is ended.
LEMMA RFinishKept ==
    ASSUME NEW e, NEW reason, NEW usage, Encoding("any", Responses, e)
    PROVE  Encoding("any", Responses, RFinish(e, reason, usage))
<1> DEFINE u == IF usage # ZeroUsage THEN usage ELSE e.usage
           counted == [e EXCEPT !.usage = u]
           r == RCloseReasoning(counted)
           x == IF r.textOpen THEN CloseItem(r, r.textAt, Item(r.textKind, r.text, None)) ELSE r
           t == RToolsDone(x)
           order == SortedDomain(t.output)
           refusal == IF e.textKind = "refusal" THEN e.text ELSE None
           output == [n \in DOMAIN order |-> t.output[order[n]]]
           status == ResponsesStatus(refusal, reason)
           why == ToIncompleteReason(reason)
           w == [Written EXCEPT !.type = "final", !.status = status, !.reason = why,
                                !.output = output, !.usage = t.usage]
           f == [t EXCEPT !.finished = TRUE]
<1>1. RFinish(e, reason, usage) = IF e.finished THEN e ELSE Put(f, w)
  BY DEF RFinish
<1>2. Encoding("any", Responses, counted)
  <2> HIDE DEF u
  <2> QED BY DEF Encoding
<1> HIDE DEF counted
<1>3. Encoding("any", Responses, r)
  BY <1>2, RReasoningKept
<1> HIDE DEF r
<1>4. Encoding("any", Responses, x)
  BY <1>3, RClose
<1> HIDE DEF x
<1>5. Encoding("any", Responses, t)
  BY <1>4, RToolsKept
<1> HIDE DEF t
<1>6. Encoding("any", Responses, f)
  BY <1>5 DEF Encoding
<1> HIDE DEF order, refusal, output, status, why
<1>7. Unended("any", Responses, w)
  BY WriteEndings
<1> HIDE DEF w, f
<1> QED BY <1>1, <1>6, <1>7, EncodingPut

\* The Responses encoder.
LEMMA EncodingResponses ==
    ASSUME NEW m, NEW e, NEW ev, Encoding(m, Responses, e), m = "any" \/ ev.type # "response_done"
    PROVE  Encoding(m, Responses, EncodeResponses(e, ev))
<1>1. \A kind : Encoding(m, Responses, RText(e, kind, ev.delta))
  BY RTextKept
<1>2. Encoding(m, Responses, RReasoning(e, ev))
  BY RReasoningKept
<1>3. /\ Encoding(m, Responses, RToolStart(e, ev)) /\ Encoding(m, Responses, RToolDelta(e, ev))
      /\ Encoding(m, Responses, RToolDone(e, ev))
  BY RToolKept
<1>4. Encoding(m, Responses, [e EXCEPT !.usage = ev.usage])
  BY DEF Encoding
<1>5. Encoding(m, Responses, [Put(e, ErrorWritten) EXCEPT !.finished = TRUE])
  <2>1. Encoding(m, Responses, Put(e, ErrorWritten))
    BY WriteUnended, EncodingPut DEF Protocols
  <2> QED BY <2>1 DEF Encoding
<1>6. m = "any" => Encoding(m, Responses, RFinish(e, ev.reason, e.usage))
  BY RFinishKept
<1> QED BY <1>1, <1>2, <1>3, <1>4, <1>5, <1>6 DEF EncodeResponses

\* The encoder for Anthropic.
LEMMA AWrites ==
    ASSUME NEW m
    PROVE  \A type \in {"message_start", "block_start", "block_delta", "block_stop", "error"} :
              \A at, item : Unended(m, Anthropic, Write(type, at, item))
<1>1. Tokens(Anthropic) = {"message_start", "block_start", "block_delta", "block_stop", "error"}
  BY DEF Tokens, Chat, Responses, Anthropic, Gemini
<1> QED BY <1>1, WriteUnended

\* Blocks are closed.
LEMMA AClosed ==
    ASSUME NEW m, NEW e, Encoding(m, Anthropic, e)
    PROVE  /\ Encoding(m, Anthropic, ACloseReasoning(e)) /\ Encoding(m, Anthropic, ACloseText(e))
           /\ Encoding(m, Anthropic, ACloseBlocks(e))
<1>1. ASSUME NEW x, Encoding(m, Anthropic, x) PROVE Encoding(m, Anthropic, ACloseReasoning(x))
  <2> DEFINE y == [x EXCEPT !.reasoningOpen = FALSE]
             z == PutIf(x.sig # None, y,
                        Write("block_delta", x.reasoningAt, Item("signature", None, x.sig)))
  <2>1. Encoding(m, Anthropic, y)
    BY <1>1 DEF Encoding
  <2>2. Encoding(m, Anthropic, z)
    <3> HIDE DEF y
    <3> QED BY <2>1, AWrites, EncodingPutIf
  <2>3. ACloseReasoning(x) = IF ~x.reasoningOpen THEN x
                             ELSE Put(z, Write("block_stop", x.reasoningAt, Silent))
    BY DEF ACloseReasoning
  <2> HIDE DEF z
  <2> QED BY <1>1, <2>2, <2>3, AWrites, EncodingPut
<1>2. ASSUME NEW x, Encoding(m, Anthropic, x) PROVE Encoding(m, Anthropic, ACloseText(x))
  <2>1. Encoding(m, Anthropic, [x EXCEPT !.textOpen = FALSE])
    BY <1>2 DEF Encoding
  <2> QED BY <1>2, <2>1, AWrites, EncodingPut DEF ACloseText
<1> QED BY <1>1, <1>2 DEF ACloseBlocks

\* Reasoning is opened and grown.
LEMMA AReasoningKept ==
    ASSUME NEW m, NEW e, NEW ev, Encoding(m, Anthropic, e)
    PROVE  Encoding(m, Anthropic, AReasoning(e, ev))
<1> DEFINE o == AEnsureReasoning(e)
           q == [o EXCEPT !.sig = @ \o ev.sig]
<1>1. Encoding(m, Anthropic, o)
  <2> DEFINE c == ACloseText(e)
             x == [c EXCEPT !.sig = None, !.reasoningOpen = TRUE, !.reasoningAt = c.next,
                            !.next = @ + 1]
  <2>1. Encoding(m, Anthropic, x)
    BY AClosed DEF Encoding
  <2>2. o = IF e.reasoningOpen THEN e
            ELSE Put(x, Write("block_start", c.next, Item("reasoning", None, None)))
    BY DEF AEnsureReasoning
  <2> HIDE DEF o, c, x
  <2> QED BY <2>1, <2>2, AWrites, EncodingPut
<1>2. AReasoning(e, ev) = IF ev.delta = None /\ ev.sig = None THEN e
          ELSE PutIf(ev.delta # None, q,
                     Write("block_delta", o.reasoningAt, Item("reasoning", ev.delta, None)))
  BY DEF AReasoning
<1> HIDE DEF o
<1>3. Encoding(m, Anthropic, q)
  BY <1>1 DEF Encoding
<1> HIDE DEF q
<1> QED BY <1>2, <1>3, AWrites, EncodingPutIf

\* A text is opened and grown.
LEMMA ATextKept ==
    ASSUME NEW m, NEW e, NEW d, Encoding(m, Anthropic, e)
    PROVE  Encoding(m, Anthropic, AText(e, d))
<1> DEFINE o == AEnsureText(e)
<1>1. Encoding(m, Anthropic, o)
  <2> DEFINE c == ACloseReasoning(e)
             x == [c EXCEPT !.textOpen = TRUE, !.textAt = c.next, !.next = @ + 1]
  <2>1. Encoding(m, Anthropic, x)
    BY AClosed DEF Encoding
  <2>2. o = IF e.textOpen THEN e
            ELSE Put(x, Write("block_start", c.next, Item("text", None, None)))
    BY DEF AEnsureText
  <2> HIDE DEF o, c, x
  <2> QED BY <2>1, <2>2, AWrites, EncodingPut
<1>2. AText(e, d) = IF d = None THEN e
                    ELSE Put(o, Write("block_delta", o.textAt, Item("text", d, None)))
  BY DEF AText
<1> HIDE DEF o
<1> QED BY <1>1, <1>2, AWrites, EncodingPut

\* A call is written whole when it is done.
LEMMA AToolKept ==
    ASSUME NEW m, NEW e, NEW ev, Encoding(m, Anthropic, e)
    PROVE  Encoding(m, Anthropic, AToolDone(e, ev))
<1> DEFINE c == ACloseBlocks(e)
           old == ACall(e, ev.index)
           call == [old EXCEPT !.id = FirstNonEmpty(@, ev.id), !.name = FirstNonEmpty(@, ev.name),
                               !.args = FirstNonEmpty(ev.args, @)]
           at == c.next
           x == [c EXCEPT !.calls = At(@, ev.index, call), !.next = @ + 1]
           u == Write("block_start", at, CallItem(call.id, call.name, None))
           v == Write("block_delta", at, CallItem(None, None, call.args))
           w == Write("block_stop", at, Silent)
<1>1. AToolDone(e, ev) = Put(Put(Put(x, u), v), w)
  BY DEF AToolDone
<1>2. Encoding(m, Anthropic, c)
  BY AClosed
<1>3. Unended(m, Anthropic, u) /\ Unended(m, Anthropic, v) /\ Unended(m, Anthropic, w)
  BY AWrites
<1> HIDE DEF c, call, u, v, w
<1>4. Encoding(m, Anthropic, x)
  BY <1>2 DEF Encoding, Responses, Anthropic, Gemini
<1> HIDE DEF x
<1> QED BY <1>1, <1>3, <1>4, EncodingPut

\* The answer is ended.
LEMMA AFinishKept ==
    ASSUME NEW e, NEW reason, NEW usage, Encoding("any", Anthropic, e)
    PROVE  Encoding("any", Anthropic, AFinish(e, reason, usage))
<1> DEFINE u == IF usage # ZeroUsage THEN usage ELSE e.usage
           uncached == IF u.in < u.cached THEN 0 ELSE u.in - u.cached
           left == [u EXCEPT !.in = uncached]
           stop == ToStopReason(reason)
           refusal == IF stop = "refusal" THEN FirstNonEmpty(e.refusal, NoExplanation) ELSE None
           delta == [Written EXCEPT !.type = "message_delta", !.reason = stop,
                                    !.refusal = refusal, !.usage = left]
           c == ACloseBlocks(e)
           f == [c EXCEPT !.usage = u, !.finished = TRUE]
           s == Write("message_stop", 0, Silent)
<1>1. AFinish(e, reason, usage) = IF e.finished THEN e ELSE Put(Put(f, delta), s)
  BY DEF AFinish
<1>2. Encoding("any", Anthropic, c)
  BY AClosed
<1> HIDE DEF u, left, stop, refusal, c
<1>3. Encoding("any", Anthropic, f)
  BY <1>2 DEF Encoding
<1>4. Unended("any", Anthropic, delta)
  BY WriteEndings
<1>5. Unended("any", Anthropic, s)
  <2>1. "message_stop" \in Endings(Anthropic)
    BY DEF Endings, Chat, Responses, Anthropic, Gemini
  <2> QED BY <2>1, WriteEndings
<1> HIDE DEF delta, f, s
<1> QED BY <1>1, <1>3, <1>4, <1>5, EncodingPut

\* The Anthropic encoder.
LEMMA EncodingAnthropic ==
    ASSUME NEW m, NEW e, NEW ev, Encoding(m, Anthropic, e), m = "any" \/ ev.type # "response_done"
    PROVE  Encoding(m, Anthropic, EncodeAnthropic(e, ev))
<1>1. /\ Encoding(m, Anthropic, AText(e, ev.delta)) /\ Encoding(m, Anthropic, AReasoning(e, ev))
      /\ Encoding(m, Anthropic, AToolDone(e, ev))
  BY ATextKept, AReasoningKept, AToolKept
<1>2. /\ Encoding(m, Anthropic, [e EXCEPT !.refusal = @ \o ev.delta])
      /\ Encoding(m, Anthropic, [e EXCEPT !.usage = ev.usage])
      /\ \A calls : Encoding(m, Anthropic, [e EXCEPT !.calls = calls])
  BY DEF Encoding, Responses, Anthropic, Gemini
<1>3. Encoding(m, Anthropic, [Put(e, ErrorWritten) EXCEPT !.finished = TRUE])
  <2>1. Encoding(m, Anthropic, Put(e, ErrorWritten))
    BY WriteUnended, EncodingPut DEF Protocols
  <2> QED BY <2>1 DEF Encoding
<1>4. m = "any" => Encoding(m, Anthropic, AFinish(e, ev.reason, e.usage))
  BY AFinishKept
<1> QED BY <1>1, <1>2, <1>3, <1>4 DEF EncodeAnthropic

\* The calls that waited are a list again when they are sorted.
LEMMA WaitingList == ASSUME NEW e, Lst(e.calls) PROVE Lst(GeminiCalls(e))
BY ListFunction DEF GeminiCalls

\* The encoder for Gemini.
LEMMA EncodingGemini ==
    ASSUME NEW m, NEW e, NEW ev, Encoding(m, Gemini, e), m = "any" \/ ev.type # "response_done"
    PROVE  Encoding(m, Gemini, EncodeGemini(e, ev))
<1>1. \A item : Unended(m, Gemini, Write("chunk", 0, item))
  <2>1. "chunk" \in Tokens(Gemini)
    BY DEF Tokens, Chat, Responses, Anthropic, Gemini
  <2> QED BY <2>1, WriteUnended
<1>2. /\ \A item : AllUnended(m, Gemini, Opt(TRUE, Write("chunk", 0, item)))
      /\ \A u : AllUnended(m, Gemini, Opt(TRUE, [Written EXCEPT !.type = "chunk", !.usage = u]))
  BY <1>1, WriteUnended, UnendedOpt
<1>3. AllUnended(m, Gemini, <<>>) /\ AllUnended(m, Gemini, <<ErrorWritten>>)
  <2>1. \A cond : AllUnended(m, Gemini, Opt(cond, ErrorWritten))
    BY WriteUnended, UnendedOpt DEF Protocols
  <2>2. Opt(FALSE, ErrorWritten) = <<>> /\ Opt(TRUE, ErrorWritten) = <<ErrorWritten>>
    BY DEF Opt
  <2>3. AllUnended(m, Gemini, Opt(FALSE, ErrorWritten)) /\ AllUnended(m, Gemini, Opt(TRUE, ErrorWritten))
    BY <2>1
  <2> QED BY <2>2, <2>3
<1>4. AllUnended(m, Gemini, GeminiChunk(ev))
  <2> DEFINE w == [Written EXCEPT !.type = "chunk", !.reason = ToGeminiReason(ev.reason)]
  <2>1. m = "any" => AllUnended(m, Gemini, Opt(TRUE, w))
    BY WriteEndings, UnendedOpt
  <2> QED BY <1>2, <1>3, <2>1 DEF GeminiChunk
<1>5. Encoding(m, Gemini, [e EXCEPT !.out = @ \o GeminiChunk(ev)])
  <2>1. AllUnended(m, Gemini, e.out \o GeminiChunk(ev))
    BY <1>4, UnendedJoin DEF Encoding
  <2> QED BY <2>1 DEF Encoding
<1>6. Encoding(m, Gemini, [e EXCEPT !.calls = Append(@, ev)])
  <2>1. Lst(Append(e.calls, ev))
    BY ListAppend DEF Encoding
  <2> QED BY <2>1 DEF Encoding, Responses, Gemini
<1>7. m = "any" =>
        Encoding(m, Gemini, Put([e EXCEPT !.calls = <<>>],
                                [Written EXCEPT !.type = "chunk", !.calls = GeminiCalls(e),
                                                !.reason = ToGeminiReason(ev.reason)]))
  <2> DEFINE x == [e EXCEPT !.calls = <<>>]
             w == [Written EXCEPT !.type = "chunk", !.calls = GeminiCalls(e),
                                  !.reason = ToGeminiReason(ev.reason)]
  <2>1. Encoding(m, Gemini, x)
    BY WriteUnended, EmptyList DEF Encoding, Responses, Gemini
  <2>2. m = "any" => Unended(m, Gemini, w)
    <3> DEFINE calls == GeminiCalls(e)
               reason == ToGeminiReason(ev.reason)
    <3>1. Lst(calls)
      BY WaitingList DEF Encoding
    <3> HIDE DEF calls, reason
    <3>2. Unended("any", Gemini, [Written EXCEPT !.type = "chunk", !.calls = calls, !.reason = reason])
      BY <3>1, WriteEndings
    <3> QED BY <3>2 DEF calls, reason
  <2> HIDE DEF x, w
  <2> QED BY <2>1, <2>2, EncodingPut DEF x, w
<1> QED BY <1>5, <1>6, <1>7 DEF EncodeGemini

\* The encoder for Chat.
LEMMA CWrites ==
    ASSUME NEW m
    PROVE  \A type \in {"role", "call", "chunk", "error"} :
              \A at, item : Unended(m, Chat, Write(type, at, item))
<1>1. Tokens(Chat) = {"role", "usage", "call", "chunk", "error"}
  BY DEF Tokens, Chat, Responses, Anthropic, Gemini
<1> QED BY <1>1, WriteUnended

\* The role is written.
LEMMA RoleKept == ASSUME NEW m, NEW e, Encoding(m, Chat, e) PROVE Encoding(m, Chat, WithRole(e))
<1>1. Encoding(m, Chat, [e EXCEPT !.roleWritten = TRUE])
  BY DEF Encoding, Chat, Responses, Gemini
<1> QED BY <1>1, CWrites, EncodingPut DEF WithRole, PutIf

\* The Chat encoder.
LEMMA EncodingChat ==
    ASSUME NEW m, NEW e, NEW ev, Encoding(m, Chat, e), m = "any" \/ ev.type # "response_done"
    PROVE  Encoding(m, Chat, EncodeChat(e, ev))
<1>1. Encoding(m, Chat, WithRole(e))
  BY RoleKept
<1>2. \A w : Unended(m, Chat, w) => AllUnended(m, Chat, <<w>>)
  <2>1. \A w : Unended(m, Chat, w) => AllUnended(m, Chat, Opt(TRUE, w))
    BY UnendedOpt
  <2>2. \A w : Opt(TRUE, w) = <<w>>
    BY DEF Opt
  <2> QED BY <2>1, <2>2
<1>3. AllUnended(m, Chat, <<>>)
  <2>1. AllUnended(m, Chat, Opt(FALSE, ErrorWritten)) /\ Opt(FALSE, ErrorWritten) = <<>>
    BY UnendedOpt DEF Opt
  <2> QED BY <2>1
<1>4. /\ \A item : AllUnended(m, Chat, <<Write("chunk", ev.index, item)>>)
      /\ \A item : AllUnended(m, Chat, <<Write("call", ev.index, item)>>)
      /\ \A cond : AllUnended(m, Chat, Opt(cond, [Written EXCEPT !.type = "usage", !.usage = ev.usage]))
  BY <1>2, CWrites, WriteUnended, UnendedOpt
<1>5. AllUnended(m, Chat, ChatChunk(e, ev))
  <2> DEFINE w == [Write("chunk", ev.index, Silent) EXCEPT !.reason = ev.reason]
  <2>1. m = "any" => AllUnended(m, Chat, <<w>>)
    BY <1>2, WriteEndings
  <2> QED BY <1>3, <1>4, <2>1 DEF ChatChunk
<1> DEFINE r == IF ev.type \in {"response_start", "usage"} THEN e ELSE WithRole(e)
<1>6. Encoding(m, Chat, [r EXCEPT !.out = @ \o ChatChunk(e, ev)])
  <2>1. Encoding(m, Chat, r)
    BY <1>1
  <2> HIDE DEF r
  <2>2. AllUnended(m, Chat, r.out \o ChatChunk(e, ev))
    BY <1>5, <2>1, UnendedJoin DEF Encoding
  <2> QED BY <2>1, <2>2 DEF Encoding
<1>7. Encoding(m, Chat, [Put(e, ErrorWritten) EXCEPT !.finished = TRUE])
  <2>1. Encoding(m, Chat, Put(e, ErrorWritten))
    BY WriteUnended, EncodingPut DEF Protocols
  <2> QED BY <2>1 DEF Encoding
<1>8. EncodeChat(e, ev) = IF ev.type = "error" THEN [Put(e, ErrorWritten) EXCEPT !.finished = TRUE]
                          ELSE IF e.finished THEN e
                          ELSE [r EXCEPT !.out = @ \o ChatChunk(e, ev)]
  BY DEF EncodeChat
<1> HIDE DEF r
<1> QED BY <1>6, <1>7, <1>8

\* The encoders as one: none of an event that is not the end, the end of a
\* stream that failed included, completes the answer.
LEMMA EncodingEvent ==
    ASSUME NEW m, NEW to \in Protocols, NEW e, NEW ev, Encoding(m, to, e),
           m = "any" \/ ev.type # "response_done"
    PROVE  Encoding(m, to, Encode(to, e, ev))
<1>1. CASE to = Gemini
  <2> DEFINE g == EncodeGemini(e, ev)
  <2>1. Encoding(m, Gemini, g)
    BY <1>1, EncodingGemini
  <2>2. Encode(to, e, ev) = [g EXCEPT !.finished = @ \/ ev.type = "error"]
    BY <1>1 DEF Encode, Chat, Responses, Anthropic, Gemini
  <2> HIDE DEF g
  <2> QED BY <1>1, <2>1, <2>2 DEF Encoding
<1>2. CASE to # Gemini
  BY <1>2, EncodingChat, EncodingResponses, EncodingAnthropic
     DEF Encode, Protocols, Chat, Responses, Anthropic, Gemini
<1> QED BY <1>1, <1>2

\* All the events of a chunk in turn: a fold.
LEMMA EncodingEvents ==
    ASSUME NEW m, NEW to \in Protocols, NEW e, NEW s, Encoding(m, to, e), Quiet(m, s)
    PROVE  Encoding(m, to, FoldLeft(LAMBDA x, ev : Encode(to, x, ev), e, s))
<1> DEFINE p == <<"encode", to, m>>
           D == DOMAIN s
           Value(k, T) == IF T = {} THEN e
                          ELSE Encode(to, k[T \ {Along!LastOf(T)}], s[Along!LastOf(T)])
           k == CHOOSE k : k = [T \in SUBSET D |-> Value(k, T)]
<1>1. D = 1..Len(s) /\ Len(s) \in Nat
  BY ListDomain DEF Quiet
<1>2. \A x, y : Step(p, x, y) = Encode(to, x, y) /\ Kept(p, x) = Encoding(m, to, x)
  BY DEF Step, Kept
<1>3. FoldLeft(LAMBDA x, ev : Encode(to, x, ev), e, s) = k[D]
  BY DEF FoldLeft, MapThenFoldSet, Max, Along!LastOf
<1> HIDE DEF p, D
<1>4. \A l : Along!Recurs(l, D, p, e, s) <=> l = [T \in SUBSET D |-> Value(l, T)]
  BY <1>2 DEF Along!Recurs
<1>5. \E l : Along!Recurs(l, D, p, e, s)
  BY <1>1, Along!RecursionExists DEF D
<1>6. Along!Recurs(k, D, p, e, s)
  <2> HIDE DEF Value
  <2> QED BY <1>4, <1>5
<1> HIDE DEF k
<1>7. \A x : \A i \in D : Kept(p, x) => Kept(p, Step(p, x, s[i]))
  BY <1>2, EncodingEvent DEF Quiet, D
<1>8. Kept(p, e)
  BY <1>2
<1>9. Kept(p, k[D])
  BY <1>1, <1>6, <1>7, <1>8, Along!FoldKeeps DEF D
<1> QED BY <1>2, <1>3, <1>9

\* The end of a stream that failed is an error, not a completion.
LEMMA EncodingEnd ==
    ASSUME NEW m, NEW to \in Protocols, NEW e, NEW usage, NEW ok, Encoding(m, to, e),
           m = "any" \/ ~ok
    PROVE  Encoding(m, to, EncodeEnd(to, e, usage, ok))
<1>1. ErrorEvent.type # "response_done"
  BY EventTypes
<1>2. CASE to = Chat
  <2>1. Encoding(m, Chat, PutIf(~e.finished, e, ErrorWritten))
    BY <1>2, WriteUnended, EncodingPutIf
  <2>2. Encoding(m, Chat, [PutIf(~e.finished, e, ErrorWritten) EXCEPT !.finished = TRUE])
    BY <2>1 DEF Encoding, Chat, Responses, Gemini
  <2>3. m = "any" => Encoding(m, Chat, Put(WithRole(e), Write("[DONE]", 0, Silent)))
    <3>1. Encoding(m, Chat, WithRole(e))
      BY <1>2, RoleKept
    <3>2. "[DONE]" \in Endings(Chat)
      BY DEF Endings, Chat, Responses, Anthropic, Gemini
    <3>3. m = "any" => Unended(m, Chat, Write("[DONE]", 0, Silent))
      BY <3>2, WriteEndings
    <3> QED BY <3>1, <3>3, EncodingPut
  <2>4. Encoding(m, Chat, ChatEnd(e, ok))
    BY <2>2, <2>3 DEF ChatEnd
  <2> QED BY <1>2, <2>4 DEF EncodeEnd, Chat, Responses, Anthropic, Gemini
<1>3. CASE to = Responses
  <2>1. Encoding(m, to, EncodeResponses(e, ErrorEvent))
    BY <1>1, <1>3, EncodingResponses
  <2>2. m = "any" => Encoding(m, to, RFinish(e, "stop", usage))
    BY <1>3, RFinishKept
  <2>3. EncodeEnd(to, e, usage, ok) = IF ok THEN RFinish(e, "stop", usage)
                                      ELSE EncodeResponses(e, ErrorEvent)
    BY <1>3 DEF EncodeEnd, Chat, Responses, Anthropic, Gemini
  <2> QED BY <2>1, <2>2, <2>3
<1>4. CASE to = Anthropic
  <2>1. Encoding(m, to, EncodeAnthropic(e, ErrorEvent))
    BY <1>1, <1>4, EncodingAnthropic
  <2>2. m = "any" => Encoding(m, to, AFinish(e, "stop", usage))
    BY <1>4, AFinishKept
  <2>3. EncodeEnd(to, e, usage, ok) = IF ok THEN AFinish(e, "stop", usage)
                                      ELSE EncodeAnthropic(e, ErrorEvent)
    BY <1>4 DEF EncodeEnd, Chat, Responses, Anthropic, Gemini
  <2> QED BY <2>1, <2>2, <2>3
<1>5. CASE to = Gemini
  <2>1. Encoding(m, to, EncodeGemini(e, ErrorEvent))
    BY <1>1, <1>5, EncodingGemini
  <2>2. EncodeEnd(to, e, usage, ok) = IF ok \/ e.finished THEN e ELSE EncodeGemini(e, ErrorEvent)
    BY <1>5 DEF EncodeEnd, Chat, Responses, Anthropic, Gemini
  <2> QED BY <2>1, <2>2
<1> QED BY <1>2, <1>3, <1>4, <1>5 DEF Protocols

-----------------------------------------------------------------------------
(* The clients                                                             *)

\* What a client does with an item does not tell it that the answer is complete.
LEMMA HearingItem ==
    ASSUME NEW m, NEW c, Hearing(m, c)
    PROVE  /\ \A cond, what : Hearing(m, Breach(c, cond, what))
           /\ \A w, taken : Hearing(m, Opened(c, w, taken))
           /\ \A w : Hearing(m, Grown(c, w))
           /\ \A at, item : Hearing(m, Closed(c, at, item))
           /\ \A item : Hearing(m, Collect(c, item))
<1>1. \A cond, what : Hearing(m, Breach(c, cond, what))
  BY DEF Hearing, Breach
<1>2. \A w, taken : Hearing(m, Opened(c, w, taken))
  BY <1>1 DEF Hearing, Opened
<1>3. ASSUME NEW w PROVE Hearing(m, Grown(c, w))
  <2>1. Hearing(m, [c EXCEPT !.open[w.at].sig = @ \o w.item.sig])
    BY DEF Hearing
  <2> DEFINE b == Breach(c, w.item.kind # c.open[w.at].kind, "a delta of another kind")
  <2>2. Hearing(m, [b EXCEPT !.open[w.at].text = @ \o w.item.text])
    <3>1. Hearing(m, b)
      BY <1>1
    <3> HIDE DEF b
    <3> QED BY <3>1 DEF Hearing
  <2>3. Grown(c, w) = IF w.at \notin DOMAIN c.open THEN Breach(c, TRUE, "a delta of nothing open")
                      ELSE IF w.item.kind = "signature"
                           THEN [c EXCEPT !.open[w.at].sig = @ \o w.item.sig]
                           ELSE [b EXCEPT !.open[w.at].text = @ \o w.item.text]
    BY DEF Grown
  <2> HIDE DEF b
  <2> QED BY <1>1, <2>1, <2>2, <2>3
<1>4. \A at, item : Hearing(m, Closed(c, at, item))
  BY <1>1 DEF Hearing, Closed
<1>5. \A item : Hearing(m, Collect(c, item))
  BY DEF Hearing, Collect
<1> QED BY <1>1, <1>2, <1>3, <1>4, <1>5

\* Items that come together: a fold.
LEMMA HearingItems ==
    ASSUME NEW m, NEW c, NEW s, Hearing(m, c), Lst(s)
    PROVE  Hearing(m, FoldLeft(Collect, c, s))
<1> DEFINE p == <<"collect", "", m>>
           D == DOMAIN s
           Value(k, T) == IF T = {} THEN c
                          ELSE Collect(k[T \ {Along!LastOf(T)}], s[Along!LastOf(T)])
           k == CHOOSE k : k = [T \in SUBSET D |-> Value(k, T)]
<1>1. D = 1..Len(s) /\ Len(s) \in Nat
  BY ListDomain
<1>2. \A x, y : Step(p, x, y) = Collect(x, y) /\ Kept(p, x) = Hearing(m, x)
  BY DEF Step, Kept
<1>3. FoldLeft(Collect, c, s) = k[D]
  BY DEF FoldLeft, MapThenFoldSet, Max, Along!LastOf
<1> HIDE DEF p, D
<1>4. \A l : Along!Recurs(l, D, p, c, s) <=> l = [T \in SUBSET D |-> Value(l, T)]
  BY <1>2 DEF Along!Recurs
<1>5. \E l : Along!Recurs(l, D, p, c, s)
  BY <1>1, Along!RecursionExists DEF D
<1>6. Along!Recurs(k, D, p, c, s)
  <2> HIDE DEF Value
  <2> QED BY <1>4, <1>5
<1> HIDE DEF k
<1>7. \A x : \A i \in D : Kept(p, x) => Kept(p, Step(p, x, s[i]))
  BY <1>2, HearingItem
<1>8. Kept(p, c)
  BY <1>2
<1>9. Kept(p, k[D])
  BY <1>1, <1>6, <1>7, <1>8, Along!FoldKeeps DEF D
<1> QED BY <1>2, <1>3, <1>9

\* Nor does anything that is written before the end.
LEMMA HearingResponses ==
    ASSUME NEW m, NEW c, NEW w, Hearing(m, c), Unended(m, Responses, w), w.type # "error"
    PROVE  Hearing(m, HearResponses(c, w))
<1>1. w.type \in {"created", "added", "delta", "done"} \/ (m = "any" /\ w.type = "final")
  BY DEF Unended, Tokens, Endings, Chat, Responses, Anthropic, Gemini
<1>2. Hearing(m, [c EXCEPT !.begun = TRUE])
  BY DEF Hearing
<1>3. CASE m = "any" /\ w.type = "final"
  <2> DEFINE b == Breach(c, DOMAIN c.open # {} \/ w.output # ItemsOf(c), "ended with items open")
             reason == IF w.status = "completed" THEN w.status ELSE w.reason
  <2>1. Hearing(m, b)
    BY HearingItem
  <2>2. HearResponses(c, w) = [b EXCEPT !.told = "complete", !.usage = w.usage, !.reason = reason]
    BY <1>3 DEF HearResponses
  <2> HIDE DEF b, reason
  <2> QED BY <1>3, <2>1, <2>2 DEF Hearing
<1> QED BY <1>1, <1>2, <1>3, HearingItem DEF HearResponses

\* A client of Anthropic.
LEMMA HearingAnthropic ==
    ASSUME NEW m, NEW c, NEW w, Hearing(m, c), Unended(m, Anthropic, w), w.type # "error"
    PROVE  Hearing(m, HearAnthropic(c, w))
<1>1. \/ w.type \in {"message_start", "block_start", "block_delta", "block_stop"}
      \/ m = "any" /\ w.type \in {"message_delta", "message_stop"}
  BY DEF Unended, Tokens, Endings, Chat, Responses, Anthropic, Gemini
<1>2. Hearing(m, [c EXCEPT !.begun = TRUE])
  BY DEF Hearing
<1>3. CASE m = "any" /\ w.type = "message_delta"
  <2> DEFINE b == Breach(c, DOMAIN c.open # {}, "ended with items open")
  <2>1. Hearing(m, b)
    BY HearingItem
  <2>2. HearAnthropic(c, w) = [b EXCEPT !.reason = w.reason, !.refusal = w.refusal, !.usage = w.usage]
    BY <1>3 DEF HearAnthropic
  <2> HIDE DEF b
  <2> QED BY <1>3, <2>1, <2>2 DEF Hearing
<1>4. CASE m = "any" /\ w.type = "message_stop"
  <2> DEFINE b == Breach(c, c.reason = "", "stopped without a reason")
  <2>1. Hearing(m, b)
    BY HearingItem
  <2>2. HearAnthropic(c, w) = [b EXCEPT !.told = "complete"]
    BY <1>4 DEF HearAnthropic
  <2> HIDE DEF b
  <2> QED BY <1>4, <2>1, <2>2 DEF Hearing
<1> QED BY <1>1, <1>2, <1>3, <1>4, HearingItem DEF HearAnthropic

\* A client of Gemini.
LEMMA HearingGemini ==
    ASSUME NEW m, NEW c, NEW w, Hearing(m, c), Unended(m, Gemini, w)
    PROVE  Hearing(m, HearGemini(c, w))
<1> DEFINE said == Opt(w.item # Silent, w.item) \o w.calls
           all == FoldLeft(Collect, c, said)
           b == Breach(all, c.reason # "" /\ said # <<>>, "more after the finish")
<1>1. Lst(said)
  <2>1. Lst(Opt(w.item # Silent, w.item)) /\ Lst(<<>>)
    <3>1. <<>> = Opt(FALSE, w)
      BY DEF Opt
    <3> QED BY <3>1, ListOpt
  <2>2. Lst(w.calls)
    BY <2>1 DEF Unended
  <2>3. said = Joined(Opt(w.item # Silent, w.item), w.calls)
    BY DEF Joined
  <2> HIDE DEF said
  <2> QED BY <2>1, <2>2, <2>3, ListJoin
<1>2. Hearing(m, all)
  <2> HIDE DEF said
  <2> QED BY <1>1, HearingItems
<1>3. Hearing(m, b)
  <2> HIDE DEF said, all
  <2> QED BY <1>2, HearingItem
<1>4. HearGemini(c, w) = [b EXCEPT !.begun = TRUE,
                                   !.usage = IF w.usage # ZeroUsage THEN w.usage ELSE @,
                                   !.reason = IF w.reason # "" THEN w.reason ELSE @,
                                   !.told = IF w.reason # "" THEN "complete" ELSE @]
  BY DEF HearGemini
<1>5. m = "any" \/ w.reason = ""
  BY DEF Unended
<1> HIDE DEF b
<1> QED BY <1>3, <1>4, <1>5 DEF Hearing

\* A client of Chat.
LEMMA HearingChat ==
    ASSUME NEW m, NEW c, NEW w, Hearing(m, c), Unended(m, Chat, w), w.type # "error"
    PROVE  Hearing(m, HearChat(c, w))
<1>1. w.type \in {"role", "usage", "call", "chunk"} \/ (m = "any" /\ w.type = "[DONE]")
  BY DEF Unended, Tokens, Endings, Chat, Responses, Anthropic, Gemini
<1>2. CASE w.type \in {"role", "usage"}
  <2>1. Hearing(m, Breach(c, c.begun, "the role twice"))
    BY HearingItem
  <2> QED BY <1>2, <2>1 DEF Hearing, HearChat
<1>3. CASE w.type = "call"
  BY <1>3, HearingItem DEF HearChat
<1>4. CASE w.type = "chunk"
  <2> DEFINE b == Breach(c, ~c.begun \/ c.reason # "", "outside the message")
             d == IF w.item = Silent THEN b ELSE Collect(b, w.item)
  <2>1. Hearing(m, b)
    BY HearingItem
  <2>2. Hearing(m, d)
    <3> HIDE DEF b
    <3> QED BY <2>1, HearingItem
  <2>3. HearChat(c, w) = [d EXCEPT !.reason = IF w.reason # "" THEN w.reason ELSE @]
    BY <1>4 DEF HearChat
  <2> HIDE DEF d
  <2> QED BY <2>2, <2>3 DEF Hearing
<1>5. CASE m = "any" /\ w.type = "[DONE]"
  <2> DEFINE b == Breach(c, c.reason = "" \/ ~c.begun, "done without a reason")
  <2>1. Hearing(m, b)
    BY HearingItem
  <2>2. HearChat(c, w) = [b EXCEPT !.told = "complete"]
    BY <1>5 DEF HearChat
  <2> HIDE DEF b
  <2> QED BY <1>5, <2>1, <2>2 DEF Hearing
<1> QED BY <1>1, <1>2, <1>3, <1>4, <1>5

\* Whatever the protocol, what does not end an answer does not complete it.
LEMMA HearingWrite ==
    ASSUME NEW m, NEW to \in Protocols, NEW c, NEW w, Hearing(m, c), Unended(m, to, w)
    PROVE  Hearing(m, Hear(to, c, w))
<1>1. Hearing(m, c) /\ Hearing(m, Breach(c, TRUE, "more after the end"))
      /\ Hearing(m, [c EXCEPT !.told = "error"])
  BY HearingItem DEF Hearing
<1>2. CASE c.told # ""
  BY <1>1, <1>2 DEF Hear, Breach
<1>3. CASE c.told = "" /\ w.type = "error"
  BY <1>1, <1>3 DEF Hear
<1>4. CASE c.told = "" /\ w.type # "error"
  BY <1>4, HearingResponses, HearingAnthropic, HearingGemini, HearingChat
     DEF Hear, Protocols, Chat, Responses, Anthropic, Gemini
<1> QED BY <1>2, <1>3, <1>4

\* Nor does a list of it: a fold.
LEMMA HearingWrites ==
    ASSUME NEW m, NEW to \in Protocols, NEW c, NEW s, Hearing(m, c), AllUnended(m, to, s)
    PROVE  Hearing(m, FoldLeft(LAMBDA x, w : Hear(to, x, w), c, s))
<1> DEFINE p == <<"hear", to, m>>
           D == DOMAIN s
           Value(k, T) == IF T = {} THEN c
                          ELSE Hear(to, k[T \ {Along!LastOf(T)}], s[Along!LastOf(T)])
           k == CHOOSE k : k = [T \in SUBSET D |-> Value(k, T)]
<1>1. D = 1..Len(s) /\ Len(s) \in Nat
  BY ListDomain DEF AllUnended
<1>2. \A x, y : Step(p, x, y) = Hear(to, x, y) /\ Kept(p, x) = Hearing(m, x)
  BY DEF Step, Kept
<1>3. FoldLeft(LAMBDA x, w : Hear(to, x, w), c, s) = k[D]
  BY DEF FoldLeft, MapThenFoldSet, Max, Along!LastOf
<1> HIDE DEF p, D
<1>4. \A l : Along!Recurs(l, D, p, c, s) <=> l = [T \in SUBSET D |-> Value(l, T)]
  BY <1>2 DEF Along!Recurs
<1>5. \E l : Along!Recurs(l, D, p, c, s)
  BY <1>1, Along!RecursionExists DEF D
<1>6. Along!Recurs(k, D, p, c, s)
  <2> HIDE DEF Value
  <2> QED BY <1>4, <1>5
<1> HIDE DEF k
<1>7. \A x : \A i \in D : Kept(p, x) => Kept(p, Step(p, x, s[i]))
  BY <1>2, HearingWrite DEF AllUnended, D
<1>8. Kept(p, c)
  BY <1>2
<1>9. Kept(p, k[D])
  BY <1>1, <1>6, <1>7, <1>8, Along!FoldKeeps DEF D
<1> QED BY <1>2, <1>3, <1>9

-----------------------------------------------------------------------------
(* What a provider sends before it begins to end its answer                *)

\* Chunks with nothing in them, but for a role or a kind.
LEMMA BlankChunks ==
    ASSUME NEW m
    PROVE  /\ Midway(m, Chat, [ChatBlank EXCEPT !.role = TRUE])
           /\ \A k : k # "[DONE]" =>
                 /\ Midway(m, Chat, [ChatBlank EXCEPT !.kind = k])
                 /\ Midway(m, Gemini, [GeminiBlank EXCEPT !.kind = k])
BY EmptyList DEF Midway, ChatBlank, GeminiBlank, Chat, Responses, Anthropic, Gemini

\* The chunks that open a stream.
LEMMA OpeningMidway ==
    ASSUME NEW m, NEW protocol \in Protocols, NEW terse, NEW a, NEW n \in Nat,
           n < Len(Opening(protocol, terse, a))
    PROVE  Midway(m, protocol, Opening(protocol, terse, a)[n + 1])
<1> DEFINE o == Opening(protocol, terse, a)
<1>1. CASE protocol = Chat
  <2> DEFINE c == [ChatBlank EXCEPT !.role = TRUE]
  <2>1. o = Opt(~terse, c)
    BY <1>1 DEF Opening, Chat, Responses, Anthropic, Gemini
  <2>2. Midway(m, Chat, c)
    BY BlankChunks
  <2> HIDE DEF o, c
  <2>3. o[n + 1] = c
    <3>1. n < Len(o)
      BY DEF o
    <3> QED BY <2>1, <3>1 DEF Opt
  <2> QED BY <1>1, <2>2, <2>3 DEF o
<1>2. CASE protocol = Gemini
  BY <1>2 DEF Opening, Chat, Responses, Anthropic, Gemini
<1>3. CASE protocol = Responses
  <2> DEFINE c == [ResponsesBlank EXCEPT !.kind = "created"]
  <2>1. o = <<c>>
    BY <1>3 DEF Opening, Chat, Responses, Anthropic, Gemini
  <2>2. c.kind = "created" /\ c.output = <<>>
    BY DEF ResponsesBlank
  <2> HIDE DEF o, c
  <2>3. o[n + 1] = c
    <3>1. n < Len(o)
      BY DEF o
    <3> QED BY <2>1, <3>1
  <2>4. Midway(m, Responses, c)
    BY <2>2, EmptyList DEF Midway, Chat, Responses, Anthropic, Gemini
  <2> QED BY <1>3, <2>3, <2>4 DEF o
<1>4. CASE protocol = Anthropic
  <2> DEFINE u == [in |-> a.usage.in - a.usage.cached, out |-> 0, cached |-> a.usage.cached]
             c == [AnthropicBlank EXCEPT !.kind = "message_start", !.usage = u]
  <2>1. Opening(protocol, terse, a) = <<c>>
    BY <1>4 DEF Opening, Chat, Responses, Anthropic, Gemini
  <2>2. c.kind = "message_start"
    <3> HIDE DEF u
    <3> QED BY DEF AnthropicBlank
  <2> HIDE DEF c
  <2>3. Opening(protocol, terse, a)[n + 1] = c
    BY <2>1
  <2> QED BY <1>4, <2>2, <2>3 DEF Midway, Chat, Responses, Anthropic, Gemini
<1> QED BY <1>1, <1>2, <1>3, <1>4 DEF Protocols

\* The chunks a part is sent in.
LEMMA PieceMidway ==
    ASSUME NEW m, NEW protocol \in Protocols, NEW terse, NEW a, NEW i, NEW k
    PROVE  Midway(m, protocol, Piece(protocol, terse, a, i, k))
<1> DEFINE p == a.parts[i]
           calls == Len(SelectSeq(SubSeq(a.parts, 1, i - 1), LAMBDA q : q.kind = "call"))
<1>1. CASE protocol = Chat
  <2> HIDE DEF p, calls
  <2>1. Midway(m, Chat, ChatPiece(terse, p, calls, k))
    <3> DEFINE call == [index |-> calls, id |-> None, name |-> None, args |-> None, sig |-> None]
               named == [call EXCEPT !.id = p.id, !.name = p.name, !.sig = p.sig]
               text == IF terse THEN PartText(p) ELSE p.frags[k]
               t == PartText(p)
               f == p.frags[k - 1]
    <3>1. \/ ChatPiece(terse, p, calls, k) = [ChatBlank EXCEPT !.text = text]
          \/ ChatPiece(terse, p, calls, k) = [ChatBlank EXCEPT !.reasoning = text]
          \/ ChatPiece(terse, p, calls, k) = [ChatBlank EXCEPT !.refusal = text]
          \/ ChatPiece(terse, p, calls, k) = [ChatBlank EXCEPT !.calls = <<[named EXCEPT !.args = t]>>]
          \/ ChatPiece(terse, p, calls, k) = [ChatBlank EXCEPT !.calls = <<named>>]
          \/ ChatPiece(terse, p, calls, k) = [ChatBlank EXCEPT !.calls = <<[call EXCEPT !.args = f]>>]
      BY DEF ChatPiece
    <3> HIDE DEF call, named, text, t, f
    <3>2. Lst(<<>>) /\ \A x : Lst(<<x>>)
      <4>1. <<>> \in Seq({}) /\ \A x : <<x>> \in Seq({x})
        OBVIOUS
      <4> QED BY <4>1, ListOf
    <3>3. \A x : Midway(m, Chat, [ChatBlank EXCEPT !.text = x])
      BY <3>2 DEF Midway, ChatBlank, Chat, Responses, Anthropic, Gemini
    <3>4. \A x : Midway(m, Chat, [ChatBlank EXCEPT !.reasoning = x])
      BY <3>2 DEF Midway, ChatBlank, Chat, Responses, Anthropic, Gemini
    <3>5. \A x : Midway(m, Chat, [ChatBlank EXCEPT !.refusal = x])
      BY <3>2 DEF Midway, ChatBlank, Chat, Responses, Anthropic, Gemini
    <3>6. \A x : Midway(m, Chat, [ChatBlank EXCEPT !.calls = <<x>>])
      BY <3>2 DEF Midway, ChatBlank, Chat, Responses, Anthropic, Gemini
    <3> QED BY <3>1, <3>3, <3>4, <3>5, <3>6
  <2> QED BY <1>1, <2>1 DEF Piece, p, calls, Chat, Responses, Anthropic, Gemini
<1>2. CASE protocol = Gemini
  <2> DEFINE usage == a.usage
  <2> HIDE DEF p
  <2>1. Midway(m, Gemini, GeminiPiece(p, k, usage))
    <3> HIDE DEF usage
    <3> DEFINE last == p.kind = "call" \/ k = Len(p.frags)
               part == GeminiPart(p, IF last /\ p.kind = "call" THEN None ELSE p.frags[k])
               x == [part EXCEPT !.sig = IF last THEN p.sig ELSE None]
               u == [usage EXCEPT !.out = 1]
               c == [GeminiBlank EXCEPT !.parts = <<x>>, !.usage = u]
    <3>1. GeminiPiece(p, k, usage) = c
      BY DEF GeminiPiece
    <3>2. \A y, z : [GeminiBlank EXCEPT !.parts = y, !.usage = z].parts = y
                    /\ [GeminiBlank EXCEPT !.parts = y, !.usage = z].kind = "chunk"
                    /\ [GeminiBlank EXCEPT !.parts = y, !.usage = z].finish = ""
                    /\ [GeminiBlank EXCEPT !.parts = y, !.usage = z].candidate
      BY DEF GeminiBlank
    <3> HIDE DEF x, u
    <3>3. c.parts = <<x>> /\ c.kind = "chunk" /\ c.finish = "" /\ c.candidate
      BY <3>2
    <3>4. Lst(<<x>>)
      <4>1. <<x>> \in Seq({x})
        OBVIOUS
      <4> QED BY <4>1, ListOf
    <3> HIDE DEF c
    <3> QED BY <3>1, <3>3, <3>4 DEF Midway, Chat, Responses, Anthropic, Gemini
  <2> QED BY <1>2, <2>1 DEF Piece, p, Chat, Responses, Anthropic, Gemini
<1>3. CASE protocol = Responses
  <2> HIDE DEF p
  <2>1. Midway(m, Responses, ResponsesPiece(p, i, k))
    <3> DEFINE n == Len(p.frags)
               item == ResponsesItem(p, i)
               c == [ResponsesBlank EXCEPT !.at = i - 1]
               delta == CASE p.kind = "call" -> "arguments.delta" [] p.kind = "text" -> "text.delta"
                          [] p.kind = "reasoning" -> "reasoning.delta" [] OTHER -> "refusal.delta"
               f == p.frags[k - 1]
               bare == [item EXCEPT !.text = None, !.args = None, !.sig = None]
               with == [NoItem EXCEPT !.item = item.item]
               t == PartText(p)
               done == [NoItem EXCEPT !.item = item.item, !.name = p.name]
    <3>1. \/ ResponsesPiece(p, i, k) = [c EXCEPT !.kind = "item.added", !.item = bare]
          \/ ResponsesPiece(p, i, k) = [c EXCEPT !.kind = delta, !.delta = f, !.item = with]
          \/ ResponsesPiece(p, i, k) = [c EXCEPT !.kind = "arguments.done", !.args = t, !.item = done]
          \/ ResponsesPiece(p, i, k) = [c EXCEPT !.kind = "item.done", !.item = item]
      BY DEF ResponsesPiece
    <3>2. delta \in {"arguments.delta", "text.delta", "reasoning.delta", "refusal.delta"}
      OBVIOUS
    <3>3. {"kind", "output"} \subseteq DOMAIN c /\ c.output = <<>>
      BY DEF ResponsesBlank
    <3> HIDE DEF n, item, c, delta, f, bare, with, t, done
    <3>4. /\ ResponsesPiece(p, i, k).kind \in {"item.added", delta, "arguments.done", "item.done"}
          /\ ResponsesPiece(p, i, k).output = <<>>
      BY <3>1, <3>3
    <3> QED BY <3>2, <3>4, EmptyList DEF Midway, Chat, Responses, Anthropic, Gemini
  <2> QED BY <1>3, <2>1 DEF Piece, p, Chat, Responses, Anthropic, Gemini
<1>4. CASE protocol = Anthropic
  <2> HIDE DEF p
  <2>1. Midway(m, Anthropic, AnthropicPiece(p, i, k))
    <3> DEFINE c == [AnthropicBlank EXCEPT !.at = i - 1]
               block == CASE p.kind = "call" -> "tool_use" [] p.kind = "text" -> "text"
                          [] OTHER -> "thinking"
               delta == CASE p.kind = "call" -> "input_json" [] OTHER -> block
               f == p.frags[k - 1]
               begun == [NoBlock EXCEPT !.kind = block, !.id = p.id, !.name = p.name]
               grown == [NoBlock EXCEPT !.kind = delta, !.text = f]
               signed == [NoBlock EXCEPT !.kind = "signature", !.text = p.sig]
    <3>1. \/ AnthropicPiece(p, i, k) = [c EXCEPT !.kind = "block_start", !.block = begun]
          \/ AnthropicPiece(p, i, k) = [c EXCEPT !.kind = "block_delta", !.delta = grown]
          \/ AnthropicPiece(p, i, k) = [c EXCEPT !.kind = "block_delta", !.delta = signed]
          \/ AnthropicPiece(p, i, k) = [c EXCEPT !.kind = "block_stop"]
      BY DEF AnthropicPiece
    <3>2. delta \in {"input_json", "text", "thinking"}
      OBVIOUS
    <3>3. {"kind", "delta"} \subseteq DOMAIN c
      BY DEF AnthropicBlank
    <3> HIDE DEF block, delta, f
    <3>4. grown.kind = delta /\ signed.kind = "signature"
      BY DEF NoBlock
    <3> HIDE DEF c, begun, grown, signed
    <3>5. \/ AnthropicPiece(p, i, k).kind \in {"block_start", "block_stop"}
          \/ /\ AnthropicPiece(p, i, k).kind = "block_delta"
             /\ AnthropicPiece(p, i, k).delta.kind \in {delta, "signature"}
      BY <3>1, <3>3, <3>4
    <3> QED BY <3>2, <3>5 DEF Midway, Chat, Responses, Anthropic, Gemini
  <2> QED BY <1>4, <2>1 DEF Piece, p, Chat, Responses, Anthropic, Gemini
<1> QED BY <1>1, <1>2, <1>3, <1>4 DEF Protocols

\* What comes instead of a chunk.
LEMMA BadMidway ==
    ASSUME NEW m, NEW protocol \in Protocols, NEW c \in BadChunks(protocol)
    PROVE  Midway(m, protocol, c)
<1>1. PICK k : /\ k \in {"error", "garbage"} \union (IF protocol = Responses THEN {"failed"} ELSE {})
               /\ c = [BlankOf(protocol) EXCEPT !.kind = k]
  BY DEF BadChunks
<1>2. CASE protocol = Chat \/ protocol = Gemini
  BY <1>1, <1>2, BlankChunks DEF BlankOf, Chat, Responses, Anthropic, Gemini
<1>3. CASE protocol = Responses
  <2>1. c.kind = k /\ c.output = <<>>
    BY <1>1, <1>3 DEF BlankOf, ResponsesBlank, Chat, Responses, Anthropic, Gemini
  <2> QED BY <1>1, <1>3, <2>1, EmptyList DEF Midway, Chat, Responses, Anthropic, Gemini
<1>4. CASE protocol = Anthropic
  <2>1. c.kind = k
    BY <1>1, <1>4 DEF BlankOf, AnthropicBlank, Chat, Responses, Anthropic, Gemini
  <2> QED BY <1>1, <1>4, <2>1 DEF Midway, Chat, Responses, Anthropic, Gemini
<1> QED BY <1>2, <1>3, <1>4 DEF Protocols

\* How far a stream has come; its ending is sent last.
Progress(s) ==
    /\ {"opening", "at", "ending"} \subseteq DOMAIN s
    /\ s.opening \in Nat /\ s.ending \in Nat

\* A list of one element.
LEMMA ListSingle == ASSUME NEW x PROVE Lst(<<x>>) /\ \A i \in DOMAIN <<x>> : <<x>>[i] = x
<1>1. <<x>> \in Seq({x})
  OBVIOUS
<1>2. Lst(<<x>>)
  BY <1>1, ListOf
<1> QED BY <1>2

\* A list of two.
LEMMA ListPair ==
    ASSUME NEW x, NEW y
    PROVE  Lst(<<x, y>>) /\ \A i \in DOMAIN <<x, y>> : <<x, y>>[i] \in {x, y}
<1>1. <<x, y>> \in Seq({x, y})
  OBVIOUS
<1>2. Lst(<<x, y>>)
  BY <1>1, ListOf
<1> QED BY <1>2

\* An index within the length of a list.
LEMMA Within == ASSUME NEW s, Lst(s), NEW n \in Nat, n < Len(s) PROVE n + 1 \in DOMAIN s
BY ListDomain

\* The chunks that end a stream.
LEMMA EndingMidway ==
    ASSUME NEW protocol \in Protocols, NEW terse, NEW a, Lst(a.parts), NEW n \in Nat,
           n < Len(Ending(protocol, terse, a))
    PROVE  Midway("any", protocol, Ending(protocol, terse, a)[n + 1])
<1> DEFINE ending == Ending(protocol, terse, a)
           word == Word(protocol, a.reason)
           refusal == TextOf(a, "refusal")
<1>1. CASE protocol = Chat
  <2> DEFINE x == [ChatBlank EXCEPT !.finish = word, !.usage = a.usage]
             y == [ChatBlank EXCEPT !.finish = word]
             z == [ChatBlank EXCEPT !.usage = a.usage]
             d == [ChatBlank EXCEPT !.kind = "[DONE]"]
             s == IF terse THEN <<x>> ELSE <<y, z>>
  <2>1. ending = Joined(s, <<d>>)
    BY <1>1 DEF Ending, Joined, Chat, Responses, Anthropic, Gemini
  <2> HIDE DEF word
  <2>2. x.calls = <<>> /\ y.calls = <<>> /\ z.calls = <<>> /\ d.calls = <<>>
    BY DEF ChatBlank
  <2> HIDE DEF x, y, z, d
  <2>3. Lst(s) /\ \A i \in DOMAIN s : s[i] \in {x, y, z}
    <3>1. CASE terse
      <4>1. s = <<x>>
        BY <3>1
      <4> HIDE DEF s
      <4>2. Lst(<<x>>) /\ \A i \in DOMAIN <<x>> : <<x>>[i] = x
        BY ListSingle
      <4> QED BY <4>1, <4>2
    <3>2. CASE ~terse
      <4>1. s = <<y, z>>
        BY <3>2
      <4> HIDE DEF s
      <4>2. Lst(<<y, z>>) /\ \A i \in DOMAIN <<y, z>> : <<y, z>>[i] \in {y, z}
        BY ListPair
      <4> QED BY <4>1, <4>2
    <3> QED BY <3>1, <3>2
  <2> DEFINE t == <<d>>
  <2>6. Lst(t) /\ \A i \in DOMAIN t : t[i] = d
    BY ListSingle
  <2> HIDE DEF s, t, ending
  <2>7. ending = Joined(s, t)
    BY <2>1 DEF t
  <2>4. Lst(ending) /\ \A i \in DOMAIN ending : ending[i].calls = <<>>
    <3>1. Lst(Joined(s, t)) /\ \A i \in DOMAIN Joined(s, t) : Joined(s, t)[i].calls = <<>>
      BY <2>2, <2>3, <2>6, ListJoin
    <3> QED BY <2>7, <3>1
  <2>5. ending[n + 1].calls = <<>>
    BY <2>4, Within DEF ending
  <2> QED BY <1>1, <2>5, EmptyList DEF Midway, ending, Chat, Responses, Anthropic, Gemini
<1>2. CASE protocol = Gemini
  <2> DEFINE Flat(p) == [GeminiPart(p, IF p.kind = "call" THEN None ELSE PartText(p))
                           EXCEPT !.sig = p.sig]
             parts == IF ~terse THEN <<>> ELSE [i \in DOMAIN a.parts |-> Flat(a.parts[i])]
             usage == a.usage
             x == [GeminiBlank EXCEPT !.candidate = FALSE, !.blocked = refusal, !.usage = usage]
             y == [GeminiBlank EXCEPT !.parts = parts, !.finish = word, !.usage = usage]
  <2>1. ending = <<x>> \/ ending = <<y>>
    BY <1>2 DEF Ending, Chat, Responses, Anthropic, Gemini
  <2>2. Lst(parts)
    <3> HIDE DEF Flat
    <3> QED BY EmptyList, ListFunction
  <2> HIDE DEF parts, word, refusal, usage
  <2>3. Lst(x.parts) /\ Lst(y.parts)
    <3>1. x.parts = <<>> /\ y.parts = parts
      BY DEF GeminiBlank
    <3> QED BY <2>2, <3>1, EmptyList
  <2> HIDE DEF x, y, ending
  <2>4. ending[n + 1] \in {x, y}
    BY <2>1, ListSingle, ListPair, Within DEF ending
  <2> QED BY <1>2, <2>3, <2>4 DEF Midway, ending, Chat, Responses, Anthropic, Gemini
<1>3. CASE protocol = Responses
  <2> DEFINE output == [i \in DOMAIN a.parts |-> ResponsesItem(a.parts[i], i)]
             status == IF word = "completed" THEN word ELSE "incomplete"
             usage == a.usage
             x == [ResponsesBlank EXCEPT !.kind = "final", !.status = status, !.why = word,
                                         !.usage = usage, !.output = output]
  <2>1. ending = <<x>>
    BY <1>3 DEF Ending, Chat, Responses, Anthropic, Gemini
  <2>2. Lst(output)
    BY ListFunction
  <2> HIDE DEF output, word, status, usage
  <2>3. x.kind = "final" /\ x.output = output
    BY DEF ResponsesBlank
  <2> HIDE DEF x, ending
  <2>4. ending[n + 1] = x
    BY <2>1, ListSingle, ListPair, Within DEF ending
  <2> QED BY <1>3, <2>2, <2>3, <2>4 DEF Midway, ending, Chat, Responses, Anthropic, Gemini
<1>4. CASE protocol = Anthropic
  <2> DEFINE usage == [ZeroUsage EXCEPT !.out = a.usage.out]
             x == [AnthropicBlank EXCEPT !.kind = "message_delta", !.reason = word,
                                         !.explanation = refusal, !.usage = usage]
             y == [AnthropicBlank EXCEPT !.kind = "message_stop"]
  <2>1. ending = <<x, y>>
    BY <1>4 DEF Ending, Chat, Responses, Anthropic, Gemini
  <2> HIDE DEF word, refusal, usage
  <2>2. x.kind = "message_delta" /\ y.kind = "message_stop"
    BY DEF AnthropicBlank
  <2> HIDE DEF x, y, ending
  <2>3. ending[n + 1] \in {x, y}
    BY <2>1, ListSingle, ListPair, Within DEF ending
  <2> QED BY <1>4, <2>2, <2>3 DEF Midway, ending, Chat, Responses, Anthropic, Gemini
<1> QED BY <1>1, <1>2, <1>3, <1>4 DEF Protocols

\* The next chunk is from before the end as long as the ending is not begun.
LEMMA NextMidway ==
    ASSUME NEW m, NEW protocol \in Protocols, NEW terse, NEW a, Lst(a.parts), NEW said,
           Progress(said), NEW s \in NextChunks(protocol, terse, a, said)
    PROVE  /\ Progress(s[2])
           /\ s[2].ending = 0 => said.ending = 0 /\ Midway(m, protocol, s[1])
           /\ m = "any" => Midway(m, protocol, s[1])
<1> DEFINE opening == Opening(protocol, terse, a)
           ready == Ready(protocol, terse, a, said.at)
           ending == Ending(protocol, terse, a)
           opened == [said EXCEPT !.opening = @ + 1]
           ended == [said EXCEPT !.ending = @ + 1]
           Came(i) == [said EXCEPT !.at[i] = @ + 1]
<1>1. \/ said.opening < Len(opening) /\ s = <<opening[said.opening + 1], opened>>
      \/ \E i \in ready : s = <<Piece(protocol, terse, a, i, said.at[i] + 1), Came(i)>>
      \/ said.ending < Len(ending) /\ s = <<ending[said.ending + 1], ended>>
  <2> HIDE DEF opening, ready, ending, opened, ended, Came
  <2>1. NextChunks(protocol, terse, a, said) =
          IF said.opening < Len(opening) THEN {<<opening[said.opening + 1], opened>>}
          ELSE IF ready # {}
          THEN {<<Piece(protocol, terse, a, i, said.at[i] + 1), Came(i)>> : i \in ready}
          ELSE IF said.ending < Len(ending) THEN {<<ending[said.ending + 1], ended>>}
          ELSE {}
    BY DEF NextChunks, opening, ready, ending, opened, ended, Came
  <2> QED BY <2>1
<1>2. Progress(opened) /\ opened.ending = said.ending
  BY DEF Progress
<1>3. Progress(ended) /\ ended.ending > 0
  BY DEF Progress
<1>4. \A i : Progress(Came(i)) /\ Came(i).ending = said.ending
  BY DEF Progress
<1>5. said.opening < Len(opening) => Midway(m, protocol, opening[said.opening + 1])
  BY OpeningMidway DEF Progress
<1>6. \A i, k : Midway(m, protocol, Piece(protocol, terse, a, i, k))
  BY PieceMidway
<1>7. said.ending < Len(ending) /\ m = "any" => Midway(m, protocol, ending[said.ending + 1])
  BY EndingMidway DEF Progress
<1> HIDE DEF opening, ready, ending, opened, ended, Came
<1> QED BY <1>1, <1>2, <1>3, <1>4, <1>5, <1>6, <1>7

-----------------------------------------------------------------------------
(* Passing on                                                              *)

\* No status is recorded at first.
LEMMA NoneRecorded == NoRecord.status # 200 /\ NoRecord.status # 502
BY DEF NoRecord

\* What is passed on keeps what holds of the encoder and the client, whether
\* the reader goes on or returns, with what is recorded then.
LEMMA PassingOn ==
    ASSUME NEW m \in {"before", "any"}, ask.client \in Protocols,
           Encoding(m, ask.client, encoder), Hearing(m, client), NEW q, Reading(m, q) \/ Returned(m, q), PassOn(q)
    PROVE  /\ ask' = ask /\ answer' = answer
           /\ Hearing(m, client') /\ Encoding(m, ask.client, encoder')
           /\ memory' \in Remembered(q.out)
           /\ \/ record' = record /\ Reading(m, reader')
              \/ /\ Returned(m, reader')
                 /\ record'.status \in {502} \union (IF m = "before" THEN {} ELSE {200})
<1> DEFINE Passed(x, f, heard) ==
              /\ reader' = [x EXCEPT !.out = <<>>]
              /\ encoder' = [f EXCEPT !.out = <<>>]
              /\ client' = heard
              /\ shown' = ShownBy(heard)
              /\ record' = IF x.result = "" THEN record
                           ELSE [status |-> IF x.result = "ok" THEN 200 ELSE 502, usage |-> x.usage]
              /\ memory' \in Remembered(x.out)
              /\ UNCHANGED <<ask, answer>>
<1>2. PICK r \in {q} :
    \E e \in {FoldLeft(LAMBDA x, ev : Encode(ask.client, x, ev), encoder, r.out)} :
    \E f \in {IF r.result = "" THEN e ELSE EncodeEnd(ask.client, e, r.usage, r.result = "ok")} :
    \E heard \in {FoldLeft(LAMBDA c, w : Hear(ask.client, c, w), client, f.out)} :
        Passed(r, f, heard)
  BY DEF PassOn
<1>3. /\ Quiet(m, r.out) /\ (r.result = "" => Reading(m, r))
      /\ r.result # "" => /\ Returned(m, r)
                          /\ r.result \in {"error"} \union (IF m = "before" THEN {} ELSE {"ok"})
  BY <1>2 DEF Reading, Returned
<1>4. PICK e :
    /\ e = FoldLeft(LAMBDA x, ev : Encode(ask.client, x, ev), encoder, r.out)
    /\ \E f \in {IF r.result = "" THEN e ELSE EncodeEnd(ask.client, e, r.usage, r.result = "ok")} :
       \E heard \in {FoldLeft(LAMBDA c, w : Hear(ask.client, c, w), client, f.out)} :
           Passed(r, f, heard)
  <2>1. PICK e \in {FoldLeft(LAMBDA x, ev : Encode(ask.client, x, ev), encoder, r.out)} :
       \E f \in {IF r.result = "" THEN e ELSE EncodeEnd(ask.client, e, r.usage, r.result = "ok")} :
       \E heard \in {FoldLeft(LAMBDA c, w : Hear(ask.client, c, w), client, f.out)} :
           Passed(r, f, heard)
    BY <1>2
  <2>2. e = FoldLeft(LAMBDA x, ev : Encode(ask.client, x, ev), encoder, r.out)
    BY <2>1
  <2> WITNESS e
  <2> QED BY <2>1, <2>2
<1>5. Encoding(m, ask.client, e)
  <2>1. Encoding(m, ask.client, FoldLeft(LAMBDA x, ev : Encode(ask.client, x, ev), encoder, r.out))
    BY <1>3, EncodingEvents
  <2> QED BY <1>4, <2>1
<1>6. PICK f :
    /\ f = IF r.result = "" THEN e ELSE EncodeEnd(ask.client, e, r.usage, r.result = "ok")
    /\ \E heard \in {FoldLeft(LAMBDA c, w : Hear(ask.client, c, w), client, f.out)} :
           Passed(r, f, heard)
  BY <1>4
<1>7. Encoding(m, ask.client, f)
  <2>1. CASE r.result = ""
    BY <1>5, <1>6, <2>1
  <2>2. CASE r.result # ""
    <3> DEFINE ok == r.result = "ok"
    <3>1. m = "any" \/ ~ok
      BY <1>3, <2>2
    <3>2. f = EncodeEnd(ask.client, e, r.usage, ok)
      BY <1>6, <2>2
    <3> HIDE DEF ok
    <3> QED BY <1>5, <3>1, <3>2, EncodingEnd
  <2> QED BY <2>1, <2>2
<1>8. /\ reader' = [r EXCEPT !.out = <<>>]
      /\ encoder' = [f EXCEPT !.out = <<>>]
      /\ client' = FoldLeft(LAMBDA c, w : Hear(ask.client, c, w), client, f.out)
      /\ record' = IF r.result = "" THEN record
                   ELSE [status |-> IF r.result = "ok" THEN 200 ELSE 502, usage |-> r.usage]
      /\ memory' \in Remembered(q.out)
      /\ ask' = ask /\ answer' = answer
  BY <1>6
<1>9. Hearing(m, client')
  <2>1. AllUnended(m, ask.client, f.out)
    BY <1>7 DEF Encoding
  <2>2. Hearing(m, FoldLeft(LAMBDA c, w : Hear(ask.client, c, w), client, f.out))
    BY <2>1, HearingWrites
  <2> QED BY <1>8, <2>2
<1>10. Encoding(m, ask.client, encoder')
  <2>1. encoder' = [f EXCEPT !.out = <<>>]
    BY <1>8
  <2> QED BY <1>7, <2>1, EmptyList DEF Encoding, AllUnended
<1>11. CASE r.result = ""
  <2>1. record' = record
    BY <1>8, <1>11
  <2>2. Reading(m, reader')
    BY <1>3, <1>8, <1>11, EmptyList DEF Reading, Quiet
  <2> QED BY <1>8, <1>9, <1>10, <2>1, <2>2
<1>12. CASE r.result # ""
  <2>1. record'.status \in {502} \union (IF m = "before" THEN {} ELSE {200})
    <3> DEFINE u == r.usage
               won == [status |-> IF r.result = "ok" THEN 200 ELSE 502, usage |-> u]
    <3>1. record' = won
      BY <1>8, <1>12
    <3>2. won.status = IF r.result = "ok" THEN 200 ELSE 502
      OBVIOUS
    <3> HIDE DEF won
    <3>3. r.result = "error" \/ (r.result = "ok" /\ m # "before")
      BY <1>3, <1>12
    <3> QED BY <3>1, <3>2, <3>3
  <2>2. Returned(m, reader')
    BY <1>3, <1>8, <1>12, EmptyList DEF Returned, Quiet
  <2> QED BY <1>8, <1>9, <1>10, <2>1, <2>2
<1> QED BY <1>11, <1>12

\* What is read of a chunk is passed on, and the loop left if it is over.
LEMMA Delivered ==
    ASSUME NEW m \in {"before", "any"}, ask.upstream \in Protocols, Reading(m, reader), NEW chunk,
           Midway(m, ask.upstream, chunk), Deliver(chunk)
    PROVE  \E q : (Reading(m, q) \/ Returned(m, q)) /\ PassOn(q)
<1> DEFINE r == Read(ask.upstream, reader, chunk)
           q == IF r.over = "" THEN r ELSE Leave(ask.upstream, r, FALSE)
<1>1. Reading(m, r)
  BY ReadingRead
<1>2. Reading(m, q) \/ Returned(m, q)
  <2> HIDE DEF r
  <2> QED BY <1>1, LeftReading
<1>3. PassOn(q)
  BY DEF Deliver
<1> HIDE DEF q
<1> QED BY <1>2, <1>3

\* The exchange stays what it is.
LEMMA KeepsAsk ==
    /\ \A q : PassOn(q) => ask' = ask /\ answer' = answer
    /\ \A chunk : Deliver(chunk) => ask' = ask /\ answer' = answer
<1>1. \A q : PassOn(q) => ask' = ask /\ answer' = answer
  BY DEF PassOn
<1>2. ASSUME NEW chunk, Deliver(chunk) PROVE ask' = ask /\ answer' = answer
  <2> DEFINE r == Read(ask.upstream, reader, chunk)
             q == IF r.over = "" THEN r ELSE Leave(ask.upstream, r, FALSE)
  <2>1. PassOn(q)
    BY <1>2 DEF Deliver
  <2> HIDE DEF q
  <2> QED BY <1>1, <2>1
<1> QED BY <1>1, <1>2

\* The actors at first.
LEMMA ActorsInit ==
    ASSUME NEW m, Init
    PROVE  Reading(m, reader) /\ Encoding(m, ask.client, encoder) /\ Hearing(m, client)
<1>1. PICK a \in Asks, w \in Answers :
         /\ ask = a
         /\ reader = [NewReader(Request) EXCEPT
                        !.out = IF a.upstream = Gemini THEN <<ResponseStart, MessageStart>>
                                ELSE <<>>]
         /\ encoder = NewEncoderOf(a.client, a.usage)
  BY DEF Init
<1>2. ask.client \in Protocols /\ ask.upstream \in Protocols
  BY <1>1 DEF Asks
<1>4. Lst(<<>>) /\ DOMAIN <<>> = {}
  BY EmptyList
<1>5. Reading(m, reader)
  <2>1. Quiet(m, <<ResponseStart, MessageStart>>)
    <3>1. \A x, y : <<x, y>> \in Seq({x, y}) /\ DOMAIN <<x, y>> = {1, 2}
                    /\ <<x, y>>[1] = x /\ <<x, y>>[2] = y
      OBVIOUS
    <3>2. \A x, y : Lst(<<x, y>>)
      BY <3>1, ListOf
    <3> QED BY <3>1, <3>2, EventTypes DEF Quiet
  <2>2. Quiet(m, reader.out)
    BY <1>1, <2>1, QuietNone DEF NewReader, None
  <2> QED BY <1>1, <1>4, <2>2 DEF Reading, NewReader
<1>6. Encoding(m, ask.client, encoder)
  <2> DEFINE u == a.usage
             e == [NewEncoder EXCEPT !.includeUsage = u]
  <2>1. \A to : Encoding(m, to, e)
    <3>1. /\ {"out", "calls", "output"} \subseteq DOMAIN e
          /\ e.out = <<>> /\ e.calls = <<>>
      BY DEF NewEncoder
    <3> HIDE DEF e
    <3>2. IsFiniteSet(DOMAIN e.calls)
      BY <1>4, <3>1, FS_EmptySet
    <3> QED BY <1>4, <3>1, <3>2 DEF Encoding, AllUnended
  <2> HIDE DEF e
  <2>2. Encoding(m, Responses, Put(e, Write("created", 0, Silent)))
    BY <2>1, RWrites, EncodingPut
  <2>3. Encoding(m, Anthropic, Put(e, Write("message_start", 0, Silent)))
    BY <2>1, AWrites, EncodingPut
  <2>4. encoder = CASE a.client = Responses -> Put(e, Write("created", 0, Silent))
                    [] a.client = Anthropic -> Put(e, Write("message_start", 0, Silent))
                    [] OTHER -> e
    BY <1>1 DEF NewEncoderOf, e
  <2> QED BY <1>1, <1>2, <2>1, <2>2, <2>3, <2>4 DEF Protocols, Chat, Responses, Anthropic, Gemini
<1>7. Hearing(m, client)
  BY DEF Init, NewClient, Hearing
<1> QED BY <1>5, <1>6, <1>7

-----------------------------------------------------------------------------
(* A stream that its provider has not begun to end                         *)

\* While the ending of a stream has not been sent, its reader has read no end,
\* its encoder has written none, its client has been told of none, and the
\* request is not recorded as a success.
Unfinished == ask.stream /\ ~Finished =>
    /\ Hearing("before", client) /\ record.status # 200
    /\ Open => Reading("before", reader) /\ Encoding("before", ask.client, encoder)

SuccessInv ==
    /\ ask.client \in Protocols /\ ask.upstream \in Protocols
    /\ Lst(answer.parts) /\ Progress(sent)
    /\ Unfinished

\* What an answer says in the words of a protocol is a list of parts as well.
LEMMA SpokenList ==
    ASSUME NEW protocol, NEW w, "parts" \in DOMAIN w, Lst(w.parts)
    PROVE  Lst(Spoken(protocol, w).parts)
<1> DEFINE Worded(p) ==
             [p EXCEPT !.sig = IF (p.kind = "reasoning" /\ protocol # Chat)
                                  \/ (p.kind = "call" /\ protocol = Gemini) THEN @ ELSE None,
                       !.id = IF protocol = Gemini THEN @ ELSE FirstNonEmpty(@, <<"id", p.name>>)]
           refused == PartsOf(w, "refusal") # <<>>
           parts == IF refused /\ protocol = Gemini THEN PartsOf(w, "refusal") ELSE w.parts
           said == [n \in DOMAIN parts |-> Worded(parts[n])]
           reason == IF ~refused THEN w.reason
                     ELSE IF protocol \in {Anthropic, Gemini} THEN "content_filter" ELSE "stop"
<1>1. Spoken(protocol, w) = [w EXCEPT !.parts = said, !.reason = reason]
  BY DEF Spoken
<1>2. Lst(PartsOf(w, "refusal"))
  <2> DEFINE kept == [n \in DOMAIN w.parts |-> Opt(w.parts[n].kind = "refusal", w.parts[n])]
  <2>1. PartsOf(w, "refusal") = Concat(kept)
    BY DEF PartsOf
  <2>2. Lst(kept)
    BY ListFunction
  <2>3. \A n \in DOMAIN kept : Quiet("any", kept[n])
    BY QuietOpt
  <2> HIDE DEF kept
  <2> QED BY <2>1, <2>2, <2>3, QuietConcat DEF Quiet
<1>3. Lst(parts)
  BY <1>2
<1>4. Lst(said)
  <2> HIDE DEF parts, Worded
  <2> QED BY <1>3, ListFunction
<1> HIDE DEF said, reason
<1> QED BY <1>1, <1>4

\* It holds at first.
LEMMA UnfinishedInit == Init => SuccessInv
<1> SUFFICES ASSUME Init PROVE SuccessInv
  OBVIOUS
<1>1. PICK a \in Asks, w \in Answers : ask = a /\ answer = Spoken(a.upstream, w)
  BY DEF Init
<1>2. ask.client \in Protocols /\ ask.upstream \in Protocols
  BY <1>1 DEF Asks
<1>3. Lst(answer.parts)
  <2>1. "parts" \in DOMAIN w /\ Lst(w.parts)
    BY AnswersAssumption DEF Lst
  <2>2. Lst(Spoken(a.upstream, w).parts)
    BY <2>1, SpokenList
  <2> QED BY <1>1, <2>2
<1>4. Progress(sent)
  BY DEF Init, Untold, Progress
<1>5. record.status # 200
  BY NoneRecorded DEF Init
<1> QED BY <1>2, <1>3, <1>4, <1>5, ActorsInit DEF SuccessInv, Unfinished

\* What is passed on before the ending keeps it so.
LEMMA StillUnfinished ==
    ASSUME SuccessInv, Open, ask.stream, ~Finished, NEW q,
           Reading("before", q) \/ Returned("before", q), PassOn(q)
    PROVE  /\ Hearing("before", client') /\ record'.status # 200
           /\ Open' => Reading("before", reader') /\ Encoding("before", ask.client, encoder')
<1>1. /\ Encoding("before", ask.client, encoder) /\ Hearing("before", client)
      /\ ask.client \in Protocols /\ record.status # 200
  BY DEF SuccessInv, Unfinished
<1>2. /\ Hearing("before", client') /\ Encoding("before", ask.client, encoder')
      /\ (record' = record /\ Reading("before", reader')) \/ record'.status = 502
  BY <1>1, PassingOn
<1>3. CASE record' = record /\ Reading("before", reader')
  BY <1>1, <1>2, <1>3
<1>4. CASE record'.status = 502
  <2>1. ~Open'
    <3>1. SUFFICES ASSUME record' = NoRecord PROVE FALSE
      BY DEF Open
    <3> QED BY <1>4, <3>1, NoneRecorded
  <2> QED BY <1>2, <1>4, <2>1
<1> QED BY <1>2, <1>3, <1>4

\* So does every chunk from before the ending.
LEMMA DeliveredBefore ==
    ASSUME SuccessInv, Open, ask.stream, ~Finished, NEW chunk, Midway("before", ask.upstream, chunk),
           Deliver(chunk)
    PROVE  /\ Hearing("before", client') /\ record'.status # 200
           /\ Open' => Reading("before", reader') /\ Encoding("before", ask.client, encoder')
<1>1. PICK q : (Reading("before", q) \/ Returned("before", q)) /\ PassOn(q)
  BY Delivered DEF SuccessInv, Unfinished
<1> QED BY <1>1, StillUnfinished

\* Every step keeps it.
LEMMA UnfinishedNext == SuccessInv /\ [Next]_vars => SuccessInv'
<1> SUFFICES ASSUME SuccessInv, [Next]_vars PROVE SuccessInv'
  OBVIOUS
<1>1. CASE ChunkArrives
  <2>1. PICK s \in NextChunks(ask.upstream, ask.terse, answer, sent) : sent' = s[2] /\ Deliver(s[1])
    BY <1>1 DEF ChunkArrives
  <2>2. Progress(sent') /\ (sent'.ending = 0 => sent.ending = 0 /\ Midway("before", ask.upstream, s[1]))
    <3>1. ask.upstream \in Protocols /\ Lst(answer.parts) /\ Progress(sent)
      BY DEF SuccessInv
    <3>2. /\ Progress(s[2])
          /\ s[2].ending = 0 => sent.ending = 0 /\ Midway("before", ask.upstream, s[1])
      BY <2>1, <3>1, NextMidway
    <3> QED BY <2>1, <3>2
  <2>3. ask' = ask /\ answer' = answer
    BY <2>1, KeepsAsk
  <2>4. CASE Finished'
    BY <2>2, <2>3, <2>4 DEF SuccessInv, Unfinished
  <2>5. CASE ~Finished'
    <3>1. ~Finished /\ Midway("before", ask.upstream, s[1])
      BY <2>2, <2>5 DEF Finished, Progress
    <3>2. /\ Hearing("before", client') /\ record'.status # 200
          /\ Open' => Reading("before", reader') /\ Encoding("before", ask.client, encoder')
      BY <1>1, <2>1, <3>1, DeliveredBefore DEF ChunkArrives
    <3> QED BY <2>2, <2>3, <3>2 DEF SuccessInv, Unfinished
  <2> QED BY <2>4, <2>5
<1>2. CASE BadChunkArrives
  <2>1. PICK c \in BadChunks(ask.upstream) : Deliver(c)
    BY <1>2 DEF BadChunkArrives
  <2>2. ask' = ask /\ sent' = sent /\ answer' = answer
    BY <1>2, <2>1, KeepsAsk DEF BadChunkArrives
  <2>3. CASE Finished
    BY <2>2, <2>3 DEF SuccessInv, Unfinished, Finished
  <2>4. CASE ~Finished
    <3>1. Midway("before", ask.upstream, c)
      BY BadMidway DEF SuccessInv
    <3>2. /\ Hearing("before", client') /\ record'.status # 200
          /\ Open' => Reading("before", reader') /\ Encoding("before", ask.client, encoder')
      BY <1>2, <2>1, <2>4, <3>1, DeliveredBefore DEF BadChunkArrives
    <3> QED BY <2>2, <3>2 DEF SuccessInv, Unfinished
  <2> QED BY <2>3, <2>4
<1>3. CASE BodyEnds
  <2>1. PICK broken \in BOOLEAN : PassOn(Leave(ask.upstream, reader, broken))
    BY <1>3 DEF BodyEnds
  <2>2. ask' = ask /\ sent' = sent /\ answer' = answer
    BY <1>3, <2>1, KeepsAsk DEF BodyEnds
  <2>3. CASE Finished
    BY <2>2, <2>3 DEF SuccessInv, Unfinished, Finished
  <2>4. CASE ~Finished
    <3>1. Returned("before", Leave(ask.upstream, reader, broken))
      BY <1>3, <2>4, LeftReading DEF SuccessInv, Unfinished, BodyEnds
    <3>2. /\ Hearing("before", client') /\ record'.status # 200
          /\ Open' => Reading("before", reader') /\ Encoding("before", ask.client, encoder')
      BY <1>3, <2>1, <2>4, <3>1, StillUnfinished DEF BodyEnds
    <3> QED BY <2>2, <3>2 DEF SuccessInv, Unfinished
  <2> QED BY <2>3, <2>4
<1>4. CASE WholeArrives
  BY <1>4 DEF WholeArrives, SuccessInv, Unfinished
<1>5. CASE AnswerRefused
  <2>1. PICK status \in {400, 502} : record' = [NoRecord EXCEPT !.status = status]
    BY <1>5 DEF AnswerRefused
  <2>2. /\ client' = [client EXCEPT !.told = "error"] /\ client = NewClient
        /\ ask' = ask /\ sent' = sent /\ answer' = answer
    BY <1>5 DEF AnswerRefused
  <2>3. Hearing("before", client') /\ record'.status = status
    BY <2>1, <2>2 DEF NewClient, NoRecord, Hearing
  <2>4. ~Open'
    BY <2>3 DEF Open, NoRecord
  <2> QED BY <2>2, <2>3, <2>4 DEF SuccessInv, Unfinished
<1>6. CASE UNCHANGED vars
  BY <1>6 DEF vars, SuccessInv, Unfinished, Finished, Open
<1> QED BY <1>1, <1>2, <1>3, <1>4, <1>5, <1>6 DEF Next

\* No client is told that a stream is complete, and no request of a stream is
\* recorded as a success, before the provider has begun to end its answer:
\* whatever it has to say, wherever it stops, in every pair of protocols.
THEOREM NoEarlySuccess ==
    Spec => [](NoFalseSuccess /\ (ask.stream /\ record.status = 200 => Finished))
<1>1. SuccessInv => NoFalseSuccess /\ (ask.stream /\ record.status = 200 => Finished)
  BY DEF SuccessInv, Unfinished, NoFalseSuccess, Hearing
<1> QED BY <1>1, UnfinishedInit, UnfinishedNext, PTL DEF Spec

-----------------------------------------------------------------------------
(* The values of an exchange, and what is remembered of its calls          *)

\* The parts of a kind are a list.
LEMMA PartsList == ASSUME NEW a, NEW kind, Lst(a.parts) PROVE Lst(PartsOf(a, kind))
<1> DEFINE kept == [n \in DOMAIN a.parts |-> Opt(a.parts[n].kind = kind, a.parts[n])]
<1>1. PartsOf(a, kind) = Concat(kept)
  BY DEF PartsOf
<1>2. Lst(kept)
  BY ListFunction
<1>3. \A n \in DOMAIN kept : Quiet("any", kept[n])
  BY QuietOpt
<1> HIDE DEF kept
<1> QED BY <1>1, <1>2, <1>3, QuietConcat DEF Quiet

\* The calls of a whole answer are a list, in the words of any provider.
LEMMA WholeCalls ==
    ASSUME NEW protocol \in Protocols, NEW a, Lst(a.parts)
    PROVE  Lst(FromProvider(protocol, a, Request).calls)
<1> DEFINE parts == PartsOf(a, "call")
           plain == [n \in DOMAIN parts |-> PlainCall(parts[n], n)]
           given == [n \in DOMAIN parts |-> GeminiWholeCall(parts[n], n, Request)]
<1>1. Lst(plain) /\ Lst(given)
  <2>1. plain = [n \in DOMAIN parts |-> plain[n]] /\ given = [n \in DOMAIN parts |-> given[n]]
    OBVIOUS
  <2>2. Lst(parts)
    BY PartsList
  <2> HIDE DEF plain, given, parts
  <2> QED BY <2>1, <2>2, ListFunction
<1>2. CASE protocol = Chat
  <2>1. FromProvider(protocol, a, Request).calls = plain
    BY <1>2 DEF FromProvider, WholeFromChat, CallsOf, Response, Chat, Responses, Anthropic, Gemini
  <2> HIDE DEF plain
  <2> QED BY <1>1, <2>1
<1>3. CASE protocol = Anthropic
  <2>1. FromProvider(protocol, a, Request).calls = plain
    BY <1>3 DEF FromProvider, WholeFromAnthropic, CallsOf, Response, Chat, Responses, Anthropic, Gemini
  <2> HIDE DEF plain
  <2> QED BY <1>1, <2>1
<1>4. CASE protocol = Gemini
  <2>1. FromProvider(protocol, a, Request).calls = given
    BY <1>4 DEF FromProvider, WholeFromGemini, CallsOf, Response, Chat, Responses, Anthropic, Gemini
  <2> HIDE DEF given
  <2> QED BY <1>1, <2>1
<1>5. CASE protocol = Responses
  <2> DEFINE final == Ending(Responses, TRUE, a)[1]
             output == [n \in DOMAIN a.parts |-> ResponsesItem(a.parts[n], n)]
  <2>1. FromProvider(protocol, a, Request)
          = FromResponses(final.output, final.status, final.why, final.usage)
    BY <1>5 DEF FromProvider, WholeFromResponses, Chat, Responses, Anthropic, Gemini
  <2>2. Lst(output)
    <3>1. output = [n \in DOMAIN a.parts |-> output[n]]
      OBVIOUS
    <3> HIDE DEF output
    <3> QED BY <3>1, ListFunction
  <2>3. final.output = output
    BY DEF Ending, ResponsesBlank, Chat, Responses, Anthropic, Gemini
  <2>4. Lst(final.output)
    BY <2>2, <2>3
  <2> HIDE DEF final
  <2> QED BY <2>1, <2>4, FinalCalls
<1> QED BY <1>2, <1>3, <1>4, <1>5 DEF Protocols

\* Lists that are joined are a list.
LEMMA ListsJoin == \A s, t : Lst(s) /\ Lst(t) => Lst(Joined(s, t))
BY ListJoin

\* So are the items that are made of it for a client.
LEMMA WholeItems ==
    ASSUME NEW to \in Protocols, NEW r, Lst(r.calls)
    PROVE  Lst(ToClient(to, r).items)
<1>1. \A cond, x : Lst(Opt(cond, x))
  BY ListOpt
<1>2. CASE to = Chat
  <2> DEFINE a == Opt(r.reasoning # None, Item("reasoning", r.reasoning, None))
             b == Opt(r.refusal = None /\ r.calls = <<>>, Item("text", r.text, None))
             c == Opt(r.refusal # None, Item("refusal", r.refusal, None))
             d == [n \in DOMAIN r.calls |-> SignedGiven(r.calls[n])]
  <2>1. ToClient(to, r).items = Joined(Joined(Joined(a, b), c), d)
    BY <1>2 DEF ToClient, WholeToChat, Given, CallsGiven, Joined, Chat, Responses, Anthropic, Gemini
  <2>2. Lst(a) /\ Lst(b) /\ Lst(c)
    BY <1>1
  <2>3. Lst(d)
    BY ListFunction
  <2> HIDE DEF a, b, c, d
  <2> QED BY <2>1, <2>2, <2>3, ListsJoin
<1>3. CASE to = Responses
  <2> DEFINE a == Opt(r.reasoning # None \/ r.sig # None, Item("reasoning", r.reasoning, r.sig))
             b == Opt(r.refusal # None, Item("refusal", r.refusal, None))
             c == Opt(r.refusal = None /\ r.text # None, Item("text", r.text, None))
             said == Joined(Joined(a, b), c)
             d == [n \in DOMAIN r.calls |->
                     CallItem(FirstNonEmpty(r.calls[n].id, <<"fc", Len(said) + n - 1>>),
                              r.calls[n].name, r.calls[n].args)]
  <2>1. ToClient(to, r).items = Joined(said, d)
    BY <1>3 DEF ToClient, WholeToResponses, Given, Joined, Chat, Responses, Anthropic, Gemini
  <2>2. Lst(a) /\ Lst(b) /\ Lst(c)
    BY <1>1
  <2>3. Lst(said)
    <3> HIDE DEF a, b, c
    <3> QED BY <2>2, ListsJoin
  <2> HIDE DEF said
  <2>4. Lst(d)
    BY ListFunction
  <2> HIDE DEF d
  <2> QED BY <2>1, <2>3, <2>4, ListsJoin
<1>4. CASE to = Anthropic
  <2> DEFINE a == Opt(r.reasoning # None \/ r.sig # None, Item("reasoning", r.reasoning, r.sig))
             b == Opt(r.text # None, Item("text", r.text, None))
             d == [n \in DOMAIN r.calls |-> PlainGiven(r.calls[n])]
  <2>1. ToClient(to, r).items = IF r.refusal # None THEN <<>> ELSE Joined(Joined(a, b), d)
    BY <1>4 DEF ToClient, WholeToAnthropic, Given, CallsGiven, Joined, Chat, Responses, Anthropic, Gemini
  <2>2. Lst(a) /\ Lst(b)
    BY <1>1
  <2>3. Lst(d)
    BY ListFunction
  <2> HIDE DEF a, b, d
  <2>4. Lst(Joined(Joined(a, b), d))
    BY <2>2, <2>3, ListsJoin
  <2> QED BY <2>1, <2>4, EmptyList
<1>5. CASE to = Gemini
  <2> DEFINE said == FirstNonEmpty(r.refusal, r.text)
             a == Opt(r.reasoning # None, Item("reasoning", r.reasoning, r.sig))
             b == Opt(said # None, Item("text", said, None))
             d == [n \in DOMAIN r.calls |-> GeminiCall(r.calls[n])]
  <2>1. ToClient(to, r).items = Joined(Joined(a, b), d)
    BY <1>5 DEF ToClient, WholeToGemini, Given, CallsGiven, Joined, Chat, Responses, Anthropic, Gemini
  <2>2. Lst(a) /\ Lst(b)
    BY <1>1
  <2>3. Lst(d)
    BY ListFunction
  <2> HIDE DEF a, b, d
  <2> QED BY <2>1, <2>2, <2>3, ListsJoin
<1> QED BY <1>2, <1>3, <1>4, <1>5 DEF Protocols

\* What is remembered of calls stays within its limit.
Stored(ms) ==
    /\ "local" \in DOMAIN ms
    /\ ms.local = [r \in Replicas |-> ms.local[r]]
    /\ \A r \in Replicas : Cardinality(DOMAIN ms.local[r]) <= MaxToolSignatures

\* Nothing is remembered at first.
LEMMA NothingStored == Stored(NoMemory)
<1>1. /\ "local" \in DOMAIN NoMemory /\ NoMemory.local = [r \in Replicas |-> <<>>]
  BY DEF NoMemory
<1>2. Cardinality({}) = 0 /\ DOMAIN <<>> = {}
  BY FS_EmptySet, EmptyList
<1> QED BY <1>1, <1>2, SignatureAssumption DEF Stored

\* What is kept in the map of a replica is trimmed.
LEMMA KeptStored ==
    ASSUME NEW ms, Stored(ms), NEW r \in Replicas, NEW entries, NEW x \in Keep(ms, r, entries)
    PROVE  Stored(x)
<1> DEFINE next == Override(ms.local[r],
                            [k \in DOMAIN entries |-> [sig |-> entries[k], at |-> ms.now]])
<1>1. PICK m \in Trimmed(next) :
         x = [ms EXCEPT !.local[r] = m, !.now = @ + 1,
                        !.lost = @ \union (IF m = next THEN {} ELSE {"evicted"})]
  BY DEF Keep
<1> HIDE DEF next
<1>2. PICK K \in SUBSET DOMAIN next :
         /\ IF Cardinality(DOMAIN next) <= MaxToolSignatures THEN K = DOMAIN next
            ELSE Cardinality(K) = MaxToolSignatures
         /\ m = [k \in K |-> next[k]]
  BY <1>1 DEF Trimmed
<1>3. DOMAIN m = K /\ Cardinality(K) <= MaxToolSignatures
  BY <1>2, SignatureAssumption
<1>4. "local" \in DOMAIN x /\ x.local = [ms.local EXCEPT ![r] = m]
  BY <1>1 DEF Stored
<1> QED BY <1>3, <1>4 DEF Stored

\* So is what is left when calls were remembered.
LEMMA RememberedStored ==
    ASSUME NEW ms, Stored(ms), NEW r \in Replicas, NEW calls, NEW x \in Remember(ms, r, calls)
    PROVE  Stored(x)
<1> DEFINE of(k) == {n \in DOMAIN calls : k \in KeysOf(calls[n])}
           entries == [k \in UNION {KeysOf(calls[n]) : n \in DOMAIN calls} |->
                         calls[CHOOSE n \in of(k) : \A m \in of(k) : m <= n].sig]
           keys == DOMAIN entries
           Copied(m, written) ==
               [m EXCEPT !.shared = Override(@, [k \in written |-> entries[k]]),
                         !.lost = @ \union (IF written = keys THEN {} ELSE {"write"})]
<1>1. x = ms \/ \E written, m : m \in Keep(ms, r, entries) /\ x = Copied(m, written)
  <2>1. Remember(ms, r, calls) =
          IF keys = {} THEN {ms}
          ELSE UNION {{Copied(m, written) : m \in Keep(ms, r, entries)} :
                      written \in {K \in SUBSET keys : Cardinality(keys \ K) <= MaxFailedWrites}}
    BY DEF Remember
  <2> DEFINE ways == {K \in SUBSET keys : Cardinality(keys \ K) <= MaxFailedWrites}
             Ways(written) == {Copied(m, written) : m \in Keep(ms, r, entries)}
  <2>2. x = ms \/ \E written \in ways : x \in Ways(written)
    <3>1. Remember(ms, r, calls) = IF keys = {} THEN {ms} ELSE UNION {Ways(w) : w \in ways}
      BY <2>1
    <3> HIDE DEF keys, ways, Ways
    <3> QED BY <3>1
  <2> HIDE DEF entries, keys, ways, Copied
  <2> QED BY <2>2
<1>2. ASSUME NEW written, NEW m \in Keep(ms, r, entries), x = Copied(m, written) PROVE Stored(x)
  <2> HIDE DEF entries
  <2>1. Stored(m)
    BY KeptStored
  <2>2. "local" \in DOMAIN x /\ x.local = m.local
    BY <1>2, <2>1 DEF Stored
  <2> QED BY <2>1, <2>2 DEF Stored
<1> HIDE DEF Copied, entries
<1> QED BY <1>1, <1>2

\* The calls of a stream are remembered one by one: a fold.
MemoryStep(p, x, y) == UNION {Remember(m, "here", <<ToolCall(y.id, y.name, y.args, y.sig)>>) : m \in x}
MemoryKept(p, x) == \A m \in x : Stored(m)

Memory == INSTANCE LeftFolds WITH Op <- MemoryStep, Good <- MemoryKept

\* So the map stays within its limit along a stream.
LEMMA StreamStored ==
    ASSUME Stored(memory), NEW events, Lst(events), NEW x \in Remembered(events)
    PROVE  Stored(x)
<1> DEFINE each == [n \in DOMAIN events |-> Opt(events[n].type = "tool_call_done", events[n])]
           s == Concat(each)
           base == {memory}
           D == DOMAIN s
           Value(k, T) == IF T = {} THEN base
                          ELSE MemoryStep("", k[T \ {Memory!LastOf(T)}], s[Memory!LastOf(T)])
           k == CHOOSE k : k = [T \in SUBSET D |-> Value(k, T)]
<1>1. Lst(s)
  <2>1. Lst(each)
    BY ListFunction
  <2>2. \A n \in DOMAIN each : Quiet("any", each[n])
    BY QuietOpt
  <2> HIDE DEF each
  <2> QED BY <2>1, <2>2, QuietConcat DEF Quiet
<1>2. Remembered(events) =
        FoldLeft(LAMBDA ms, ev : UNION {Remember(m, "here", <<ToolCall(ev.id, ev.name, ev.args, ev.sig)>>)
                                         : m \in ms}, base, s)
  BY DEF Remembered
<1> HIDE DEF s
<1>3. D = 1..Len(s) /\ Len(s) \in Nat
  BY <1>1, ListDomain
<1>4. Remembered(events) = k[D]
  BY <1>2 DEF FoldLeft, MapThenFoldSet, Max, Memory!LastOf, MemoryStep
<1> HIDE DEF D, base
<1>5. \A l : Memory!Recurs(l, D, "", base, s) <=> l = [T \in SUBSET D |-> Value(l, T)]
  BY DEF Memory!Recurs
<1>6. \E l : Memory!Recurs(l, D, "", base, s)
  BY <1>3, Memory!RecursionExists DEF D
<1>7. Memory!Recurs(k, D, "", base, s)
  <2> HIDE DEF Value
  <2> QED BY <1>5, <1>6
<1> HIDE DEF k
<1>8. \A ms : \A i \in D : MemoryKept("", ms) => MemoryKept("", MemoryStep("", ms, s[i]))
  <2> SUFFICES ASSUME NEW ms, MemoryKept("", ms), NEW i \in D, NEW y \in MemoryStep("", ms, s[i])
               PROVE  Stored(y)
    BY DEF MemoryKept
  <2> DEFINE calls == <<ToolCall(s[i].id, s[i].name, s[i].args, s[i].sig)>>
  <2>1. PICK m \in ms : y \in Remember(m, "here", calls)
    BY DEF MemoryStep
  <2> HIDE DEF calls
  <2> QED BY <2>1, RememberedStored DEF MemoryKept, Replicas
<1>9. MemoryKept("", base)
  BY DEF MemoryKept, base
<1>10. MemoryKept("", k[D])
  BY <1>3, <1>7, <1>8, <1>9, Memory!FoldKeeps DEF D
<1> QED BY <1>4, <1>10 DEF MemoryKept

-----------------------------------------------------------------------------
(* The types                                                               *)

\* What TypeOK needs to be inductive: what is read is passed on only while the
\* exchange is open, in the words of the client.
TypeInv ==
    /\ ask \in Asks /\ Lst(answer.parts) /\ Progress(sent)
    /\ Hearing("any", client)
    /\ Reading("any", reader) \/ Returned("any", reader)
    /\ record.status \in {0, 200, 400, 502}
    /\ Open => Reading("any", reader) /\ Encoding("any", ask.client, encoder)
    /\ Stored(memory)

\* It says all that TypeOK does.
LEMMA TypeInvType == TypeInv => TypeOK
<1> SUFFICES ASSUME TypeInv PROVE TypeOK
  OBVIOUS
<1>1. client.told \in {"", "complete", "error"}
  BY DEF TypeInv, Hearing
<1>2. reader.result \in {"", "ok", "error"} /\ reader.over \in {"", "break", "return"}
  <2>1. CASE Reading("any", reader)
    BY <2>1 DEF Reading
  <2>2. CASE Returned("any", reader)
    BY <2>2 DEF Returned
  <2> QED BY <2>1, <2>2 DEF TypeInv
<1>3. \A r \in Replicas : Cardinality(DOMAIN memory.local[r]) <= MaxToolSignatures
  BY DEF TypeInv, Stored
<1>4. ask \in Asks /\ record.status \in {0, 200, 400, 502}
  BY DEF TypeInv
<1> QED BY <1>1, <1>2, <1>3, <1>4 DEF TypeOK

\* It holds at first.
LEMMA TypeInit == Init => TypeInv
<1> SUFFICES ASSUME Init PROVE TypeInv
  OBVIOUS
<1>1. ask \in Asks
  BY DEF Init
<1>2. Lst(answer.parts) /\ Progress(sent)
  BY UnfinishedInit DEF SuccessInv
<1>3. record.status = 0
  BY DEF Init, NoRecord
<1>4. Stored(memory)
  BY NothingStored DEF Init
<1> QED BY <1>1, <1>2, <1>3, <1>4, ActorsInit DEF TypeInv

\* What is passed on keeps it.
LEMMA TypePassed ==
    ASSUME TypeInv, Open, NEW q, Reading("any", q) \/ Returned("any", q), PassOn(q),
           Progress(sent')
    PROVE  TypeInv'
<1>1. ask.client \in Protocols /\ Hearing("any", client) /\ Encoding("any", ask.client, encoder)
  BY DEF TypeInv, Asks
<1>2. /\ ask' = ask /\ answer' = answer
      /\ Hearing("any", client') /\ Encoding("any", ask.client, encoder')
      /\ memory' \in Remembered(q.out)
      /\ \/ record' = record /\ Reading("any", reader')
         \/ Returned("any", reader') /\ record'.status \in {502, 200}
  BY <1>1, PassingOn
<1>3. Stored(memory')
  <2>1. Lst(q.out)
    BY DEF Reading, Returned, Quiet
  <2> QED BY <1>2, <2>1, StreamStored DEF TypeInv
<1>4. CASE record' = record /\ Reading("any", reader')
  BY <1>2, <1>3, <1>4 DEF TypeInv
<1>5. CASE Returned("any", reader') /\ record'.status \in {502, 200}
  <2>1. ~Open'
    <3>1. SUFFICES ASSUME record' = NoRecord PROVE FALSE
      BY DEF Open
    <3> QED BY <1>5, <3>1, NoneRecorded
  <2> QED BY <1>2, <1>3, <1>5, <2>1 DEF TypeInv
<1> QED BY <1>2, <1>4, <1>5

\* So does every chunk.
LEMMA TypeDelivered ==
    ASSUME TypeInv, Open, NEW chunk, Midway("any", ask.upstream, chunk), Deliver(chunk),
           Progress(sent')
    PROVE  TypeInv'
<1>1. PICK q : (Reading("any", q) \/ Returned("any", q)) /\ PassOn(q)
  BY Delivered DEF TypeInv, Asks
<1> QED BY <1>1, TypePassed

\* A whole answer that arrives keeps it.
LEMMA TypeWhole == ASSUME TypeInv, WholeArrives PROVE TypeInv'
<1> DEFINE r == FromProvider(ask.upstream, answer, Request)
           g == ToClient(ask.client, r)
           c == FoldLeft(Collect, client, g.items)
           heard == [c EXCEPT !.reason = g.reason, !.refusal = g.refusal, !.usage = g.usage,
                              !.told = "complete", !.begun = TRUE]
           told == [status |-> 200, usage |-> r.usage]
<1>1. ask.client \in Protocols /\ ask.upstream \in Protocols /\ Lst(answer.parts)
  BY DEF TypeInv, Asks
<1>2. /\ client' = heard /\ record' = told /\ memory' \in Remember(memory, "here", r.calls)
      /\ UNCHANGED <<ask, answer, sent, reader, encoder>>
  BY DEF WholeArrives
<1>3. Lst(g.items)
  <2>1. Lst(r.calls)
    BY <1>1, WholeCalls
  <2> HIDE DEF r
  <2> QED BY <1>1, <2>1, WholeItems
<1> HIDE DEF r
<1>4. Hearing("any", c)
  <2> HIDE DEF g
  <2> QED BY <1>3, HearingItems DEF TypeInv
<1> HIDE DEF g, c
<1>5. Hearing("any", client')
  BY <1>2, <1>4 DEF Hearing
<1>6. Stored(memory')
  BY <1>2, RememberedStored DEF TypeInv, Replicas
<1>7. record'.status = 200
  BY <1>2
<1>8. ~Open'
  BY <1>7, NoneRecorded DEF Open
<1> QED BY <1>2, <1>5, <1>6, <1>7, <1>8 DEF TypeInv

\* Every step keeps it.
LEMMA TypeNext == TypeInv /\ [Next]_vars => TypeInv'
<1> SUFFICES ASSUME TypeInv, [Next]_vars PROVE TypeInv'
  OBVIOUS
<1>1. CASE ChunkArrives
  <2>1. PICK s \in NextChunks(ask.upstream, ask.terse, answer, sent) : sent' = s[2] /\ Deliver(s[1])
    BY <1>1 DEF ChunkArrives
  <2>2. Progress(sent') /\ Midway("any", ask.upstream, s[1])
    <3>1. ask.upstream \in Protocols /\ Lst(answer.parts) /\ Progress(sent)
      BY DEF TypeInv, Asks
    <3>2. Progress(s[2]) /\ ("any" = "any" => Midway("any", ask.upstream, s[1]))
      BY <2>1, <3>1, NextMidway
    <3> QED BY <2>1, <3>2
  <2> QED BY <1>1, <2>1, <2>2, TypeDelivered DEF ChunkArrives
<1>2. CASE BadChunkArrives
  <2>1. PICK c \in BadChunks(ask.upstream) : Deliver(c)
    BY <1>2 DEF BadChunkArrives
  <2>2. Midway("any", ask.upstream, c)
    BY BadMidway DEF TypeInv, Asks
  <2>3. Progress(sent')
    BY <1>2 DEF BadChunkArrives, TypeInv
  <2> QED BY <1>2, <2>1, <2>2, <2>3, TypeDelivered DEF BadChunkArrives
<1>3. CASE BodyEnds
  <2>1. PICK broken \in BOOLEAN : PassOn(Leave(ask.upstream, reader, broken))
    BY <1>3 DEF BodyEnds
  <2>2. Returned("any", Leave(ask.upstream, reader, broken))
    BY <1>3, LeftReading DEF TypeInv, Asks, BodyEnds
  <2>3. Progress(sent')
    BY <1>3 DEF BodyEnds, TypeInv
  <2> QED BY <1>3, <2>1, <2>2, <2>3, TypePassed DEF BodyEnds
<1>4. CASE WholeArrives
  BY <1>4, TypeWhole
<1>5. CASE AnswerRefused
  <2>1. PICK status \in {400, 502} : record' = [NoRecord EXCEPT !.status = status]
    BY <1>5 DEF AnswerRefused
  <2>2. /\ client' = [client EXCEPT !.told = "error"]
        /\ UNCHANGED <<ask, answer, sent, reader, encoder, shown, memory>>
    BY <1>5 DEF AnswerRefused
  <2>3. Hearing("any", client') /\ record'.status = status
    BY <2>1, <2>2 DEF NoRecord, Hearing, TypeInv
  <2>4. ~Open'
    BY <2>3 DEF Open, NoRecord
  <2> QED BY <2>2, <2>3, <2>4 DEF TypeInv
<1>6. CASE UNCHANGED vars
  BY <1>6 DEF vars, TypeInv, Open
<1> QED BY <1>1, <1>2, <1>3, <1>4, <1>5, <1>6 DEF Next

\* The variables keep their types, and the map of signatures its limit, in
\* every pair of protocols, whatever the provider sends and wherever it stops.
THEOREM ExchangeType == Spec => []TypeOK
BY TypeInvType, TypeInit, TypeNext, PTL DEF Spec

-----------------------------------------------------------------------------
(* What a client hears                                                     *)

\* A client hears what is written in turn.
HearAll(to, c, s) == FoldLeft(LAMBDA x, w : Hear(to, x, w), c, s)

\* It is the recursion along the positions.
HearValue(to, c, s, k, T) ==
    IF T = {} THEN c ELSE Hear(to, k[T \ {Along!LastOf(T)}], s[Along!LastOf(T)])

\* What a client makes of a list is the value of that recursion.
LEMMA HearAllFold ==
    ASSUME NEW to, NEW c, NEW s, Lst(s)
    PROVE  \E k : /\ Along!Recurs(k, DOMAIN s, <<"hear", to, "any">>, c, s)
                  /\ HearAll(to, c, s) = k[DOMAIN s]
<1> DEFINE p == <<"hear", to, "any">>
           D == DOMAIN s
           k == CHOOSE k : k = [T \in SUBSET D |-> HearValue(to, c, s, k, T)]
<1>1. D = 1..Len(s) /\ Len(s) \in Nat
  BY ListDomain
<1>2. \A x, y : Step(p, x, y) = Hear(to, x, y)
  BY DEF Step
<1>3. HearAll(to, c, s) = k[D]
  BY DEF HearAll, FoldLeft, MapThenFoldSet, Max, Along!LastOf, HearValue
<1> HIDE DEF p, D
<1>4. \A l : Along!Recurs(l, D, p, c, s) <=> l = [T \in SUBSET D |-> HearValue(to, c, s, l, T)]
  BY <1>2 DEF Along!Recurs, HearValue
<1>5. \E l : Along!Recurs(l, D, p, c, s)
  BY <1>1, Along!RecursionExists DEF D
<1>6. Along!Recurs(k, D, p, c, s)
  BY <1>4, <1>5
<1> HIDE DEF k
<1> QED BY <1>3, <1>6 DEF p, D

\* One that hears nothing stays as it is.
LEMMA HearNone == \A to, c : HearAll(to, c, <<>>) = c
<1> SUFFICES ASSUME NEW to, NEW c PROVE HearAll(to, c, <<>>) = c
  OBVIOUS
<1>1. Lst(<<>>) /\ DOMAIN <<>> = {}
  BY EmptyList
<1>2. PICK k : /\ Along!Recurs(k, DOMAIN <<>>, <<"hear", to, "any">>, c, <<>>)
               /\ HearAll(to, c, <<>>) = k[DOMAIN <<>>]
  BY <1>1, HearAllFold
<1> QED BY <1>1, <1>2 DEF Along!Recurs

\* One more thing is heard after the others.
LEMMA HearMore ==
    ASSUME NEW to, NEW c, NEW s, Lst(s), NEW w
    PROVE  HearAll(to, c, Append(s, w)) = Hear(to, HearAll(to, c, s), w)
<1> DEFINE t == Append(s, w)
           p == <<"hear", to, "any">>
           n == Len(s)
<1>1. Lst(t)
  BY ListAppend
<1>2. n \in Nat /\ DOMAIN s = 1..n
  BY ListDomain
<1>3. DOMAIN t = 1..(n + 1) /\ (\A i \in 1..n : t[i] = s[i]) /\ t[n + 1] = w
  <2> DEFINE T == {s[i] : i \in DOMAIN s} \union {w}
  <2>1. s \in Seq(T)
    <3>1. s \in Seq({s[i] : i \in DOMAIN s})
      BY DEF Lst
    <3>2. {s[i] : i \in DOMAIN s} \subseteq T
      OBVIOUS
    <3> HIDE DEF T
    <3> QED BY <1>2, <3>1, <3>2
  <2>2. w \in T
    OBVIOUS
  <2> HIDE DEF T
  <2> QED BY <2>1, <2>2
<1> HIDE DEF t
<1>4. PICK k : Along!Recurs(k, DOMAIN s, p, c, s) /\ HearAll(to, c, s) = k[DOMAIN s]
  BY HearAllFold
<1>5. PICK l : Along!Recurs(l, DOMAIN t, p, c, t) /\ HearAll(to, c, t) = l[DOMAIN t]
  BY <1>1, HearAllFold
<1>6. \A x, y : Step(p, x, y) = Hear(to, x, y)
  BY DEF Step
<1> HIDE DEF p, n
<1>7. l[1..(n + 1)] = Step(p, k[1..n], t[n + 1])
  BY <1>2, <1>3, <1>4, <1>5, Along!FoldOneMore
<1> QED BY <1>2, <1>3, <1>4, <1>5, <1>6, <1>7 DEF t

-----------------------------------------------------------------------------
(* What a client of Anthropic's is told is legal                           *)

\* The blocks of the encoder are those of the client: the last one of those
\* that were begun is open, and of its kind, or all of them are closed.
BlockOpen(c, at, kind, next) ==
    /\ next \in Nat \ {0} /\ at = next - 1
    /\ DOMAIN c.open = {at} /\ "kind" \in DOMAIN c.open[at] /\ c.open[at].kind = kind
    /\ DOMAIN c.closed = 0..(next - 2)

BlocksMatch(e, c) ==
    \/ /\ e.textOpen = FALSE /\ e.reasoningOpen = FALSE
       /\ e.next \in Nat /\ DOMAIN c.open = {} /\ DOMAIN c.closed = 0..(e.next - 1)
    \/ /\ e.textOpen = TRUE /\ e.reasoningOpen = FALSE
       /\ BlockOpen(c, e.textAt, "text", e.next)
    \/ /\ e.textOpen = FALSE /\ e.reasoningOpen = TRUE
       /\ BlockOpen(c, e.reasoningAt, "reasoning", e.next)

EncoderFields == {"next", "textOpen", "textAt", "reasoningOpen", "reasoningAt", "sig", "refusal",
                  "calls", "usage", "finished", "out"}
ClientFields == {"begun", "open", "closed", "reason", "refusal", "usage", "told", "breaches"}

\* The client has not been told of an end.
Listening(c) == c.told = ""

\* An encoder and the client that has heard all it wrote.
Untroubled(c) == ClientFields \subseteq DOMAIN c /\ c.breaches = {}

\* A breach is one only if its condition holds.
LEMMA NoBreach == ASSUME NEW c, NEW what PROVE Breach(c, FALSE, what) = c
BY DEF Breach

\* A client that has not been told of an end hears what is written.
LEMMA HearsAnthropic ==
    ASSUME NEW c, Listening(c), NEW w, w.type # "error"
    PROVE  Hear(Anthropic, c, w) = HearAnthropic(c, w)
BY DEF Listening, Hear, Chat, Responses, Anthropic, Gemini

\* What the encoder writes.
LEMMA WriteFields ==
    \A type, at, item : /\ Write(type, at, item).type = type /\ Write(type, at, item).at = at
                        /\ Write(type, at, item).item = item
BY DEF Write, Written

\* A block is opened.
LEMMA BlockStarts ==
    ASSUME NEW c, Untroubled(c), Listening(c), NEW next \in Nat, DOMAIN c.open = {},
           DOMAIN c.closed = 0..(next - 1), NEW item, "kind" \in DOMAIN item, NEW kind, item.kind = kind
    PROVE  LET h == Hear(Anthropic, c, Write("block_start", next, item))
           IN Untroubled(h) /\ Listening(h) /\ BlockOpen(h, next, kind, next + 1)
<1> DEFINE w == Write("block_start", next, item)
           h == [c EXCEPT !.open = At(@, next, item)]
<1>1. Cardinality(DOMAIN c.closed) = next
  <2>1. next - 1 \in Int /\ 0 \in Int
    OBVIOUS
  <2>2. Cardinality(0..(next - 1)) = IF 0 > next - 1 THEN 0 ELSE next - 1 - 0 + 1
    BY <2>1, FS_Interval
  <2> QED BY <2>2
<1>2. HearAnthropic(c, w) = h
  <2>1. w.type = "block_start" /\ w.at = next /\ w.item = item
    BY DEF Write, Written
  <2> HIDE DEF w
  <2>2. HearAnthropic(c, w) = Opened(c, w, DOMAIN c.open # {} \/ w.at # Cardinality(DOMAIN c.closed))
    BY <2>1 DEF HearAnthropic
  <2>3. (DOMAIN c.open # {} \/ w.at # Cardinality(DOMAIN c.closed)) = FALSE
    BY <1>1, <2>1
  <2> QED BY <2>1, <2>2, <2>3 DEF Opened, Breach
<1>3. Hear(Anthropic, c, w) = h
  <2>1. w.type # "error"
    BY WriteFields
  <2> HIDE DEF w
  <2> QED BY <1>2, <2>1, HearsAnthropic
<1>4. Untroubled(h) /\ Listening(h) /\ h.closed = c.closed /\ h.open = At(c.open, next, item)
  BY DEF Untroubled, ClientFields, Listening
<1> HIDE DEF h
<1>5. DOMAIN h.open = {next} /\ h.open[next] = item
  BY <1>4 DEF At
<1>6. BlockOpen(h, next, kind, next + 1)
  <2>1. next + 1 \in Nat \ {0} /\ next = next + 1 - 1 /\ next + 1 - 2 = next - 1
    OBVIOUS
  <2>2. DOMAIN h.closed = 0..(next + 1 - 2)
    BY <1>4, <2>1
  <2> QED BY <1>5, <2>1, <2>2 DEF BlockOpen
<1> QED BY <1>3, <1>4, <1>6

\* It grows.
LEMMA BlockGrows ==
    ASSUME NEW c, Untroubled(c), Listening(c), NEW at, NEW kind, NEW next, BlockOpen(c, at, kind, next),
           NEW item, item.kind \in {kind, "signature"}
    PROVE  LET h == Hear(Anthropic, c, Write("block_delta", at, item))
           IN Untroubled(h) /\ Listening(h) /\ BlockOpen(h, at, kind, next)
<1> DEFINE w == Write("block_delta", at, item)
           x == [c EXCEPT !.open[at].sig = @ \o item.sig]
           y == [c EXCEPT !.open[at].text = @ \o item.text]
<1>1. HearAnthropic(c, w) \in {x, y}
  <2>1. w.type = "block_delta" /\ w.at = at /\ w.item = item
    BY DEF Write, Written
  <2> HIDE DEF w
  <2>2. HearAnthropic(c, w) = Grown(c, w)
    BY <2>1 DEF HearAnthropic
  <2>3. at \in DOMAIN c.open /\ c.open[at].kind = kind
    BY DEF BlockOpen
  <2>4. CASE item.kind = "signature"
    BY <2>1, <2>2, <2>3, <2>4 DEF Grown
  <2>5. CASE item.kind # "signature"
    <3>1. (item.kind # c.open[at].kind) = FALSE
      BY <2>3, <2>5
    <3>2. Breach(c, item.kind # c.open[at].kind, "a delta of another kind") = c
      BY <3>1 DEF Breach
    <3>3. Grown(c, w) = [Breach(c, item.kind # c.open[at].kind, "a delta of another kind")
                           EXCEPT !.open[at].text = @ \o item.text]
      BY <2>1, <2>3, <2>5 DEF Grown
    <3> QED BY <2>2, <3>2, <3>3
  <2> QED BY <2>4, <2>5
<1>2. Hear(Anthropic, c, w) \in {x, y}
  <2>1. w.type # "error"
    BY WriteFields
  <2> HIDE DEF w, x, y
  <2> QED BY <1>1, <2>1, HearsAnthropic
<1>3. \A h \in {x, y} : /\ Untroubled(h) /\ Listening(h) /\ h.closed = c.closed
                        /\ DOMAIN h.open = DOMAIN c.open
                        /\ "kind" \in DOMAIN h.open[at] /\ h.open[at].kind = kind
  <2> DEFINE f == [c.open[at] EXCEPT !.sig = @ \o item.sig]
             g == [c.open[at] EXCEPT !.text = @ \o item.text]
             u == [c.open EXCEPT ![at] = f]
             v == [c.open EXCEPT ![at] = g]
  <2>1. "kind" \in DOMAIN f /\ f.kind = kind /\ "kind" \in DOMAIN g /\ g.kind = kind
    BY DEF BlockOpen
  <2>2. ClientFields \subseteq DOMAIN c
    BY DEF Untroubled
  <2>3. x = [c EXCEPT !.open = u] /\ y = [c EXCEPT !.open = v]
    BY <2>2 DEF ClientFields
  <2> HIDE DEF f, g
  <2>4. at \in DOMAIN c.open
    BY DEF BlockOpen
  <2>5. /\ DOMAIN u = DOMAIN c.open /\ u[at] = f
        /\ DOMAIN v = DOMAIN c.open /\ v[at] = g
    BY <2>4
  <2> HIDE DEF u, v, x, y
  <2>6. ASSUME NEW h, NEW z, h = [c EXCEPT !.open = z]
        PROVE  Untroubled(h) /\ Listening(h) /\ h.closed = c.closed /\ h.open = z
    BY <2>2, <2>6 DEF Untroubled, ClientFields, Listening
  <2>7. /\ Untroubled(x) /\ Listening(x) /\ x.closed = c.closed /\ x.open = u
        /\ Untroubled(y) /\ Listening(y) /\ y.closed = c.closed /\ y.open = v
    BY <2>3, <2>6
  <2> QED BY <2>1, <2>5, <2>7
<1> HIDE DEF x, y
<1> QED BY <1>2, <1>3 DEF BlockOpen

\* It is closed.
LEMMA BlockStops ==
    ASSUME NEW c, Untroubled(c), Listening(c), NEW at, NEW kind, NEW next, BlockOpen(c, at, kind, next)
    PROVE  LET h == Hear(Anthropic, c, Write("block_stop", at, Silent))
           IN /\ Untroubled(h) /\ Listening(h) /\ next \in Nat
              /\ DOMAIN h.open = {} /\ DOMAIN h.closed = 0..(next - 1)
<1> DEFINE w == Write("block_stop", at, Silent)
           item == c.open[at]
           h == [c EXCEPT !.open = Drop(@, at), !.closed = At(@, at, item)]
<1>1. HearAnthropic(c, w) = h
  <2>1. w.type = "block_stop" /\ w.at = at
    BY WriteFields
  <2> HIDE DEF w
  <2>2. at \in DOMAIN c.open
    BY DEF BlockOpen
  <2>3. HearAnthropic(c, w) = Closed(c, at, item)
    BY <2>1, <2>2 DEF HearAnthropic
  <2>4. Breach(c, item.text # c.open[at].text, "closed with another text") = c
    BY DEF Breach
  <2>5. Closed(c, at, item) = [Breach(c, item.text # c.open[at].text, "closed with another text")
                                 EXCEPT !.open = Drop(@, at), !.closed = At(@, at, item)]
    BY <2>2 DEF Closed
  <2> QED BY <2>3, <2>4, <2>5
<1>2. Hear(Anthropic, c, w) = h
  <2>1. w.type # "error"
    BY WriteFields
  <2> HIDE DEF w, h
  <2> QED BY <1>1, <2>1, HearsAnthropic
<1>3. /\ Untroubled(h) /\ Listening(h)
      /\ h.open = Drop(c.open, at) /\ h.closed = At(c.closed, at, item)
  BY DEF Untroubled, ClientFields, Listening
<1> HIDE DEF h
<1>4. DOMAIN h.open = {} /\ DOMAIN h.closed = DOMAIN c.closed \union {at}
  BY <1>3 DEF Drop, At, BlockOpen
<1>5. next \in Nat /\ DOMAIN h.closed = 0..(next - 1)
  <2>1. next \in Nat \ {0} /\ at = next - 1 /\ DOMAIN c.closed = 0..(next - 2)
    BY DEF BlockOpen
  <2>2. (0..(next - 2)) \union {at} = 0..(next - 1)
    BY <2>1
  <2> QED BY <1>4, <2>1, <2>2
<1> QED BY <1>2, <1>3, <1>4, <1>5

\* What the client has heard when it is told all that waits to be written.
Heard(c, e) == HearAll(Anthropic, c, e.out)

\* An encoder that goes on, and the client that hears it.
Writer(e) == EncoderFields \subseteq DOMAIN e /\ Lst(e.out)

Live(c, e) ==
    /\ Writer(e) /\ e.finished = FALSE
    /\ Untroubled(Heard(c, e)) /\ Listening(Heard(c, e)) /\ BlocksMatch(e, Heard(c, e))

\* The same but for what is written and noted besides.
SameBlocks(x, e) ==
    /\ x.next = e.next /\ x.finished = e.finished
    /\ x.textOpen = e.textOpen /\ x.textAt = e.textAt
    /\ x.reasoningOpen = e.reasoningOpen /\ x.reasoningAt = e.reasoningAt

\* What is put out is heard, and nothing else changes.
LEMMA PutHeard ==
    ASSUME NEW c, NEW x, Writer(x), NEW w
    PROVE  /\ Writer(Put(x, w)) /\ SameBlocks(Put(x, w), x)
           /\ Heard(c, Put(x, w)) = Hear(Anthropic, Heard(c, x), w)
<1> DEFINE y == Put(x, w)
           o == Append(x.out, w)
<1>1. y.out = o /\ DOMAIN y = DOMAIN x /\ SameBlocks(y, x)
  BY DEF Put, Writer, EncoderFields, SameBlocks
<1>2. Lst(o)
  BY ListAppend DEF Writer
<1>3. HearAll(Anthropic, c, o) = Hear(Anthropic, HearAll(Anthropic, c, x.out), w)
  BY HearMore DEF Writer
<1> HIDE DEF y, o
<1>4. Writer(y) /\ Heard(c, y) = Hear(Anthropic, Heard(c, x), w)
  BY <1>1, <1>2, <1>3 DEF Writer, Heard
<1> QED BY <1>1, <1>4 DEF y

\* Nothing that is noted besides matters.
LEMMA StillLive ==
    ASSUME NEW c, NEW e, Live(c, e), NEW x, DOMAIN x = DOMAIN e, x.out = e.out, SameBlocks(x, e)
    PROVE  Live(c, x) /\ Heard(c, x) = Heard(c, e)
<1>1. Heard(c, x) = Heard(c, e) /\ Writer(x)
  BY DEF Heard, Live, Writer
<1> QED BY <1>1 DEF Live, SameBlocks, BlocksMatch

\* The block of reasoning is closed.
LEMMA ReasoningCloses ==
    ASSUME NEW c, NEW e, Live(c, e)
    PROVE  /\ Live(c, ACloseReasoning(e)) /\ ACloseReasoning(e).reasoningOpen = FALSE
           /\ ACloseReasoning(e).next = e.next /\ ACloseReasoning(e).textOpen = e.textOpen
<1> DEFINE h == Heard(c, e)
           x == [e EXCEPT !.reasoningOpen = FALSE]
           item == Item("signature", None, e.sig)
           v == Write("block_delta", e.reasoningAt, item)
           y == PutIf(e.sig # None, x, v)
           z == Put(y, Write("block_stop", e.reasoningAt, Silent))
<1>1. CASE e.reasoningOpen = FALSE
  <2>1. ACloseReasoning(e) = e
    BY <1>1 DEF ACloseReasoning
  <2> QED BY <1>1, <2>1
<1>2. CASE e.reasoningOpen = TRUE
  <2>1. ACloseReasoning(e) = z
    BY <1>2 DEF ACloseReasoning
  <2>2. e.textOpen = FALSE /\ BlockOpen(h, e.reasoningAt, "reasoning", e.next) /\ Untroubled(h) /\ Listening(h)
    BY <1>2 DEF Live, BlocksMatch
  <2>3. /\ Writer(x) /\ Heard(c, x) = h /\ x.textOpen = FALSE /\ x.reasoningOpen = FALSE
        /\ x.next = e.next /\ x.finished = FALSE
    BY <2>2 DEF Live, Writer, Heard, EncoderFields
  <2>4. item.kind = "signature"
    BY DEF Item, Silent
  <2> HIDE DEF x, h, item, y, z
  <2>5. /\ Writer(y) /\ y.textOpen = FALSE /\ y.reasoningOpen = FALSE
        /\ y.next = e.next /\ y.finished = FALSE
        /\ Untroubled(Heard(c, y)) /\ Listening(Heard(c, y))
        /\ BlockOpen(Heard(c, y), e.reasoningAt, "reasoning", e.next)
    <3>1. CASE e.sig = None
      <4>1. y = x
        BY <3>1 DEF y, PutIf
      <4> QED BY <2>2, <2>3, <4>1
    <3>2. CASE e.sig # None
      <4>1. y = Put(x, v)
        BY <3>2 DEF y, PutIf
      <4>2. Writer(y) /\ SameBlocks(y, x) /\ Heard(c, y) = Hear(Anthropic, h, v)
        BY <2>3, <4>1, PutHeard
      <4>3. LET g == Hear(Anthropic, h, v)
            IN Untroubled(g) /\ Listening(g) /\ BlockOpen(g, e.reasoningAt, "reasoning", e.next)
        BY <2>2, <2>4, BlockGrows
      <4> QED BY <2>3, <4>2, <4>3 DEF SameBlocks
    <3> QED BY <3>1, <3>2
  <2>6. /\ Writer(z) /\ SameBlocks(z, y)
        /\ Heard(c, z) = Hear(Anthropic, Heard(c, y), Write("block_stop", e.reasoningAt, Silent))
    BY <2>5, PutHeard DEF z
  <2>7. /\ Untroubled(Heard(c, z)) /\ Listening(Heard(c, z)) /\ e.next \in Nat
        /\ DOMAIN Heard(c, z).open = {} /\ DOMAIN Heard(c, z).closed = 0..(e.next - 1)
    BY <2>5, <2>6, BlockStops
  <2>8. Live(c, z)
    BY <2>5, <2>6, <2>7 DEF Live, BlocksMatch, SameBlocks
  <2> QED BY <2>1, <2>2, <2>5, <2>6, <2>8 DEF SameBlocks
<1>3. e.reasoningOpen = FALSE \/ e.reasoningOpen = TRUE
  BY DEF Live, BlocksMatch
<1> QED BY <1>1, <1>2, <1>3

\* The block of text is closed.
LEMMA TextCloses ==
    ASSUME NEW c, NEW e, Live(c, e)
    PROVE  /\ Live(c, ACloseText(e)) /\ ACloseText(e).textOpen = FALSE
           /\ ACloseText(e).next = e.next /\ ACloseText(e).reasoningOpen = e.reasoningOpen
<1> DEFINE h == Heard(c, e)
           x == [e EXCEPT !.textOpen = FALSE]
           z == Put(x, Write("block_stop", e.textAt, Silent))
<1>1. CASE e.textOpen = FALSE
  <2>1. ACloseText(e) = e
    BY <1>1 DEF ACloseText
  <2> QED BY <1>1, <2>1
<1>2. CASE e.textOpen = TRUE
  <2>1. ACloseText(e) = z
    BY <1>2 DEF ACloseText
  <2>2. e.reasoningOpen = FALSE /\ BlockOpen(h, e.textAt, "text", e.next) /\ Untroubled(h) /\ Listening(h)
    BY <1>2 DEF Live, BlocksMatch
  <2>3. /\ Writer(x) /\ Heard(c, x) = h /\ x.textOpen = FALSE /\ x.reasoningOpen = FALSE
        /\ x.next = e.next /\ x.finished = FALSE
    BY <2>2 DEF Live, Writer, Heard, EncoderFields
  <2> HIDE DEF x, h, z
  <2>6. /\ Writer(z) /\ SameBlocks(z, x)
        /\ Heard(c, z) = Hear(Anthropic, h, Write("block_stop", e.textAt, Silent))
    BY <2>3, PutHeard DEF z
  <2>7. /\ Untroubled(Heard(c, z)) /\ Listening(Heard(c, z)) /\ e.next \in Nat
        /\ DOMAIN Heard(c, z).open = {} /\ DOMAIN Heard(c, z).closed = 0..(e.next - 1)
    BY <2>2, <2>6, BlockStops
  <2>8. Live(c, z)
    BY <2>3, <2>6, <2>7 DEF Live, BlocksMatch, SameBlocks
  <2> QED BY <2>1, <2>2, <2>3, <2>6, <2>8 DEF SameBlocks
<1>3. e.textOpen = FALSE \/ e.textOpen = TRUE
  BY DEF Live, BlocksMatch
<1> QED BY <1>1, <1>2, <1>3

\* With both closed, so are the blocks of the client.
LEMMA BlocksClose ==
    ASSUME NEW c, NEW e, Live(c, e)
    PROVE  LET x == ACloseBlocks(e)
           IN /\ Live(c, x) /\ x.textOpen = FALSE /\ x.reasoningOpen = FALSE
              /\ x.next \in Nat /\ DOMAIN Heard(c, x).open = {}
              /\ DOMAIN Heard(c, x).closed = 0..(x.next - 1)
<1> DEFINE x == ACloseBlocks(e)
<1>1. Live(c, x) /\ x.textOpen = FALSE /\ x.reasoningOpen = FALSE
  <2> DEFINE y == ACloseReasoning(e)
             z == ACloseText(y)
  <2>1. Live(c, y) /\ y.reasoningOpen = FALSE
    BY ReasoningCloses
  <2> HIDE DEF y
  <2>2. Live(c, z) /\ z.textOpen = FALSE /\ z.reasoningOpen = FALSE
    BY <2>1, TextCloses
  <2>3. x = z
    BY DEF ACloseBlocks, y
  <2> HIDE DEF x, z
  <2> QED BY <2>2, <2>3
<1> HIDE DEF x
<1>2. x.next \in Nat /\ DOMAIN Heard(c, x).open = {} /\ DOMAIN Heard(c, x).closed = 0..(x.next - 1)
  BY <1>1 DEF Live, BlocksMatch
<1> QED BY <1>1, <1>2 DEF x

\* A block of reasoning is open.
LEMMA ReasoningOpens ==
    ASSUME NEW c, NEW e, Live(c, e)
    PROVE  Live(c, AEnsureReasoning(e)) /\ AEnsureReasoning(e).reasoningOpen = TRUE
<1> DEFINE b == ACloseText(e)
           x == [b EXCEPT !.sig = None, !.reasoningOpen = TRUE, !.reasoningAt = b.next, !.next = @ + 1]
           item == Item("reasoning", None, None)
           w == Write("block_start", b.next, item)
           z == Put(x, w)
<1>1. CASE e.reasoningOpen = TRUE
  <2>1. AEnsureReasoning(e) = e
    BY <1>1 DEF AEnsureReasoning
  <2> QED BY <1>1, <2>1
<1>2. CASE e.reasoningOpen = FALSE
  <2>1. AEnsureReasoning(e) = z
    BY <1>2 DEF AEnsureReasoning
  <2>2. Live(c, b) /\ b.textOpen = FALSE /\ b.reasoningOpen = FALSE
    BY <1>2, TextCloses
  <2> HIDE DEF b
  <2>3. /\ b.next \in Nat /\ DOMAIN Heard(c, b).open = {}
        /\ DOMAIN Heard(c, b).closed = 0..(b.next - 1)
        /\ Untroubled(Heard(c, b)) /\ Listening(Heard(c, b))
    BY <2>2 DEF Live, BlocksMatch
  <2>4. /\ Writer(x) /\ Heard(c, x) = Heard(c, b) /\ x.textOpen = FALSE /\ x.reasoningOpen = TRUE
        /\ x.reasoningAt = b.next /\ x.next = b.next + 1 /\ x.finished = FALSE
    BY <2>2 DEF Live, Writer, Heard, EncoderFields
  <2>5. "kind" \in DOMAIN item /\ item.kind = "reasoning"
    BY DEF Item, Silent
  <2> HIDE DEF x, item
  <2>6. /\ Writer(z) /\ SameBlocks(z, x) /\ Heard(c, z) = Hear(Anthropic, Heard(c, b), w)
    BY <2>4, PutHeard
  <2>7. LET g == Hear(Anthropic, Heard(c, b), w)
        IN Untroubled(g) /\ Listening(g) /\ BlockOpen(g, b.next, "reasoning", b.next + 1)
    BY <2>3, <2>5, BlockStarts
  <2> HIDE DEF z, w
  <2>8. Live(c, z)
    BY <2>4, <2>6, <2>7 DEF Live, BlocksMatch, SameBlocks
  <2> QED BY <2>1, <2>4, <2>6, <2>8 DEF SameBlocks
<1>3. e.reasoningOpen = FALSE \/ e.reasoningOpen = TRUE
  BY DEF Live, BlocksMatch
<1> QED BY <1>1, <1>2, <1>3

\* A block of text is open.
LEMMA TextOpens ==
    ASSUME NEW c, NEW e, Live(c, e)
    PROVE  Live(c, AEnsureText(e)) /\ AEnsureText(e).textOpen = TRUE
<1> DEFINE b == ACloseReasoning(e)
           x == [b EXCEPT !.textOpen = TRUE, !.textAt = b.next, !.next = @ + 1]
           item == Item("text", None, None)
           w == Write("block_start", b.next, item)
           z == Put(x, w)
<1>1. CASE e.textOpen = TRUE
  <2>1. AEnsureText(e) = e
    BY <1>1 DEF AEnsureText
  <2> QED BY <1>1, <2>1
<1>2. CASE e.textOpen = FALSE
  <2>1. AEnsureText(e) = z
    BY <1>2 DEF AEnsureText
  <2>2. Live(c, b) /\ b.textOpen = FALSE /\ b.reasoningOpen = FALSE
    BY <1>2, ReasoningCloses
  <2> HIDE DEF b
  <2>3. /\ b.next \in Nat /\ DOMAIN Heard(c, b).open = {}
        /\ DOMAIN Heard(c, b).closed = 0..(b.next - 1)
        /\ Untroubled(Heard(c, b)) /\ Listening(Heard(c, b))
    BY <2>2 DEF Live, BlocksMatch
  <2>4. /\ Writer(x) /\ Heard(c, x) = Heard(c, b) /\ x.textOpen = TRUE /\ x.reasoningOpen = FALSE
        /\ x.textAt = b.next /\ x.next = b.next + 1 /\ x.finished = FALSE
    BY <2>2 DEF Live, Writer, Heard, EncoderFields
  <2>5. "kind" \in DOMAIN item /\ item.kind = "text"
    BY DEF Item, Silent
  <2> HIDE DEF x, item
  <2>6. /\ Writer(z) /\ SameBlocks(z, x) /\ Heard(c, z) = Hear(Anthropic, Heard(c, b), w)
    BY <2>4, PutHeard
  <2>7. LET g == Hear(Anthropic, Heard(c, b), w)
        IN Untroubled(g) /\ Listening(g) /\ BlockOpen(g, b.next, "text", b.next + 1)
    BY <2>3, <2>5, BlockStarts
  <2> HIDE DEF z, w
  <2>8. Live(c, z)
    BY <2>4, <2>6, <2>7 DEF Live, BlocksMatch, SameBlocks
  <2> QED BY <2>1, <2>4, <2>6, <2>8 DEF SameBlocks
<1>3. e.textOpen = FALSE \/ e.textOpen = TRUE
  BY DEF Live, BlocksMatch
<1> QED BY <1>1, <1>2, <1>3

\* Reasoning is written.
LEMMA ReasoningWritten ==
    ASSUME NEW c, NEW e, Live(c, e), NEW ev
    PROVE  Live(c, AReasoning(e, ev))
<1> DEFINE o == AEnsureReasoning(e)
           x == [o EXCEPT !.sig = @ \o ev.sig]
           item == Item("reasoning", ev.delta, None)
           w == Write("block_delta", o.reasoningAt, item)
<1>1. AReasoning(e, ev) = e \/ AReasoning(e, ev) = x \/ AReasoning(e, ev) = Put(x, w)
  BY DEF AReasoning, PutIf
<1>2. Live(c, o) /\ o.reasoningOpen = TRUE
  BY ReasoningOpens
<1>3. item.kind = "reasoning"
  BY DEF Item, Silent
<1> HIDE DEF o, item
<1>4. DOMAIN x = DOMAIN o /\ x.out = o.out /\ SameBlocks(x, o)
  BY <1>2 DEF Live, Writer, EncoderFields, SameBlocks
<1> HIDE DEF x
<1>5. Live(c, x) /\ Heard(c, x) = Heard(c, o)
  BY <1>2, <1>4, StillLive
<1>6. /\ Writer(Put(x, w)) /\ SameBlocks(Put(x, w), x)
      /\ Heard(c, Put(x, w)) = Hear(Anthropic, Heard(c, o), w)
  BY <1>5, PutHeard DEF Live
<1>7. /\ Untroubled(Heard(c, o)) /\ Listening(Heard(c, o)) /\ o.textOpen = FALSE
      /\ BlockOpen(Heard(c, o), o.reasoningAt, "reasoning", o.next)
  BY <1>2 DEF Live, BlocksMatch
<1>8. LET g == Hear(Anthropic, Heard(c, o), w)
      IN Untroubled(g) /\ Listening(g) /\ BlockOpen(g, o.reasoningAt, "reasoning", o.next)
  BY <1>3, <1>7, BlockGrows
<1> DEFINE z == Put(x, w)
<1> HIDE DEF z, w
<1>9. z = Put(x, w)
  BY DEF z
<1>10. Live(c, z)
  BY <1>2, <1>4, <1>5, <1>6, <1>7, <1>8, <1>9 DEF Live, BlocksMatch, SameBlocks
<1> QED BY <1>1, <1>5, <1>9, <1>10

\* So is text.
LEMMA TextWritten ==
    ASSUME NEW c, NEW e, Live(c, e), NEW d
    PROVE  Live(c, AText(e, d))
<1> DEFINE o == AEnsureText(e)
           item == Item("text", d, None)
           w == Write("block_delta", o.textAt, item)
<1>1. AText(e, d) = e \/ AText(e, d) = Put(o, w)
  BY DEF AText
<1>2. Live(c, o) /\ o.textOpen = TRUE
  BY TextOpens
<1>3. item.kind = "text"
  BY DEF Item, Silent
<1> HIDE DEF o, item
<1>6. /\ Writer(Put(o, w)) /\ SameBlocks(Put(o, w), o)
      /\ Heard(c, Put(o, w)) = Hear(Anthropic, Heard(c, o), w)
  BY <1>2, PutHeard DEF Live
<1>7. /\ Untroubled(Heard(c, o)) /\ Listening(Heard(c, o)) /\ o.reasoningOpen = FALSE
      /\ BlockOpen(Heard(c, o), o.textAt, "text", o.next)
  BY <1>2 DEF Live, BlocksMatch
<1>8. LET g == Hear(Anthropic, Heard(c, o), w)
      IN Untroubled(g) /\ Listening(g) /\ BlockOpen(g, o.textAt, "text", o.next)
  BY <1>3, <1>7, BlockGrows
<1> DEFINE z == Put(o, w)
<1> HIDE DEF z, w
<1>9. z = Put(o, w)
  BY DEF z
<1>10. Live(c, z)
  BY <1>2, <1>6, <1>7, <1>8, <1>9 DEF Live, BlocksMatch, SameBlocks
<1> QED BY <1>1, <1>9, <1>10

\* A call is written whole.
LEMMA CallWritten ==
    ASSUME NEW c, NEW e, Live(c, e), NEW ev
    PROVE  Live(c, AToolDone(e, ev))
<1> DEFINE b == ACloseBlocks(e)
           old == ACall(e, ev.index)
           call == [old EXCEPT !.id = FirstNonEmpty(@, ev.id), !.name = FirstNonEmpty(@, ev.name),
                               !.args = FirstNonEmpty(ev.args, @)]
           at == b.next
           x == [b EXCEPT !.calls = At(@, ev.index, call), !.next = @ + 1]
           one == CallItem(call.id, call.name, None)
           two == CallItem(None, None, call.args)
           u == Write("block_start", at, one)
           v == Write("block_delta", at, two)
           w == Write("block_stop", at, Silent)
           y == Put(x, u)
           z == Put(y, v)
           a == Put(z, w)
<1>1. AToolDone(e, ev) = a
  BY DEF AToolDone
<1>2. /\ Live(c, b) /\ b.textOpen = FALSE /\ b.reasoningOpen = FALSE
      /\ at \in Nat /\ DOMAIN Heard(c, b).open = {} /\ DOMAIN Heard(c, b).closed = 0..(at - 1)
  BY BlocksClose
<1>3. "kind" \in DOMAIN one /\ one.kind = "call" /\ two.kind = "call"
  BY DEF CallItem, Silent
<1> HIDE DEF b, call, one, two
<1>4. /\ Writer(x) /\ Heard(c, x) = Heard(c, b) /\ x.textOpen = FALSE /\ x.reasoningOpen = FALSE
      /\ x.next = at + 1 /\ x.finished = FALSE
  BY <1>2 DEF Live, Writer, Heard, EncoderFields
<1>5. Untroubled(Heard(c, b)) /\ Listening(Heard(c, b))
  BY <1>2 DEF Live
<1> HIDE DEF x, at
<1>6. Writer(y) /\ SameBlocks(y, x) /\ Heard(c, y) = Hear(Anthropic, Heard(c, b), u)
  BY <1>4, PutHeard
<1>7. Untroubled(Heard(c, y)) /\ Listening(Heard(c, y)) /\ BlockOpen(Heard(c, y), at, "call", at + 1)
  <2>1. LET g == Hear(Anthropic, Heard(c, b), u)
        IN Untroubled(g) /\ Listening(g) /\ BlockOpen(g, at, "call", at + 1)
    BY <1>2, <1>3, <1>5, BlockStarts
  <2> HIDE DEF u, y
  <2> QED BY <1>6, <2>1
<1> HIDE DEF u, y
<1>8. Writer(z) /\ SameBlocks(z, y) /\ Heard(c, z) = Hear(Anthropic, Heard(c, y), v)
  BY <1>6, PutHeard
<1>9. Untroubled(Heard(c, z)) /\ Listening(Heard(c, z)) /\ BlockOpen(Heard(c, z), at, "call", at + 1)
  <2>1. LET g == Hear(Anthropic, Heard(c, y), v)
        IN Untroubled(g) /\ Listening(g) /\ BlockOpen(g, at, "call", at + 1)
    BY <1>3, <1>7, BlockGrows
  <2> HIDE DEF v, z
  <2> QED BY <1>8, <2>1
<1> HIDE DEF v, z
<1>10. Writer(a) /\ SameBlocks(a, z) /\ Heard(c, a) = Hear(Anthropic, Heard(c, z), w)
  BY <1>8, PutHeard
<1> DEFINE next == at + 1
<1>11. next = at + 1
  OBVIOUS
<1> HIDE DEF next
<1>12. BlockOpen(Heard(c, z), at, "call", next)
  BY <1>9, <1>11
<1>13. /\ Untroubled(Heard(c, a)) /\ Listening(Heard(c, a)) /\ next \in Nat
       /\ DOMAIN Heard(c, a).open = {} /\ DOMAIN Heard(c, a).closed = 0..(next - 1)
  <2>1. LET g == Hear(Anthropic, Heard(c, z), w)
        IN /\ Untroubled(g) /\ Listening(g) /\ next \in Nat
           /\ DOMAIN g.open = {} /\ DOMAIN g.closed = 0..(next - 1)
    BY <1>9, <1>12, BlockStops
  <2> HIDE DEF w, a
  <2> QED BY <1>10, <2>1
<1> HIDE DEF w, a
<1>14. a.textOpen = FALSE /\ a.reasoningOpen = FALSE /\ a.next = next /\ a.finished = FALSE /\ Writer(a)
  BY <1>4, <1>6, <1>8, <1>10, <1>11 DEF SameBlocks
<1>15. Live(c, a)
  BY <1>13, <1>14 DEF Live, BlocksMatch
<1> QED BY <1>1, <1>15

\* A reason is a word.
Worded(c) == c.reason # ""

\* There is always a reason to stop.
LEMMA StopWorded == \A reason : ToStopReason(reason) # ""
BY ZenonT(30) DEF ToStopReason

\* The client is told the reason.
LEMMA ReasonTold ==
    ASSUME NEW c, Untroubled(c), Listening(c), DOMAIN c.open = {},
           NEW w, w.type = "message_delta", Worded(w)
    PROVE  LET h == Hear(Anthropic, c, w) IN Untroubled(h) /\ Listening(h) /\ Worded(h)
<1> DEFINE h == [c EXCEPT !.reason = w.reason, !.refusal = w.refusal, !.usage = w.usage]
<1>1. HearAnthropic(c, w) = h
  <2>1. HearAnthropic(c, w) = [Breach(c, DOMAIN c.open # {}, "ended with items open")
                                 EXCEPT !.reason = w.reason, !.refusal = w.refusal, !.usage = w.usage]
    BY DEF HearAnthropic
  <2>2. Breach(c, DOMAIN c.open # {}, "ended with items open") = c
    BY DEF Breach
  <2> QED BY <2>1, <2>2
<1>2. Hear(Anthropic, c, w) = h
  <2> HIDE DEF h
  <2> QED BY <1>1, HearsAnthropic
<1>3. h.breaches = c.breaches /\ h.told = c.told /\ h.reason = w.reason /\ DOMAIN h = DOMAIN c
  BY DEF Untroubled, ClientFields
<1> HIDE DEF h
<1>4. Worded(h) /\ Listening(h)
  BY <1>3, Zenon DEF Worded, Listening
<1>5. Untroubled(h)
  BY <1>3 DEF Untroubled
<1> QED BY <1>2, <1>4, <1>5

\* It is told that the answer is complete.
LEMMA StopTold ==
    ASSUME NEW c, Untroubled(c), Listening(c), Worded(c), NEW w, w.type = "message_stop"
    PROVE  Untroubled(Hear(Anthropic, c, w))
<1> DEFINE h == [c EXCEPT !.told = "complete"]
<1>1. HearAnthropic(c, w) = h
  <2>1. HearAnthropic(c, w) = [Breach(c, c.reason = "", "stopped without a reason") EXCEPT !.told = "complete"]
    BY DEF HearAnthropic
  <2>2. Breach(c, c.reason = "", "stopped without a reason") = c
    BY Zenon DEF Breach, Worded
  <2> QED BY <2>1, <2>2
<1>2. Hear(Anthropic, c, w) = h
  <2> HIDE DEF h
  <2> QED BY <1>1, HearsAnthropic
<1>3. Untroubled(h)
  BY DEF Untroubled, ClientFields
<1> QED BY <1>2, <1>3

\* An error is told in any state.
LEMMA ErrorTold ==
    ASSUME NEW to, NEW c, Untroubled(c), Listening(c), NEW w, w.type = "error"
    PROVE  Untroubled(Hear(to, c, w))
<1>1. Hear(to, c, w) = [c EXCEPT !.told = "error"]
  BY DEF Hear, Listening
<1> QED BY <1>1 DEF Untroubled, ClientFields

\* An encoder and the client it writes to: nothing was wrong, and until the
\* stream is finished nothing will be.
Joint(c, e) == Writer(e) /\ Untroubled(Heard(c, e)) /\ (e.finished = TRUE \/ Live(c, e))

\* The stream is finished.
LEMMA FinishWritten ==
    ASSUME NEW c, NEW e, Joint(c, e), NEW reason, NEW usage
    PROVE  Joint(c, AFinish(e, reason, usage))
<1> DEFINE u == IF usage # ZeroUsage THEN usage ELSE e.usage
           uncached == IF u.in < u.cached THEN 0 ELSE u.in - u.cached
           left == [u EXCEPT !.in = uncached]
           stop == ToStopReason(reason)
           refusal == IF stop = "refusal" THEN FirstNonEmpty(e.refusal, NoExplanation) ELSE None
           delta == [Written EXCEPT !.type = "message_delta", !.reason = stop,
                                    !.refusal = refusal, !.usage = left]
           b == ACloseBlocks(e)
           f == [b EXCEPT !.usage = u, !.finished = TRUE]
           w == Write("message_stop", 0, Silent)
           y == Put(f, delta)
           z == Put(y, w)
<1>1. AFinish(e, reason, usage) = IF e.finished THEN e ELSE z
  BY DEF AFinish
<1>2. CASE e.finished = TRUE
  BY <1>1, <1>2
<1>3. CASE e.finished = FALSE
  <2>1. AFinish(e, reason, usage) = z /\ Live(c, e)
    BY <1>1, <1>3 DEF Joint
  <2>2. Live(c, b) /\ DOMAIN Heard(c, b).open = {}
    BY <2>1, BlocksClose
  <2>3. delta.type = "message_delta" /\ delta.reason = stop /\ w.type = "message_stop"
    BY DEF Written, Write
  <2>4. stop # ""
    BY StopWorded
  <2> HIDE DEF u, left, stop, refusal, b, delta, w
  <2>5. Worded(delta)
    BY <2>3, <2>4, Zenon DEF Worded
  <2>6. Writer(f) /\ Heard(c, f) = Heard(c, b) /\ f.finished = TRUE
    BY <2>2 DEF Live, Writer, Heard, EncoderFields
  <2> HIDE DEF f
  <2>7. Untroubled(Heard(c, b)) /\ Listening(Heard(c, b))
    BY <2>2 DEF Live
  <2>8. Writer(y) /\ SameBlocks(y, f) /\ Heard(c, y) = Hear(Anthropic, Heard(c, b), delta)
    BY <2>6, PutHeard
  <2>9. Untroubled(Heard(c, y)) /\ Listening(Heard(c, y)) /\ Worded(Heard(c, y))
    <3>1. LET h == Hear(Anthropic, Heard(c, b), delta) IN Untroubled(h) /\ Listening(h) /\ Worded(h)
      BY <2>2, <2>3, <2>5, <2>7, ReasonTold
    <3> HIDE DEF y
    <3> QED BY <2>8, <3>1
  <2> HIDE DEF y
  <2>10. Writer(z) /\ SameBlocks(z, y) /\ Heard(c, z) = Hear(Anthropic, Heard(c, y), w)
    BY <2>8, PutHeard
  <2>11. Untroubled(Heard(c, z))
    BY <2>3, <2>9, <2>10, StopTold
  <2> HIDE DEF z
  <2>12. z.finished = TRUE
    BY <2>6, <2>8, <2>10 DEF SameBlocks
  <2> QED BY <2>1, <2>10, <2>11, <2>12 DEF Joint
<1> QED BY <1>2, <1>3 DEF Joint, Live

\* Whatever event comes, what is written stays legal.
LEMMA EventWritten ==
    ASSUME NEW c, NEW e, Joint(c, e), NEW ev
    PROVE  Joint(c, EncodeAnthropic(e, ev))
<1>1. CASE e.finished = TRUE
  BY <1>1 DEF EncodeAnthropic
<1>2. CASE e.finished = FALSE
  <2>1. Live(c, e)
    BY <1>2 DEF Joint
  <2>2. \A x : Live(c, x) => Joint(c, x)
    BY DEF Live, Joint
  <2>3. /\ Live(c, AText(e, ev.delta)) /\ Live(c, AReasoning(e, ev)) /\ Live(c, AToolDone(e, ev))
    BY <2>1, TextWritten, ReasoningWritten, CallWritten
  <2>4. ASSUME NEW x, \/ \E v : x = [e EXCEPT !.refusal = v]
                      \/ \E v : x = [e EXCEPT !.usage = v]
                      \/ \E v : x = [e EXCEPT !.calls = v]
        PROVE  Live(c, x)
    <3>1. DOMAIN x = DOMAIN e /\ x.out = e.out /\ SameBlocks(x, e)
      BY <2>1, <2>4 DEF Live, Writer, EncoderFields, SameBlocks
    <3> QED BY <2>1, <3>1, StillLive
  <2>5. /\ \A v : Live(c, [e EXCEPT !.refusal = v]) /\ Live(c, [e EXCEPT !.usage = v])
                  /\ Live(c, [e EXCEPT !.calls = v])
    BY <2>4
  <2>6. Joint(c, AFinish(e, ev.reason, e.usage))
    BY FinishWritten
  <2> DEFINE z == [Put(e, ErrorWritten) EXCEPT !.finished = TRUE]
  <2>7. Joint(c, z)
    <3> DEFINE y == Put(e, ErrorWritten)
    <3>1. Writer(y) /\ Heard(c, y) = Hear(Anthropic, Heard(c, e), ErrorWritten)
      BY <2>1, PutHeard DEF Live
    <3>2. ErrorWritten.type = "error"
      BY DEF ErrorWritten, Written
    <3>3. Untroubled(Heard(c, y))
      BY <2>1, <3>1, <3>2, ErrorTold DEF Live
    <3> HIDE DEF y
    <3>4. Writer(z) /\ Heard(c, z) = Heard(c, y) /\ z.finished = TRUE
      BY <3>1 DEF Writer, Heard, EncoderFields, y
    <3> HIDE DEF z
    <3> QED BY <3>3, <3>4 DEF Joint
  <2> DEFINE r == [e EXCEPT !.refusal = @ \o ev.delta]
             s == [e EXCEPT !.calls = At(@, ev.index, ToolCall(ev.id, ev.name, None, ev.sig))]
             t == [e EXCEPT !.calls = At(@, ev.index, [ACall(e, ev.index) EXCEPT !.args = @ \o ev.delta])]
             u == [e EXCEPT !.usage = ev.usage]
  <2>8. Live(c, r) /\ Live(c, s) /\ Live(c, t) /\ Live(c, u)
    BY <2>5
  <2>9. EncodeAnthropic(e, ev) \in {AText(e, ev.delta), AReasoning(e, ev), AToolDone(e, ev),
                                    AFinish(e, ev.reason, e.usage), r, s, t, u, z, e}
    <3>1. EncodeAnthropic(e, ev) =
            CASE ev.type = "text_delta" -> AText(e, ev.delta)
              [] ev.type = "refusal_delta" -> r
              [] ev.type = "reasoning_delta" -> AReasoning(e, ev)
              [] ev.type = "tool_call_start" -> s
              [] ev.type = "tool_arguments_delta" -> t
              [] ev.type = "tool_call_done" -> AToolDone(e, ev)
              [] ev.type = "usage" -> u
              [] ev.type = "response_done" -> AFinish(e, ev.reason, e.usage)
              [] ev.type = "error" -> z
              [] OTHER -> e
      BY <1>2 DEF EncodeAnthropic
    <3> HIDE DEF r, s, t, u, z
    <3> QED BY <3>1
  <2> HIDE DEF r, s, t, u, z
  <2> QED BY <2>2, <2>3, <2>6, <2>7, <2>8, <2>9
<1> QED BY <1>1, <1>2 DEF Joint, Live

-----------------------------------------------------------------------------
(* What a client of Gemini's is told is legal                              *)

\* The folds that keep what is legal, by name.
LegalStep(p, x, y) ==
    CASE p[1] = "encode" -> Encode(p[2], x, y)
      [] p[1] = "collect" -> Collect(x, y)
      [] p[1] = "done" -> DoneTool(x, CallDone(y, None, None, None, None))

\* A client that collects items: what it was told stays.
Collecting(c, x) == Untroubled(x) /\ x.told = c.told /\ x.reason = c.reason

\* A list of events in which nothing but calls that are done follows the end of
\* the answer, and a reader that has read no more.
Ended(s) ==
    /\ Lst(s)
    /\ \A i, j \in DOMAIN s : i < j /\ s[i].type = "response_done" => s[j].type = "tool_call_done"

Stopping(r) == {"out", "order", "states"} \subseteq DOMAIN r /\ Ended(r.out) /\ Lst(r.order)

LegalKept(p, x) ==
    CASE p[1] = "encode" -> Joint(p[3], x)
      [] p[1] = "collect" -> Collecting(p[2], x)
      [] p[1] = "done" -> Stopping(x)

Legally == INSTANCE LeftFolds WITH Op <- LegalStep, Good <- LegalKept

\* The items that come together are collected: a fold.
LEMMA ItemsCollected ==
    ASSUME NEW c, NEW s, Untroubled(c), Lst(s)
    PROVE  Collecting(c, FoldLeft(Collect, c, s))
<1> DEFINE p == <<"collect", c>>
           D == DOMAIN s
           Value(k, T) == IF T = {} THEN c
                          ELSE Collect(k[T \ {Legally!LastOf(T)}], s[Legally!LastOf(T)])
           k == CHOOSE k : k = [T \in SUBSET D |-> Value(k, T)]
<1>1. D = 1..Len(s) /\ Len(s) \in Nat
  BY ListDomain
<1>2. \A x, y : LegalStep(p, x, y) = Collect(x, y) /\ (LegalKept(p, x) <=> Collecting(c, x))
  BY DEF LegalStep, LegalKept
<1>3. FoldLeft(Collect, c, s) = k[D]
  BY DEF FoldLeft, MapThenFoldSet, Max, Legally!LastOf
<1> HIDE DEF p, D
<1>4. \A l : Legally!Recurs(l, D, p, c, s) <=> l = [T \in SUBSET D |-> Value(l, T)]
  BY <1>2 DEF Legally!Recurs
<1>5. \E l : Legally!Recurs(l, D, p, c, s)
  BY <1>1, Legally!RecursionExists DEF D
<1>6. Legally!Recurs(k, D, p, c, s)
  <2> HIDE DEF Value
  <2> QED BY <1>4, <1>5
<1> HIDE DEF k
<1>7. \A x, y : Collecting(c, x) => Collecting(c, Collect(x, y))
  BY DEF Collecting, Untroubled, ClientFields, Collect
<1>8. \A x : \A i \in D : LegalKept(p, x) => LegalKept(p, LegalStep(p, x, s[i]))
  BY <1>2, <1>7
<1>9. LegalKept(p, c)
  BY <1>2 DEF Collecting
<1>10. LegalKept(p, k[D])
  BY <1>1, <1>6, <1>8, <1>9, Legally!FoldKeeps DEF D
<1> QED BY <1>2, <1>3, <1>10

\* A client that has read no finish: it waits for more, or was told of an error.
Failed(c) == c.told = "error"
Fresh(c) == Untroubled(c) /\ ((Listening(c) /\ ~Worded(c)) \/ Failed(c))

\* A chunk that the encoder for Gemini writes, or an error.
Chunk(w) == w.type \in {"chunk", "error"} /\ Lst(w.calls)

\* An error can be told at any time.
LEMMA GeminiHearsError ==
    ASSUME NEW c, Untroubled(c), NEW w, w.type = "error"
    PROVE  Untroubled(Hear(Gemini, c, w))
<1>1. CASE Listening(c)
  BY <1>1, ErrorTold
<1>2. CASE ~Listening(c)
  <2>1. Hear(Gemini, c, w) = Breach(c, FALSE, "more after the end")
    BY <1>2, Zenon DEF Hear, Listening
  <2> QED BY <2>1, NoBreach
<1> QED BY <1>1, <1>2

\* Nothing that is told a client that failed matters.
LEMMA FailedHears ==
    ASSUME NEW c, Failed(c), NEW w
    PROVE  Hear(Gemini, c, w) = c
<1>1. Hear(Gemini, c, w) = Breach(c, FALSE, "more after the end")
  BY Zenon DEF Hear, Failed
<1> QED BY <1>1, NoBreach

\* Before the finish anything may be told, and the finish.
LEMMA GeminiHears ==
    ASSUME NEW c, Fresh(c), NEW w, Chunk(w)
    PROVE  Untroubled(Hear(Gemini, c, w)) /\ (~Worded(w) => Fresh(Hear(Gemini, c, w)))
<1>1. CASE Failed(c)
  BY <1>1, FailedHears DEF Fresh
<1>2. CASE Listening(c) /\ ~Worded(c) /\ w.type = "error"
  <2>1. Hear(Gemini, c, w) = [c EXCEPT !.told = "error"]
    BY <1>2 DEF Hear, Listening
  <2> QED BY <2>1 DEF Untroubled, ClientFields, Fresh, Failed
<1>3. CASE Listening(c) /\ ~Worded(c) /\ w.type # "error"
  <2> DEFINE said == Opt(w.item # Silent, w.item) \o w.calls
             all == FoldLeft(Collect, c, said)
             usage == IF w.usage # ZeroUsage THEN w.usage ELSE all.usage
             reason == IF Worded(w) THEN w.reason ELSE all.reason
             told == IF Worded(w) THEN "complete" ELSE all.told
             h == [all EXCEPT !.begun = TRUE, !.usage = usage, !.reason = reason, !.told = told]
  <2>1. Lst(said)
    <3>1. Lst(Opt(w.item # Silent, w.item)) /\ Lst(w.calls)
      BY ListOpt DEF Chunk
    <3>2. said = Joined(Opt(w.item # Silent, w.item), w.calls)
      BY DEF Joined
    <3> HIDE DEF said
    <3> QED BY <3>1, <3>2, ListJoin
  <2>2. Collecting(c, all)
    <3> HIDE DEF said
    <3> QED BY <2>1, ItemsCollected DEF Fresh
  <2>3. HearGemini(c, w) = h
    <3>1. HearGemini(c, w) =
            [Breach(all, c.reason # "" /\ said # <<>>, "more after the finish")
               EXCEPT !.begun = TRUE,
                      !.usage = IF w.usage # ZeroUsage THEN w.usage ELSE @,
                      !.reason = IF w.reason # "" THEN w.reason ELSE @,
                      !.told = IF w.reason # "" THEN "complete" ELSE @]
      BY DEF HearGemini
    <3>2. Breach(all, c.reason # "" /\ said # <<>>, "more after the finish") = all
      <4> HIDE DEF all, said
      <4> QED BY <1>3, Zenon DEF Breach, Worded
    <3> HIDE DEF all, said
    <3> QED BY <3>1, <3>2 DEF Worded
  <2>4. Hear(Gemini, c, w) = h
    <3> HIDE DEF h
    <3> QED BY <1>3, <2>3 DEF Hear, Listening, Chat, Responses, Anthropic, Gemini
  <2> HIDE DEF all, said, usage
  <2>5. h.breaches = all.breaches /\ DOMAIN h = DOMAIN all /\ h.told = told /\ h.reason = reason
    BY <2>2 DEF Collecting, Untroubled, ClientFields
  <2> HIDE DEF h
  <2>6. Untroubled(h)
    BY <2>2, <2>5 DEF Collecting, Untroubled
  <2>7. ~Worded(w) => h.told = c.told /\ h.reason = c.reason
    BY <2>2, <2>5 DEF Collecting
  <2>8. ~Worded(w) => Fresh(h)
    BY <1>3, <2>6, <2>7, Zenon DEF Fresh, Listening, Worded
  <2> QED BY <2>4, <2>6, <2>8
<1> QED BY <1>1, <1>2, <1>3 DEF Fresh

\* An encoder for Gemini, and what its client has heard when it is told all
\* that waits to be written.
Sender(e) == {"out", "calls", "finished"} \subseteq DOMAIN e /\ Lst(e.out) /\ Lst(e.calls)
Received(c, e) == HearAll(Gemini, c, e.out)

\* What an event has the encoder write is one chunk or none.
LEMMA GeminiWrites ==
    ASSUME NEW ev
    PROVE  \/ GeminiChunk(ev) = <<>>
           \/ \E w : /\ GeminiChunk(ev) = <<w>> /\ Chunk(w)
                     /\ ev.type # "response_done" => ~Worded(w)
<1>0. Lst(<<>>)
  BY EmptyList
<1>1. \A x : Opt(TRUE, x) = <<x>>
  BY DEF Opt
<1>2. \A item : LET w == Write("chunk", 0, item) IN w.type = "chunk" /\ w.calls = <<>> /\ w.reason = ""
  BY DEF Write, Written
<1>3. \A u : LET w == [Written EXCEPT !.type = "chunk", !.usage = u]
             IN w.type = "chunk" /\ w.calls = <<>> /\ w.reason = ""
  BY DEF Written
<1>4. \A reason : LET w == [Written EXCEPT !.type = "chunk", !.reason = reason]
                  IN w.type = "chunk" /\ w.calls = <<>>
  BY DEF Written
<1>5. ErrorWritten.type = "error" /\ ErrorWritten.calls = <<>> /\ ErrorWritten.reason = ""
  BY DEF ErrorWritten, Written
<1>7. \A item : Chunk(Write("chunk", 0, item)) /\ ~Worded(Write("chunk", 0, item))
  BY <1>0, <1>2, Zenon DEF Chunk, Worded
<1>8. \A u : LET w == [Written EXCEPT !.type = "chunk", !.usage = u] IN Chunk(w) /\ ~Worded(w)
  BY <1>0, <1>3, Zenon DEF Chunk, Worded
<1>9. \A reason : Chunk([Written EXCEPT !.type = "chunk", !.reason = reason])
  BY <1>0, <1>4 DEF Chunk
<1>10. Chunk(ErrorWritten) /\ ~Worded(ErrorWritten)
  BY <1>0, <1>5, Zenon DEF Chunk, Worded
<1>11. CASE ev.type = "reasoning_delta"
  BY <1>1, <1>7, <1>11 DEF GeminiChunk
<1>12. CASE ev.type \in {"text_delta", "refusal_delta"}
  BY <1>1, <1>7, <1>12 DEF GeminiChunk
<1>13. CASE ev.type = "usage"
  BY <1>1, <1>8, <1>13 DEF GeminiChunk
<1>14. CASE ev.type = "response_done"
  BY <1>1, <1>9, <1>14 DEF GeminiChunk
<1>15. CASE ev.type = "error"
  BY <1>5, <1>10, <1>15 DEF GeminiChunk
<1>16. CASE ev.type \notin {"reasoning_delta", "text_delta", "refusal_delta", "usage", "response_done", "error"}
  BY <1>16 DEF GeminiChunk
<1> QED BY <1>11, <1>12, <1>13, <1>14, <1>15, <1>16

\* What is put out is heard after what was.
LEMMA MoreReceived ==
    ASSUME NEW c, NEW e, Sender(e), NEW w
    PROVE  /\ Lst(Append(e.out, w)) /\ e.out \o <<w>> = Append(e.out, w) /\ e.out \o <<>> = e.out
           /\ HearAll(Gemini, c, Append(e.out, w)) = Hear(Gemini, Received(c, e), w)
<1>1. Lst(e.out)
  BY DEF Sender
<1>2. Lst(Append(e.out, w))
  BY <1>1, ListAppend
<1>3. HearAll(Gemini, c, Append(e.out, w)) = Hear(Gemini, Received(c, e), w)
  BY <1>1, HearMore DEF Received
<1>4. e.out \o <<w>> = Append(e.out, w) /\ e.out \o <<>> = e.out
  <2> DEFINE T == {e.out[i] : i \in DOMAIN e.out} \union {w}
             s == e.out
  <2>1. s \in Seq(T)
    <3>1. s \in Seq({e.out[i] : i \in DOMAIN e.out})
      BY <1>1 DEF Lst
    <3>2. {e.out[i] : i \in DOMAIN e.out} \subseteq T
      OBVIOUS
    <3> HIDE DEF T
    <3> QED BY <3>1, <3>2
  <2>2. w \in T
    OBVIOUS
  <2> HIDE DEF T, s
  <2>3. s \o <<w>> = Append(s, w) /\ s \o <<>> = s
    BY <2>1, <2>2
  <2> QED BY <2>3 DEF s
<1> QED BY <1>2, <1>3, <1>4

\* Until the finish every event leaves the client fresh; the finish is the
\* last that it must be told.
LEMMA SenderEvent ==
    ASSUME NEW c, NEW e, Sender(e), NEW ev
    PROVE  LET x == Encode(Gemini, e, ev)
           IN /\ Sender(x)
              /\ Fresh(Received(c, e)) => Untroubled(Received(c, x))
              /\ Fresh(Received(c, e)) /\ ev.type # "response_done" => Fresh(Received(c, x))
              /\ Untroubled(Received(c, e)) /\ ev.type = "tool_call_done" => Untroubled(Received(c, x))
<1> DEFINE y == EncodeGemini(e, ev)
           x == Encode(Gemini, e, ev)
           h == Received(c, e)
<1>1. x = [y EXCEPT !.finished = @ \/ ev.type = "error"]
  BY DEF Encode, Chat, Responses, Anthropic, Gemini
<1>2. CASE ev.type = "tool_call_done"
  <2>1. y = [e EXCEPT !.calls = Append(@, ev)]
    BY <1>2 DEF EncodeGemini
  <2>2. Lst(Append(e.calls, ev))
    BY ListAppend DEF Sender
  <2> HIDE DEF y
  <2>3. Sender(x) /\ x.out = e.out
    BY <1>1, <2>1, <2>2 DEF Sender
  <2> HIDE DEF x
  <2> QED BY <1>2, <2>3 DEF Received, Fresh, x
<1>3. CASE ev.type = "response_done" /\ e.calls # <<>>
  <2> DEFINE calls == GeminiCalls(e)
             reason == ToGeminiReason(ev.reason)
             w == [Written EXCEPT !.type = "chunk", !.calls = calls, !.reason = reason]
             z == [e EXCEPT !.calls = <<>>]
  <2>1. y = Put(z, w)
    BY <1>3 DEF EncodeGemini
  <2>2. Lst(calls) /\ Lst(<<>>)
    BY WaitingList, EmptyList DEF Sender
  <2> HIDE DEF calls, reason
  <2>3. Chunk(w)
    BY <2>2 DEF Chunk, Written
  <2> HIDE DEF y, w
  <2>4. x.out = Append(e.out, w) /\ x.calls = <<>> /\ {"out", "calls", "finished"} \subseteq DOMAIN x
    BY <1>1, <2>1 DEF Sender, Put
  <2> HIDE DEF x
  <2>5. Sender(x) /\ Received(c, x) = Hear(Gemini, h, w)
    BY <2>2, <2>4, MoreReceived DEF Sender, Received
  <2>6. Fresh(h) => Untroubled(Received(c, x))
    BY <2>3, <2>5, GeminiHears
  <2> QED BY <1>3, <2>5, <2>6 DEF x
<1>4. CASE ev.type # "tool_call_done" /\ ~(ev.type = "response_done" /\ e.calls # <<>>)
  <2>1. y = [e EXCEPT !.out = @ \o GeminiChunk(ev)]
    BY <1>4 DEF EncodeGemini
  <2> HIDE DEF y
  <2>2. x.out = e.out \o GeminiChunk(ev) /\ x.calls = e.calls /\ {"out", "calls", "finished"} \subseteq DOMAIN x
    BY <1>1, <2>1 DEF Sender
  <2> HIDE DEF x
  <2>3. CASE GeminiChunk(ev) = <<>>
    <3>1. x.out = e.out
      BY <2>2, <2>3, MoreReceived
    <3> QED BY <1>4, <2>2, <3>1 DEF Sender, Received, Fresh, x
  <2>4. CASE GeminiChunk(ev) # <<>>
    <3>1. PICK w : GeminiChunk(ev) = <<w>> /\ Chunk(w) /\ (ev.type # "response_done" => ~Worded(w))
      BY <2>4, GeminiWrites
    <3>2. x.out = Append(e.out, w)
      BY <2>2, <3>1, MoreReceived
    <3>3. Sender(x) /\ Received(c, x) = Hear(Gemini, h, w)
      BY <2>2, <3>2, MoreReceived DEF Sender, Received
    <3>4. Fresh(h) => Untroubled(Received(c, x)) /\ (~Worded(w) => Fresh(Received(c, x)))
      BY <3>1, <3>3, GeminiHears
    <3> QED BY <1>4, <3>1, <3>3, <3>4 DEF x
  <2> QED BY <2>3, <2>4
<1> QED BY <1>2, <1>3, <1>4

\* An error may be written at any time.
LEMMA SenderError ==
    ASSUME NEW c, NEW e, Sender(e), Untroubled(Received(c, e))
    PROVE  Untroubled(Received(c, EncodeGemini(e, ErrorEvent)))
<1> DEFINE x == EncodeGemini(e, ErrorEvent)
<1>1. x = [e EXCEPT !.out = @ \o <<ErrorWritten>>]
  <2>1. ErrorEvent.type = "error"
    BY EventTypes
  <2>2. GeminiChunk(ErrorEvent) = <<ErrorWritten>>
    BY <2>1 DEF GeminiChunk
  <2> QED BY <2>1, <2>2 DEF EncodeGemini
<1> HIDE DEF x
<1>2. x.out = Append(e.out, ErrorWritten)
  BY <1>1, MoreReceived DEF Sender
<1>3. Received(c, x) = Hear(Gemini, Received(c, e), ErrorWritten)
  BY <1>2, MoreReceived DEF Received
<1>4. ErrorWritten.type = "error"
  BY DEF ErrorWritten, Written
<1> QED BY <1>3, <1>4, GeminiHearsError DEF x

\* Events that follow in order.
SendStep(p, x, y) == Encode(Gemini, x, y)
SendKept(p, x) ==
    /\ Sender(x) /\ Untroubled(Received(p[1].client, x))
    /\ (\A i \in 1..p[2] : p[1].events[i].type # "response_done") => Fresh(Received(p[1].client, x))

Sending == INSTANCE LeftFolds WITH Op <- SendStep, Good <- SendKept

\* The events of a chunk are written in turn.
WriteAll(to, e, s) == FoldLeft(LAMBDA x, ev : Encode(to, x, ev), e, s)

\* Events of which none but calls follow the end of the answer leave the client
\* fresh if they do not end it: a fold.
LEMMA EventsSent ==
    ASSUME NEW to, to = Gemini, NEW c, NEW e, NEW s, Sender(e), Fresh(Received(c, e)), Ended(s)
    PROVE  LET x == WriteAll(to, e, s)
           IN /\ Sender(x) /\ Untroubled(Received(c, x))
              /\ Quiet("held", s) => Fresh(Received(c, x))
<1> DEFINE p == [client |-> c, events |-> s]
           n == Len(s)
           D == DOMAIN s
           Value(k, T) == IF T = {} THEN e
                          ELSE Encode(to, k[T \ {Sending!LastOf(T)}], s[Sending!LastOf(T)])
           k == CHOOSE k : k = [T \in SUBSET D |-> Value(k, T)]
<1>1. D = 1..n /\ n \in Nat
  BY ListDomain DEF Ended
<1>2. \A x, y : SendStep(p, x, y) = Encode(to, x, y)
  BY DEF SendStep
<1>3. WriteAll(to, e, s) = k[D]
  BY DEF WriteAll, FoldLeft, MapThenFoldSet, Max, Sending!LastOf
<1> DEFINE Still(j) == \A i \in 1..j : s[i].type # "response_done"
<1>4. \A j, x : SendKept(<<p, j>>, x) <=>
                  /\ Sender(x) /\ Untroubled(Received(c, x))
                  /\ Still(j) => Fresh(Received(c, x))
  BY DEF SendKept
<1> HIDE DEF p, D, n
<1>5. \A l : Sending!Recurs(l, D, p, e, s) <=> l = [T \in SUBSET D |-> Value(l, T)]
  BY <1>2 DEF Sending!Recurs
<1>6. \E l : Sending!Recurs(l, D, p, e, s)
  BY <1>1, Sending!RecursionExists DEF D, n
<1>7. Sending!Recurs(k, D, p, e, s)
  <2> HIDE DEF Value
  <2> QED BY <1>5, <1>6
<1> HIDE DEF k
<1>8. ASSUME NEW j \in 1..n, NEW x, SendKept(<<p, j - 1>>, x)
      PROVE  SendKept(<<p, j>>, SendStep(p, x, s[j]))
  <2> DEFINE y == Encode(Gemini, x, s[j])
  <2>1. /\ Sender(x) /\ Untroubled(Received(c, x))
        /\ Still(j - 1) => Fresh(Received(c, x))
    BY <1>4, <1>8
  <2>2. /\ Sender(y)
        /\ Fresh(Received(c, x)) => Untroubled(Received(c, y))
        /\ Fresh(Received(c, x)) /\ s[j].type # "response_done" => Fresh(Received(c, y))
        /\ Untroubled(Received(c, x)) /\ s[j].type = "tool_call_done" => Untroubled(Received(c, y))
    BY <2>1, SenderEvent
  <2> HIDE DEF y
  <2>3. Still(j) => Still(j - 1) /\ s[j].type # "response_done"
    BY <1>1
  <2>4. Still(j - 1) \/ s[j].type = "tool_call_done"
    <3> SUFFICES ASSUME NEW i \in 1..(j - 1), s[i].type = "response_done"
                 PROVE  s[j].type = "tool_call_done"
      OBVIOUS
    <3>1. i \in D /\ j \in D /\ i < j
      BY <1>1
    <3> QED BY <3>1 DEF Ended, D
  <2> HIDE DEF Still
  <2>5. Sender(y) /\ Untroubled(Received(c, y)) /\ (Still(j) => Fresh(Received(c, y)))
    BY <2>1, <2>2, <2>3, <2>4
  <2>6. SendStep(p, x, s[j]) = y
    BY DEF SendStep, y
  <2> QED BY <1>4, <2>5, <2>6
<1>9. SendKept(<<p, 0>>, e)
  BY <1>4 DEF Fresh
<1>10. SendKept(<<p, n>>, k[1..n])
  BY <1>1, <1>7, <1>8, <1>9, Sending!FoldReaches
<1>11. Quiet("held", s) => Still(n)
  BY <1>1 DEF Quiet, D
<1> HIDE DEF Still
<1> QED BY <1>1, <1>3, <1>4, <1>10, <1>11

\* So is the end of the stream.
LEMMA EndSent ==
    ASSUME NEW c, NEW e, Sender(e), Untroubled(Received(c, e)), NEW usage, NEW ok
    PROVE  Untroubled(Received(c, EncodeEnd(Gemini, e, usage, ok)))
<1>1. EncodeEnd(Gemini, e, usage, ok) = IF ok \/ e.finished THEN e ELSE EncodeGemini(e, ErrorEvent)
  BY DEF EncodeEnd, Chat, Responses, Anthropic, Gemini
<1> QED BY <1>1, SenderError

-----------------------------------------------------------------------------
(* Where the end of an answer is in what a reader tells                    *)

\* Events that do not end it, and one more.
LEMMA EndedLast ==
    /\ \A s : Quiet("held", s) => Ended(s)
    /\ \A s, e : Quiet("held", s) => Ended(Append(s, e))
    /\ \A s, e : Ended(s) /\ e.type = "tool_call_done" => Ended(Append(s, e))
<1>1. \A s : Quiet("held", s) => Ended(s)
  BY DEF Quiet, Ended
<1>2. ASSUME NEW s, NEW e, Lst(s)
      PROVE  LET t == Append(s, e)
             IN /\ Lst(t) /\ DOMAIN s = 1..Len(s) /\ Len(s) \in Nat /\ DOMAIN t = 1..(Len(s) + 1)
                /\ \A i \in 1..Len(s) : t[i] = s[i]
                /\ t[Len(s) + 1] = e
  <2>1. Lst(Append(s, e)) /\ DOMAIN s = 1..Len(s) /\ Len(s) \in Nat
    BY <1>2, ListAppend, ListDomain
  <2> DEFINE T == {s[i] : i \in DOMAIN s} \union {e}
  <2>2. s \in Seq(T)
    <3>1. s \in Seq({s[i] : i \in DOMAIN s})
      BY <1>2 DEF Lst
    <3>2. {s[i] : i \in DOMAIN s} \subseteq T
      OBVIOUS
    <3> HIDE DEF T
    <3> QED BY <3>1, <3>2
  <2>3. e \in T
    OBVIOUS
  <2> HIDE DEF T
  <2> QED BY <2>1, <2>2, <2>3
<1>3. ASSUME NEW s, NEW e, Ended(s),
             (\A i \in DOMAIN s : s[i].type # "response_done") \/ e.type = "tool_call_done"
      PROVE  Ended(Append(s, e))
  <2> DEFINE t == Append(s, e)
             n == Len(s)
  <2>1. /\ Lst(t) /\ DOMAIN s = 1..n /\ n \in Nat /\ DOMAIN t = 1..(n + 1)
        /\ \A i \in 1..n : t[i] = s[i]
        /\ t[n + 1] = e
    BY <1>2, <1>3 DEF Ended
  <2> HIDE DEF t, n
  <2>2. ASSUME NEW i \in DOMAIN t, NEW j \in DOMAIN t, i < j, t[i].type = "response_done"
        PROVE  t[j].type = "tool_call_done"
    <3>1. i \in DOMAIN s /\ (j \in DOMAIN s \/ j = n + 1)
      BY <2>1, <2>2
    <3> QED BY <1>3, <2>1, <2>2, <3>1 DEF Ended
  <2> QED BY <2>1, <2>2 DEF Ended, t
<1>4. \A s, e : Quiet("held", s) => Ended(Append(s, e))
  BY <1>1, <1>3 DEF Quiet
<1>5. \A s, e : Ended(s) /\ e.type = "tool_call_done" => Ended(Append(s, e))
  BY <1>3
<1> QED BY <1>1, <1>4, <1>5

\* A call that is done may follow.
LEMMA StoppingDone == ASSUME NEW r, NEW e, Stopping(r) PROVE Stopping(DoneTool(r, e))
<1> DEFINE s == Ensure(r, e)
           t == s.states[e.index]
           args == FirstNonEmpty(e.args, t.args)
           u == [s EXCEPT !.states[e.index].args = args, !.states[e.index].done = TRUE]
           done == CallDone(e.index, t.id, t.name, args, t.sig)
<1>1. Stopping(s)
  <2>1. Lst(Append(r.order, e.index))
    BY ListAppend DEF Stopping
  <2> QED BY <2>1 DEF Stopping, Ensure
<1>2. done.type = "tool_call_done"
  BY EventTypes
<1>3. DoneTool(r, e) = IF t.done THEN s ELSE Emit(u, done)
  BY DEF DoneTool
<1> HIDE DEF s, t, args
<1>4. Stopping(u)
  BY <1>1 DEF Stopping
<1> HIDE DEF u, done
<1>5. Ended(Append(u.out, done))
  BY <1>2, <1>4, EndedLast DEF Stopping
<1>6. Stopping(Emit(u, done))
  BY <1>4, <1>5 DEF Stopping, Emit
<1> QED BY <1>1, <1>3, <1>6

\* So may all of them: a fold.
LEMMA StoppingDoneAll == ASSUME NEW r, Stopping(r) PROVE Stopping(DoneAll(r))
<1> DEFINE p == <<"done">>
           D == DOMAIN r.order
           Value(k, T) == IF T = {} THEN r
                          ELSE DoneTool(k[T \ {Legally!LastOf(T)}], CallDone(r.order[Legally!LastOf(T)], None, None, None, None))
           k == CHOOSE k : k = [T \in SUBSET D |-> Value(k, T)]
<1>1. D = 1..Len(r.order) /\ Len(r.order) \in Nat
  BY ListDomain DEF Stopping
<1>2. \A x, y : /\ LegalStep(p, x, y) = DoneTool(x, CallDone(y, None, None, None, None))
                /\ LegalKept(p, x) <=> Stopping(x)
  BY DEF LegalStep, LegalKept
<1>3. DoneAll(r) = k[D]
  BY DEF DoneAll, FoldLeft, MapThenFoldSet, Max, Legally!LastOf
<1> HIDE DEF p, D
<1>4. \A l : Legally!Recurs(l, D, p, r, r.order) <=> l = [T \in SUBSET D |-> Value(l, T)]
  BY <1>2 DEF Legally!Recurs
<1>5. \E l : Legally!Recurs(l, D, p, r, r.order)
  BY <1>1, Legally!RecursionExists DEF D
<1>6. Legally!Recurs(k, D, p, r, r.order)
  <2> HIDE DEF Value
  <2> QED BY <1>4, <1>5
<1> HIDE DEF k
<1>7. \A x : \A i \in D : LegalKept(p, x) => LegalKept(p, LegalStep(p, x, r.order[i]))
  BY <1>2, StoppingDone
<1>8. LegalKept(p, r)
  BY <1>2
<1>9. LegalKept(p, k[D])
  BY <1>1, <1>6, <1>7, <1>8, Legally!FoldKeeps DEF D
<1> QED BY <1>2, <1>3, <1>9

\* A chunk either does not end the answer, or its last event does and the loop
\* is left.
LEMMA ReadTells ==
    ASSUME NEW protocol \in {Chat, Responses, Anthropic}, NEW r, NEW c,
           Reading("held", r), Midway("any", protocol, c)
    PROVE  \/ Reading("held", Read(protocol, r, c))
           \/ /\ protocol # Chat
              /\ \E x, e : Reading("held", x) /\ Read(protocol, r, c) = Over(x, e)
<1>1. CASE protocol = Chat
  <2>1. Midway("held", Chat, c)
    BY <1>1 DEF Midway, Chat, Responses, Anthropic, Gemini
  <2> QED BY <1>1, <2>1, ReadingRead DEF Protocols
<1>2. CASE protocol = Responses
  <2>1. Lst(c.output)
    BY <1>2 DEF Midway
  <2>2. CASE c.kind = "final"
    <3> DEFINE response == FromResponses(c.output, c.status, c.why, c.usage)
    <3>1. Lst(response.calls)
      BY <2>1, FinalCalls
    <3>2. Read(protocol, r, c) = ResponsesFinal(r, response)
      <4> HIDE DEF response
      <4>1. ReadResponses(r, c) = ResponsesFinal(r, FromResponses(c.output, c.status, c.why, c.usage))
        BY <2>2 DEF ReadResponses
      <4> QED BY <1>2, <4>1 DEF Read, response, Chat, Responses, Anthropic, Gemini
    <3> HIDE DEF response
    <3>3. \E x, e : Reading("held", x) /\ ResponsesFinal(r, response) = Over(x, e)
      BY <3>1, FinalTold
    <3> QED BY <1>2, <3>2, <3>3 DEF Chat, Responses
  <2>3. CASE c.kind # "final"
    <3>1. Midway("held", Responses, c)
      BY <1>2, <2>3 DEF Midway, Chat, Responses, Anthropic, Gemini
    <3> QED BY <1>2, <3>1, ReadingRead DEF Protocols
  <2> QED BY <2>2, <2>3
<1>3. CASE protocol = Anthropic
  <2>1. CASE c.kind = "message_stop"
    <3> DEFINE e == ResponseDone(r.reason)
    <3>1. ReadAnthropic(r, c) = IF "message_delta" \notin r.seen THEN Refuse(r) ELSE Over(r, e)
      BY <2>1 DEF ReadAnthropic, Over
    <3> HIDE DEF e
    <3>2. Read(protocol, r, c) = Refuse(r) \/ Read(protocol, r, c) = Over(r, e)
      BY <1>3, <3>1 DEF Read, Chat, Responses, Anthropic, Gemini
    <3>3. protocol # Chat
      BY <1>3 DEF Chat, Anthropic
    <3> QED BY <3>2, <3>3, ReadingRefuse
  <2>2. CASE c.kind # "message_stop"
    <3>1. Midway("held", Anthropic, c)
      BY <1>3, <2>2 DEF Midway, Chat, Responses, Anthropic, Gemini
    <3> QED BY <1>3, <3>1, ReadingRead DEF Protocols
  <2> QED BY <2>1, <2>2
<1> QED BY <1>1, <1>2, <1>3

\* What a reader tells when it is left, having read no end of the answer but one
\* it kept back, ends with that.
LEMMA LeftEnded ==
    ASSUME NEW protocol \in {Chat, Responses, Anthropic}, NEW r, NEW broken, Reading("held", r)
    PROVE  Ended(Leave(protocol, r, broken).out)
<1> DEFINE a == AfterLoop(protocol, r)
<1>1. Ended(LeaveChat(r).out)
  <2> DEFINE d == DoneAll(r)
  <2>1. Reading("held", d)
    BY ReadingDoneAll
  <2>2. LeaveChat(r) = IF d.held = <<>> THEN d ELSE [Emit(d, d.held[1]) EXCEPT !.terminated = TRUE]
    BY DEF LeaveChat
  <2> HIDE DEF d
  <2> DEFINE t == Append(d.out, d.held[1])
  <2>3. LeaveChat(r).out = d.out \/ LeaveChat(r).out = t
    <3>1. "out" \in DOMAIN d
      BY <2>1 DEF Reading
    <3> QED BY <2>2, <3>1 DEF Emit
  <2>4. Ended(d.out) /\ Ended(t)
    BY <2>1, EndedLast DEF Reading
  <2> HIDE DEF t
  <2> QED BY <2>3, <2>4
<1>2. Ended(LeaveAnthropic(r).out)
  <2>1. Reading("held", DoneAll(r)) /\ UsageEvent(r.usage).type # "response_done"
    BY ReadingDoneAll, EventTypes
  <2>2. Reading("held", LeaveAnthropic(r))
    BY <2>1, ReadingEmitIf DEF LeaveAnthropic
  <2> QED BY <2>2, EndedLast DEF Reading
<1>3. Ended(r.out)
  BY EndedLast DEF Reading
<1>4. Ended(a.out) /\ "out" \in DOMAIN a
  <2>1. "out" \in DOMAIN LeaveChat(r) /\ "out" \in DOMAIN LeaveAnthropic(r) /\ "out" \in DOMAIN r
    <3>1. Reading("held", DoneAll(r))
      BY ReadingDoneAll
    <3> QED BY <3>1 DEF LeaveChat, LeaveAnthropic, EmitIf, Emit, Reading
  <2> QED BY <1>1, <1>2, <1>3, <2>1 DEF AfterLoop
<1>5. Leave(protocol, r, broken)
        = [a EXCEPT !.result = IF broken \/ a.failed \/ ~a.terminated THEN "error" ELSE "ok"]
  BY DEF Leave
<1> HIDE DEF a
<1>6. Leave(protocol, r, broken).out = a.out
  BY <1>4, <1>5
<1> QED BY <1>4, <1>6

\* So does one whose last event has ended the answer: only calls that are done
\* follow it.
LEMMA LeftOver ==
    ASSUME NEW protocol \in {Responses, Anthropic}, NEW x, NEW e, Reading("held", x), NEW broken
    PROVE  Ended(Leave(protocol, Over(x, e), broken).out)
<1> DEFINE r == Over(x, e)
           a == AfterLoop(protocol, r)
<1>1. Stopping(r) /\ r.terminated = TRUE
  <2>1. Ended(Append(x.out, e))
    BY EndedLast DEF Reading
  <2> QED BY <2>1 DEF Over, Emit, Reading, Stopping
<1> HIDE DEF r
<1>2. Stopping(LeaveAnthropic(r))
  <2>1. LeaveAnthropic(r) = DoneAll(r)
    BY <1>1 DEF LeaveAnthropic, EmitIf
  <2> QED BY <1>1, <2>1, StoppingDoneAll
<1>3. Stopping(a)
  BY <1>1, <1>2 DEF AfterLoop, Chat, Responses, Anthropic
<1>4. Leave(protocol, r, broken)
        = [a EXCEPT !.result = IF broken \/ a.failed \/ ~a.terminated THEN "error" ELSE "ok"]
  BY DEF Leave
<1> HIDE DEF a
<1>5. Leave(protocol, r, broken).out = a.out
  BY <1>3, <1>4 DEF Stopping
<1> QED BY <1>3, <1>5 DEF Stopping, r

\* What a chunk has passed on, for the providers but Gemini: a reader that has
\* read no end, or one that returns and tells the end, if at all, last.
Passes(q) == (Reading("held", q) \/ Returned("any", q)) /\ Ended(q.out)

\* Every chunk passes on such a reader.
LEMMA DeliveredEnded ==
    ASSUME ask.upstream \in {Chat, Responses, Anthropic}, Reading("held", reader), NEW chunk,
           Midway("any", ask.upstream, chunk), Deliver(chunk)
    PROVE  \E q : Passes(q) /\ PassOn(q)
<1> DEFINE r == Read(ask.upstream, reader, chunk)
           q == IF r.over = "" THEN r ELSE Leave(ask.upstream, r, FALSE)
<1>1. PassOn(q)
  BY DEF Deliver
<1>2. \/ Reading("held", r)
      \/ /\ ask.upstream # Chat
         /\ \E x, e : Reading("held", x) /\ r = Over(x, e)
  BY ReadTells
<1>3. Reading("any", r)
  <2>1. Reading("any", reader)
    BY DEF Reading, Quiet
  <2> QED BY <2>1, ReadingRead DEF Protocols
<1> HIDE DEF r
<1>4. Returned("any", Leave(ask.upstream, r, FALSE))
  BY <1>3, LeftReading DEF Protocols
<1>5. CASE Reading("held", r)
  <2>1. Ended(Leave(ask.upstream, r, FALSE).out) /\ Ended(r.out)
    BY <1>5, LeftEnded, EndedLast DEF Reading
  <2>2. Passes(q)
    BY <1>4, <1>5, <2>1 DEF Passes
  <2> QED BY <1>1, <2>2
<1>6. CASE ask.upstream # Chat /\ \E x, e : Reading("held", x) /\ r = Over(x, e)
  <2>1. PICK x, e : Reading("held", x) /\ r = Over(x, e)
    BY <1>6
  <2>2. r.over = "break"
    BY <2>1 DEF Over, Emit, Reading
  <2>3. q = Leave(ask.upstream, r, FALSE)
    BY <2>2
  <2>4. Ended(Leave(ask.upstream, r, FALSE).out)
    BY <1>6, <2>1, LeftOver
  <2>5. Passes(q)
    BY <1>4, <2>3, <2>4 DEF Passes
  <2> QED BY <1>1, <2>5
<1> QED BY <1>2, <1>5, <1>6

-----------------------------------------------------------------------------
(* What is legal stays so                                                  *)

\* What they write is legal: a fold.
LEMMA EventsWritten ==
    ASSUME NEW to, to = Anthropic, NEW c, NEW e, NEW s, Joint(c, e), Lst(s)
    PROVE  Joint(c, WriteAll(to, e, s))
<1> DEFINE p == <<"encode", to, c>>
           D == DOMAIN s
           Value(k, T) == IF T = {} THEN e
                          ELSE Encode(to, k[T \ {Legally!LastOf(T)}], s[Legally!LastOf(T)])
           k == CHOOSE k : k = [T \in SUBSET D |-> Value(k, T)]
<1>1. D = 1..Len(s) /\ Len(s) \in Nat
  BY ListDomain
<1>2. \A x, y : LegalStep(p, x, y) = Encode(to, x, y) /\ (LegalKept(p, x) <=> Joint(c, x))
  BY DEF LegalStep, LegalKept
<1>3. WriteAll(to, e, s) = k[D]
  BY DEF WriteAll, FoldLeft, MapThenFoldSet, Max, Legally!LastOf
<1> HIDE DEF p, D
<1>4. \A l : Legally!Recurs(l, D, p, e, s) <=> l = [T \in SUBSET D |-> Value(l, T)]
  BY <1>2 DEF Legally!Recurs
<1>5. \E l : Legally!Recurs(l, D, p, e, s)
  BY <1>1, Legally!RecursionExists DEF D
<1>6. Legally!Recurs(k, D, p, e, s)
  <2> HIDE DEF Value
  <2> QED BY <1>4, <1>5
<1> HIDE DEF k
<1>7. \A x, y : Joint(c, x) => Joint(c, Encode(to, x, y))
  BY EventWritten DEF Encode, Chat, Responses, Anthropic, Gemini
<1>8. \A x : \A i \in D : LegalKept(p, x) => LegalKept(p, LegalStep(p, x, s[i]))
  BY <1>2, <1>7
<1>9. LegalKept(p, e)
  BY <1>2
<1>10. LegalKept(p, k[D])
  BY <1>1, <1>6, <1>8, <1>9, Legally!FoldKeeps DEF D
<1> QED BY <1>2, <1>3, <1>10

\* So is the end of the stream.
LEMMA EndWritten ==
    ASSUME NEW c, NEW e, Joint(c, e), NEW usage, NEW ok
    PROVE  Joint(c, EncodeEnd(Anthropic, e, usage, ok))
<1>1. EncodeEnd(Anthropic, e, usage, ok) = IF ok THEN AFinish(e, "stop", usage)
                                           ELSE EncodeAnthropic(e, ErrorEvent)
  BY DEF EncodeEnd, Chat, Responses, Anthropic, Gemini
<1> QED BY <1>1, FinishWritten, EventWritten

\* When all of it is heard, what follows is legal again.
LEMMA WrittenHeard ==
    ASSUME NEW c, NEW e, Joint(c, e)
    PROVE  Joint(Heard(c, e), [e EXCEPT !.out = <<>>]) /\ Untroubled(Heard(c, e))
<1> DEFINE f == [e EXCEPT !.out = <<>>]
           h == Heard(c, e)
<1>1. /\ DOMAIN f = DOMAIN e /\ f.out = <<>> /\ f.finished = e.finished /\ SameBlocks(f, e)
  BY DEF Joint, Writer, EncoderFields, SameBlocks
<1>2. Lst(<<>>)
  BY EmptyList
<1>3. Heard(h, f) = h
  BY <1>1, HearNone DEF Heard
<1> HIDE DEF f, h
<1>4. Writer(f)
  BY <1>1, <1>2 DEF Joint, Writer
<1>5. ASSUME Live(c, e) PROVE Live(h, f)
  BY <1>1, <1>3, <1>4, <1>5 DEF Live, h, SameBlocks, BlocksMatch
<1> QED BY <1>1, <1>3, <1>4, <1>5 DEF Joint, h, f

\* A client of Anthropic's protocol or of Gemini's, or one that asked for a whole
\* answer.
Blocked == ask.client = Anthropic \/ ask.client = Gemini \/ ~ask.stream

\* What StreamLegal needs to be inductive for them.  For Anthropic, what the
\* encoder has open is what the client has open, and its next block the one the
\* client expects; for Gemini, the client has been told of no finish, and no
\* reader has read one and gone on but Chat's, which keeps it back.
LegalInv ==
    /\ TypeInv /\ ask.client # ask.upstream
    /\ Blocked => Untroubled(client)
    /\ Open /\ ask.stream /\ ask.client = Anthropic => Joint(client, encoder)
    /\ Open /\ ask.stream /\ ask.client = Gemini =>
          /\ Reading("held", reader) /\ Sender(encoder) /\ encoder.out = <<>>
          /\ Fresh(client)

\* It holds at first: the message was begun.
LEMMA LegalInit == Init => LegalInv
<1> SUFFICES ASSUME Init PROVE LegalInv
  OBVIOUS
<1>1. PICK a \in Asks, w \in Answers :
         ask = a /\ encoder = NewEncoderOf(a.client, a.usage) /\ a.client # a.upstream
  BY DEF Init, Asked
<1>2. client = NewClient /\ TypeInv
  BY TypeInit DEF Init
<1>3. Untroubled(client) /\ Listening(client)
  BY <1>2 DEF NewClient, Untroubled, ClientFields, Listening
<1>4. ASSUME ask.client = Anthropic PROVE Joint(client, encoder)
  <2> DEFINE u == a.usage
             x == [NewEncoder EXCEPT !.includeUsage = u]
             v == Write("message_start", 0, Silent)
  <2>1. encoder = Put(x, v)
    BY <1>1, <1>4 DEF NewEncoderOf, Responses, Anthropic
  <2>2. /\ EncoderFields \subseteq DOMAIN x /\ x.out = <<>> /\ x.next = 0 /\ x.finished = FALSE
        /\ x.textOpen = FALSE /\ x.reasoningOpen = FALSE
    BY DEF NewEncoder, EncoderFields
  <2>3. v.type = "message_start"
    BY WriteFields
  <2> HIDE DEF x, v
  <2>4. Lst(<<>>) /\ DOMAIN <<>> = {}
    BY EmptyList
  <2>5. Writer(x) /\ Heard(client, x) = client
    BY <2>2, <2>4, HearNone DEF Writer, Heard
  <2>6. /\ Writer(encoder) /\ SameBlocks(encoder, x)
        /\ Heard(client, encoder) = Hear(Anthropic, client, v)
    BY <2>1, <2>5, PutHeard
  <2> DEFINE h == [client EXCEPT !.begun = TRUE]
  <2>7. Hear(Anthropic, client, v) = h
    <3>1. HearAnthropic(client, v) = h
      BY <2>3 DEF HearAnthropic
    <3> HIDE DEF h
    <3> QED BY <1>3, <2>3, <3>1, HearsAnthropic
  <2>8. Untroubled(h) /\ Listening(h) /\ h.open = <<>> /\ h.closed = <<>>
    BY <1>2 DEF NewClient, Untroubled, ClientFields, Listening
  <2> HIDE DEF h
  <2>9. BlocksMatch(encoder, h)
    <3>1. 0..(0 - 1) = {}
      OBVIOUS
    <3> QED BY <2>2, <2>4, <2>6, <2>8, <3>1 DEF BlocksMatch, SameBlocks
  <2>10. Live(client, encoder)
    BY <2>2, <2>6, <2>7, <2>8, <2>9 DEF Live, SameBlocks
  <2> QED BY <2>10 DEF Joint, Live
<1>5. ASSUME ask.client = Gemini
      PROVE  Reading("held", reader) /\ Sender(encoder) /\ encoder.out = <<>> /\ Fresh(client)
  <2>1. encoder = [NewEncoder EXCEPT !.includeUsage = a.usage]
    BY <1>1, <1>5 DEF NewEncoderOf, Chat, Responses, Anthropic, Gemini
  <2>2. Sender(encoder) /\ encoder.out = <<>>
    BY <2>1, EmptyList DEF NewEncoder, Sender
  <2>3. ~Worded(client)
    BY <1>2, Zenon DEF NewClient, Worded
  <2> QED BY <1>3, <2>2, <2>3, ActorsInit DEF Fresh
<1> QED BY <1>1, <1>2, <1>3, <1>4, <1>5 DEF LegalInv

\* What is passed on keeps it.
LEMMA LegalPassed ==
    ASSUME LegalInv, Open, ask.stream, NEW q, Reading("any", q) \/ Returned("any", q), PassOn(q),
           ask.client = Gemini => Passes(q), Progress(sent')
    PROVE  LegalInv'
<1> DEFINE Passed(x, f, heard) ==
              /\ reader' = [x EXCEPT !.out = <<>>]
              /\ encoder' = [f EXCEPT !.out = <<>>]
              /\ client' = heard
              /\ shown' = ShownBy(heard)
              /\ record' = IF x.result = "" THEN record
                           ELSE [status |-> IF x.result = "ok" THEN 200 ELSE 502, usage |-> x.usage]
              /\ memory' \in Remembered(x.out)
              /\ UNCHANGED <<ask, answer>>
<1>1. TypeInv' /\ ask' = ask
  BY TypePassed, KeepsAsk DEF LegalInv
<1>2. CASE ask.client = Anthropic
  <2>1. PICK r \in {q} :
      \E e \in {FoldLeft(LAMBDA x, ev : Encode(ask.client, x, ev), encoder, r.out)} :
      \E f \in {IF r.result = "" THEN e ELSE EncodeEnd(ask.client, e, r.usage, r.result = "ok")} :
      \E heard \in {FoldLeft(LAMBDA c, w : Hear(ask.client, c, w), client, f.out)} :
          Passed(r, f, heard)
    BY DEF PassOn
  <2>2. PICK e \in {FoldLeft(LAMBDA x, ev : Encode(ask.client, x, ev), encoder, r.out)} :
      \E f \in {IF r.result = "" THEN e ELSE EncodeEnd(ask.client, e, r.usage, r.result = "ok")} :
      \E heard \in {FoldLeft(LAMBDA c, w : Hear(ask.client, c, w), client, f.out)} :
          Passed(r, f, heard)
    BY <2>1
  <2>3. e = WriteAll(ask.client, encoder, r.out)
    BY <2>2 DEF WriteAll
  <2>4. Joint(client, e)
    <3>1. Lst(r.out)
      BY <2>1 DEF Reading, Returned, Quiet
    <3>2. Joint(client, encoder)
      BY <1>2 DEF LegalInv
    <3>3. Joint(client, WriteAll(ask.client, encoder, r.out))
      BY <1>2, <3>1, <3>2, EventsWritten
    <3> QED BY <2>3, <3>3
  <2>5. PICK f \in {IF r.result = "" THEN e ELSE EncodeEnd(ask.client, e, r.usage, r.result = "ok")} :
      \E heard \in {FoldLeft(LAMBDA c, w : Hear(ask.client, c, w), client, f.out)} :
          Passed(r, f, heard)
    BY <2>2
  <2>6. Joint(client, f)
    <3> DEFINE ok == r.result = "ok"
    <3>1. f = e \/ f = EncodeEnd(Anthropic, e, r.usage, ok)
      BY <1>2, <2>5
    <3> HIDE DEF ok
    <3> QED BY <2>4, <3>1, EndWritten
  <2>7. client' = HearAll(ask.client, client, f.out) /\ encoder' = [f EXCEPT !.out = <<>>]
    BY <2>5 DEF HearAll
  <2>8. client' = Heard(client, f)
    BY <1>2, <2>7 DEF Heard
  <2>9. Untroubled(client') /\ Joint(client', encoder')
    BY <2>6, <2>7, <2>8, WrittenHeard
  <2>10. ask'.client # Gemini
    BY <1>1, <1>2 DEF Anthropic, Gemini
  <2> QED BY <1>1, <2>9, <2>10 DEF LegalInv
<1>3. CASE ask.client = Gemini
  <2>1. PICK r \in {q} :
      \E e \in {FoldLeft(LAMBDA x, ev : Encode(ask.client, x, ev), encoder, r.out)} :
      \E f \in {IF r.result = "" THEN e ELSE EncodeEnd(ask.client, e, r.usage, r.result = "ok")} :
      \E heard \in {FoldLeft(LAMBDA c, w : Hear(ask.client, c, w), client, f.out)} :
          Passed(r, f, heard)
    BY DEF PassOn
  <2>2. PICK e \in {FoldLeft(LAMBDA x, ev : Encode(ask.client, x, ev), encoder, r.out)} :
      \E f \in {IF r.result = "" THEN e ELSE EncodeEnd(ask.client, e, r.usage, r.result = "ok")} :
      \E heard \in {FoldLeft(LAMBDA c, w : Hear(ask.client, c, w), client, f.out)} :
          Passed(r, f, heard)
    BY <2>1
  <2>3. e = WriteAll(ask.client, encoder, r.out)
    BY <2>2 DEF WriteAll
  <2>4. /\ Sender(e) /\ Untroubled(Received(client, e))
        /\ Quiet("held", r.out) => Fresh(Received(client, e))
    <3>1. Ended(r.out)
      BY <1>3, <2>1 DEF Passes
    <3>2. Sender(encoder) /\ Fresh(Received(client, encoder))
      BY <1>3, HearNone DEF LegalInv, Received
    <3>3. LET x == WriteAll(ask.client, encoder, r.out)
          IN /\ Sender(x) /\ Untroubled(Received(client, x))
             /\ Quiet("held", r.out) => Fresh(Received(client, x))
      BY <1>3, <3>1, <3>2, EventsSent
    <3> QED BY <2>3, <3>3
  <2>5. PICK f \in {IF r.result = "" THEN e ELSE EncodeEnd(ask.client, e, r.usage, r.result = "ok")} :
      \E heard \in {FoldLeft(LAMBDA c, w : Hear(ask.client, c, w), client, f.out)} :
          Passed(r, f, heard)
    BY <2>2
  <2>6. Untroubled(Received(client, f))
    <3> DEFINE ok == r.result = "ok"
    <3>1. f = e \/ f = EncodeEnd(Gemini, e, r.usage, ok)
      BY <1>3, <2>5
    <3> HIDE DEF ok
    <3> QED BY <2>4, <3>1, EndSent
  <2>7. /\ client' = HearAll(ask.client, client, f.out) /\ encoder' = [f EXCEPT !.out = <<>>]
        /\ reader' = [r EXCEPT !.out = <<>>]
        /\ record' = IF r.result = "" THEN record
                     ELSE [status |-> IF r.result = "ok" THEN 200 ELSE 502, usage |-> r.usage]
    BY <2>5 DEF HearAll
  <2>8. client' = Received(client, f)
    BY <1>3, <2>7 DEF Received
  <2>9. CASE Reading("held", q)
    <3>1. r = q /\ r.result = "" /\ Quiet("held", r.out)
      BY <2>1, <2>9 DEF Reading
    <3>2. f = e
      BY <2>5, <3>1
    <3>3. Reading("held", reader')
      BY <2>7, <2>9, <3>1, EmptyList DEF Reading, Quiet
    <3>4. Sender(encoder') /\ encoder'.out = <<>>
      BY <2>4, <2>7, <3>2, EmptyList DEF Sender
    <3>5. Fresh(client')
      BY <2>4, <2>8, <3>1, <3>2
    <3>6. Untroubled(client')
      BY <2>6, <2>8
    <3> QED BY <1>1, <1>3, <3>3, <3>4, <3>5, <3>6 DEF LegalInv, Anthropic, Gemini
  <2>10. CASE Returned("any", q)
    <3> DEFINE u == r.usage
               won == [status |-> IF r.result = "ok" THEN 200 ELSE 502, usage |-> u]
    <3>1. r.result = "ok" \/ r.result = "error"
      BY <2>1, <2>10 DEF Returned
    <3>2. record' = won
      BY <2>7, <3>1
    <3>3. won.status \in {200, 502}
      OBVIOUS
    <3> HIDE DEF won
    <3>4. ~Open'
      <4>1. SUFFICES ASSUME record' = NoRecord PROVE FALSE
        BY DEF Open
      <4>2. record'.status \in {200, 502}
        BY <3>2, <3>3
      <4> QED BY <4>1, <4>2, NoneRecorded
    <3>5. Untroubled(client')
      BY <2>6, <2>8
    <3> QED BY <1>1, <3>4, <3>5 DEF LegalInv
  <2> QED BY <1>3, <2>9, <2>10 DEF Passes
<1>4. CASE ask.client # Anthropic /\ ask.client # Gemini
  BY <1>1, <1>4 DEF LegalInv, Blocked
<1> QED BY <1>2, <1>3, <1>4

\* So does every chunk.
LEMMA LegalDelivered ==
    ASSUME LegalInv, Open, ask.stream, NEW chunk, Midway("any", ask.upstream, chunk), Deliver(chunk),
           Progress(sent')
    PROVE  LegalInv'
<1>1. CASE ask.client # Gemini
  <2>1. PICK q : (Reading("any", q) \/ Returned("any", q)) /\ PassOn(q)
    BY Delivered DEF LegalInv, TypeInv, Asks
  <2> QED BY <1>1, <2>1, LegalPassed
<1>2. CASE ask.client = Gemini
  <2>1. ask.upstream \in {Chat, Responses, Anthropic} /\ Reading("held", reader)
    BY <1>2 DEF LegalInv, TypeInv, Asks, Protocols
  <2>2. PICK q : Passes(q) /\ PassOn(q)
    BY <2>1, DeliveredEnded
  <2>3. Reading("any", q) \/ Returned("any", q)
    BY <2>2 DEF Passes, Reading, Quiet
  <2> QED BY <2>2, <2>3, LegalPassed
<1> QED BY <1>1, <1>2

\* Every step keeps it.
LEMMA LegalNext == LegalInv /\ [Next]_vars => LegalInv'
<1> SUFFICES ASSUME LegalInv, [Next]_vars PROVE LegalInv'
  OBVIOUS
<1>1. TypeInv /\ TypeInv'
  BY TypeNext DEF LegalInv
<1>2. CASE ChunkArrives
  <2>1. PICK s \in NextChunks(ask.upstream, ask.terse, answer, sent) : sent' = s[2] /\ Deliver(s[1])
    BY <1>2 DEF ChunkArrives
  <2>2. Midway("any", ask.upstream, s[1])
    <3>1. ask.upstream \in Protocols /\ Lst(answer.parts) /\ Progress(sent)
      BY <1>1 DEF TypeInv, Asks
    <3>2. Progress(s[2]) /\ ("any" = "any" => Midway("any", ask.upstream, s[1]))
      BY <2>1, <3>1, NextMidway
    <3> QED BY <3>2
  <2>3. Progress(sent')
    BY <1>1 DEF TypeInv
  <2> QED BY <1>2, <2>1, <2>2, <2>3, LegalDelivered DEF ChunkArrives
<1>3. CASE BadChunkArrives
  <2>1. PICK c \in BadChunks(ask.upstream) : Deliver(c)
    BY <1>3 DEF BadChunkArrives
  <2>2. Midway("any", ask.upstream, c)
    BY <1>1, BadMidway DEF TypeInv, Asks
  <2>3. Progress(sent')
    BY <1>1 DEF TypeInv
  <2> QED BY <1>3, <2>1, <2>2, <2>3, LegalDelivered DEF BadChunkArrives
<1>4. CASE BodyEnds
  <2>1. PICK broken \in BOOLEAN : PassOn(Leave(ask.upstream, reader, broken))
    BY <1>4 DEF BodyEnds
  <2>2. Returned("any", Leave(ask.upstream, reader, broken))
    BY <1>1, <1>4, LeftReading DEF TypeInv, Asks, BodyEnds
  <2>3. Progress(sent')
    BY <1>1 DEF TypeInv
  <2>4. ASSUME ask.client = Gemini PROVE Passes(Leave(ask.upstream, reader, broken))
    <3>1. ask.upstream \in {Chat, Responses, Anthropic} /\ Reading("held", reader)
      BY <1>1, <1>4, <2>4 DEF LegalInv, TypeInv, Asks, Protocols, BodyEnds
    <3> QED BY <2>2, <3>1, LeftEnded DEF Passes
  <2> QED BY <1>4, <2>1, <2>2, <2>3, <2>4, LegalPassed DEF BodyEnds
<1>5. CASE WholeArrives
  <2> DEFINE r == FromProvider(ask.upstream, answer, Request)
             g == ToClient(ask.client, r)
             c == FoldLeft(Collect, client, g.items)
             heard == [c EXCEPT !.reason = g.reason, !.refusal = g.refusal, !.usage = g.usage,
                                !.told = "complete", !.begun = TRUE]
  <2>1. client' = heard /\ ask' = ask /\ ~ask.stream
    BY <1>5 DEF WholeArrives
  <2>2. Lst(g.items)
    <3>1. ask.client \in Protocols /\ ask.upstream \in Protocols /\ Lst(answer.parts)
      BY <1>1 DEF TypeInv, Asks
    <3>2. Lst(r.calls)
      BY <3>1, WholeCalls
    <3> HIDE DEF r
    <3> QED BY <3>1, <3>2, WholeItems
  <2> HIDE DEF g
  <2>3. Untroubled(client)
    BY <2>1 DEF LegalInv, Blocked
  <2>4. Untroubled(c)
    BY <2>2, <2>3, ItemsCollected DEF Collecting
  <2> HIDE DEF c
  <2>5. Untroubled(heard)
    BY <2>4 DEF Untroubled, ClientFields
  <2> HIDE DEF heard
  <2> QED BY <1>1, <2>1, <2>5 DEF LegalInv
<1>6. CASE AnswerRefused
  <2>1. PICK status \in {400, 502} : record' = [NoRecord EXCEPT !.status = status]
    BY <1>6 DEF AnswerRefused
  <2>2. client' = [client EXCEPT !.told = "error"] /\ ask' = ask
    BY <1>6 DEF AnswerRefused
  <2>3. record'.status = status
    BY <2>1 DEF NoRecord
  <2>4. ~Open'
    BY <2>3 DEF Open, NoRecord
  <2>5. Untroubled(client) => Untroubled(client')
    BY <2>2 DEF Untroubled, ClientFields
  <2> QED BY <1>1, <2>2, <2>4, <2>5 DEF LegalInv, Blocked
<1>7. CASE UNCHANGED vars
  BY <1>1, <1>7 DEF vars, LegalInv, Blocked, Open
<1> QED BY <1>2, <1>3, <1>4, <1>5, <1>6, <1>7 DEF Next

\* What a client of Anthropic's protocol or of Gemini's is written is legal,
\* whichever provider it comes from and wherever that stops, for any answers
\* with AnswersAssumption; so is every whole answer, in every pair of protocols.
\* For Gemini, legal allows a finish and an error after each other, as Hear does.
THEOREM LegalAnswers ==
    Spec => []((ask.client = Anthropic \/ ask.client = Gemini \/ ~ask.stream) => StreamLegal)
<1>1. LegalInv => ((ask.client = Anthropic \/ ask.client = Gemini \/ ~ask.stream) => StreamLegal)
  BY DEF LegalInv, Blocked, Untroubled, StreamLegal
<1> QED BY <1>1, LegalInit, LegalNext, PTL DEF Spec
=============================================================================
