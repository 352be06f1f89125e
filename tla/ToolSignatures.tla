---------------------------- MODULE ToolSignatures ----------------------------
(***************************************************************************)
(* The thought signatures of tool calls (tool_signatures.go).  Gemini signs *)
(* its calls and wants the signature back with the call, but most clients   *)
(* have no place for it: each replica keeps those it saw in a map, with a   *)
(* copy in Redis.  This is the map of one user and one model.               *)
(***************************************************************************)
EXTENDS Canonical, FiniteSets

CONSTANTS MaxToolSignatures,     \* maxToolSignatureEntries
          MaxFailedWrites        \* a bound: how many writes to Redis fail together

ASSUME SignatureAssumption == MaxToolSignatures \in Nat \ {0} /\ MaxFailedWrites \in Nat

\* The replica an exchange went through, and another one.
Replicas == {"here", "there"}

\* local is [sig, at] by key for every replica, shared the copy in Redis;
\* lost names what has been forgotten, or was never kept.
NoMemory == [local |-> [r \in Replicas |-> <<>>], shared |-> <<>>, now |-> 0, lost |-> {}]

IdKey(id) == <<"id", id>>
\* A mutant: the key of a function leaves out its arguments.
FunctionKeyOfName(name, args) == <<"fn", name, EmptyObject>>

\* normalizeToolSignatureArgs: absent arguments are an empty object.
FunctionKey(name, args) == <<"fn", name, ObjectOf(args)>>

\* A mutant: the identifier is no key.
KeysOfFunction(call) ==
    IF call.sig = None \/ call.name = None THEN {} ELSE {FunctionKey(call.name, call.args)}

KeysOf(call) ==
    IF call.sig = None THEN {}
    ELSE {k \in {IdKey(call.id), FunctionKey(call.name, call.args)} : k[2] # None}

Override(f, g) == [k \in DOMAIN f \union DOMAIN g |-> IF k \in DOMAIN g THEN g[k] ELSE f[k]]

\* A mutant: one too many stays.
TrimmedLate(m) ==
    {[k \in K |-> m[k]] :
       K \in {K \in SUBSET DOMAIN m :
                IF Cardinality(DOMAIN m) <= MaxToolSignatures + 1 THEN K = DOMAIN m
                ELSE Cardinality(K) = MaxToolSignatures + 1}}

\* trimToolSignatures: the oldest go; of two as old, either.
Trimmed(m) ==
    {[k \in K |-> m[k]] :
       K \in {K \in SUBSET DOMAIN m :
                /\ IF Cardinality(DOMAIN m) <= MaxToolSignatures THEN K = DOMAIN m
                   ELSE Cardinality(K) = MaxToolSignatures
                /\ \A j \in DOMAIN m \ K, k \in K : m[j].at <= m[k].at}}

Keep(memory, r, entries) ==
    LET next == Override(memory.local[r],
                         [k \in DOMAIN entries |-> [sig |-> entries[k], at |-> memory.now]])
    IN {[memory EXCEPT !.local[r] = m, !.now = @ + 1,
                       !.lost = @ \union (IF m = next THEN {} ELSE {"evicted"})] :
          m \in Trimmed(next)}

\* What rememberToolSignatures leaves: of two calls with a key the later one's
\* signature; any write to Redis may fail, and nobody is told.
Remember(memory, r, calls) ==
    LET of(k) == {n \in DOMAIN calls : k \in KeysOf(calls[n])}
        entries == [k \in UNION {KeysOf(calls[n]) : n \in DOMAIN calls} |->
                      calls[CHOOSE n \in of(k) : \A m \in of(k) : m <= n].sig]
        keys == DOMAIN entries
    IN IF keys = {} THEN {memory}
       ELSE UNION {{[m EXCEPT !.shared = Override(@, [k \in written |-> entries[k]]),
                              !.lost = @ \union (IF written = keys THEN {} ELSE {"write"})] :
                      m \in Keep(memory, r, entries)} :
                   written \in {K \in SUBSET keys : Cardinality(keys \ K) <= MaxFailedWrites}}

\* toolSignature: the map, or Redis, whose answer is adopted.  The ways it can
\* go, as [sig, memory].
Recall(memory, r, key, reachable) ==
    CASE key \in DOMAIN memory.local[r] ->
             {[sig |-> memory.local[r][key].sig, memory |-> memory]}
      [] reachable /\ key \notin DOMAIN memory.local[r] /\ key \in DOMAIN memory.shared ->
             {[sig |-> memory.shared[key], memory |-> m] :
                m \in Keep(memory, r, [k \in {key} |-> memory.shared[k]])}
      [] OTHER -> {[sig |-> None, memory |-> memory]}

\* applyToolSignatures, of one call: by its identifier, else by name and arguments.
Sign(memory, r, part, reachable) ==
    UNION {IF byId.sig # None THEN {byId}
           ELSE Recall(byId.memory, r, FunctionKey(part.name, part.args), reachable) :
             byId \in Recall(memory, r, IdKey(part.id), reachable)}

\* applyToolSignatures, of the parts of a message: [parts, memory].
SignParts(memory, r, parts, reachable) ==
    FoldLeft(LAMBDA ways, p :
                UNION {IF p.type # "tool_call" \/ p.sig # None
                       THEN {[w EXCEPT !.parts = Append(@, p)]}
                       ELSE {[parts |-> Append(w.parts, [p EXCEPT !.sig = s.sig]),
                              memory |-> s.memory] :
                               s \in Sign(w.memory, r, p, reachable)} : w \in ways},
             {[parts |-> <<>>, memory |-> memory]}, parts)

SignMessages(memory, r, messages, reachable) ==
    FoldLeft(LAMBDA ways, m :
                UNION {{[messages |-> Append(w.messages, [m EXCEPT !.parts = s.parts]),
                         memory |-> s.memory] :
                          s \in SignParts(w.memory, r, m.parts, reachable)} : w \in ways},
             {[messages |-> <<>>, memory |-> memory]}, messages)
==============================================================================
