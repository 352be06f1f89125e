------------------------------ MODULE KeyPool ------------------------------
(***************************************************************************)
(* KeyState: the provider keys one replica may use, the cursor of their    *)
(* rotation and the keys that cool down.  Every operation takes the mutex  *)
(* of the state, so each is a function from a pool to a pool.              *)
(*                                                                         *)
(* A key is a record of its provider and its name.  A target of a route    *)
(* names a provider and an upstream model; cooldowns are kept per target   *)
(* (CooldownModel) and name of key.  An entry whose time has come is no    *)
(* longer in "cooling": how long a cooldown lasts, and the count of hits   *)
(* that decides it, are left out, and so are the messages of the last      *)
(* errors, which only the admin page reads.                                *)
(***************************************************************************)
EXTENDS Integers, Sequences, FiniteSets, FiniteSetsExt, SequencesExt

CONSTANTS
    Keys,      \* the provider keys
    Targets    \* what a route can point to: a provider and an upstream model

ASSUME KeyPoolAssumption ==
    /\ IsFiniteSet(Keys)
    /\ \A k \in Keys : {"provider", "name"} \subseteq DOMAIN k
    /\ \A t \in Targets : {"provider", "model"} \subseteq DOMAIN t

\* cooldownKey, and keyCooldownStorageKey in Redis.
CooldownId(t, k) == <<t, k.name>>
Ids == {CooldownId(t, k) : t \in Targets, k \in Keys}

Pool == [keys : Seq(Keys), next : Nat, cooling : SUBSET Ids]

keyMatchesTarget(k, t) == k.provider = t.provider

Holds(p, k) == \E i \in DOMAIN p.keys : p.keys[i] = k

\* (No key is in a pool twice: the keys are rows of provider_keys.)
AvailableFor(p, t) == Cardinality({k \in Keys : Holds(p, k) /\ keyMatchesTarget(k, t)})

\* The key i places after the cursor, and the places NextFor would stop at.
At(p, i) == p.keys[((p.next + i) % Len(p.keys)) + 1]
Usable(p, t, k) == keyMatchesTarget(k, t) /\ CooldownId(t, k) \notin p.cooling
Stops(p, t) == {i \in 0..(Len(p.keys) - 1) : Usable(p, t, At(p, i))}

\* Mutant of NextFor: the cursor stays on the key that was given out.
NextForStuck(p, t) ==
    LET i == Min(Stops(p, t))
    IN  [key |-> At(p, i), pool |-> [p EXCEPT !.next = (p.next + i) % Len(p.keys)]]

\* NextFor, when there is a key to give out: the first usable one from the
\* cursor on, with the cursor moved past it.
NextFor(p, t) ==
    LET i == Min(Stops(p, t))
    IN  [key |-> At(p, i), pool |-> [p EXCEPT !.next = (p.next + i + 1) % Len(p.keys)]]

\* MarkExhaustedUntil and MarkRedisExhausted; MarkHealthy.
Cool(p, id) == [p EXCEPT !.cooling = @ \union {id}]
MarkHealthy(p, id) == [p EXCEPT !.cooling = @ \ {id}]

\* KeyState.Remove: the cursor keeps its number unless it has fallen off the end, and
\* the cooldowns go of every key of that name, whatever its provider.
RemoveKey(p, k) ==
    LET rest == RemoveFirst(p.keys, k)
    IN  [keys    |-> rest,
         next    |-> IF rest = <<>> THEN 0 ELSE p.next % Len(rest),
         cooling |-> {id \in p.cooling : id[2] # k.name}]

Flush(p) == [p EXCEPT !.cooling = {}]

Replace(keys) == [keys |-> keys, next |-> 0, cooling |-> {}]
=============================================================================
