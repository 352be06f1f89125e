------------------------ MODULE AdminSessionsProofs ------------------------
(***************************************************************************)
(* Theorems about AdminSessions, for any users, tokens and handlers, any   *)
(* times to live and any bounds.                                           *)
(***************************************************************************)
EXTENDS AdminSessions, FiniteSetTheorems, TLAPS

-----------------------------------------------------------------------------
(* Types, and what a handler holds                                         *)

\* What the place of a handler in its code says about what it holds.
Placed(q) ==
    /\ q.pc \in {"marker", "renew", "acting"} => q.token \in Tokens
    /\ q.pc \in {"issue", "store", "marker", "renew", "acting", "update"} => q.session \in Session
    /\ q.pc \in {"update", "members", "stamp", "wipe"} => q.target \in Users
    /\ q.pc = "update" => q.want \in Row

HandlerInv == TypeOK /\ \A h \in Handlers : Placed(hd[h])

\* Two handlers that differ at most in whether a day has ended.
Kept(q, p) ==
    /\ q.pc = p.pc /\ q.token = p.token /\ q.session = p.session /\ q.target = p.target
    /\ q.seen = p.seen /\ q.want = p.want /\ q.members = p.members
    /\ q.at = p.at /\ q.after = p.after

LEMMA IdleType == Idle \in Handler /\ Placed(Idle)
BY SessionsAssumption DEF Idle, Handler, Placed, PCs, Instant

LEMMA RootRow == Root \in Row /\ Root # None
<1>1. Root \in Row
  BY DEF Root, Row
<1> QED BY <1>1, SessionsAssumption

LEMMA InitHandler == Init => HandlerInv
<1> SUFFICES ASSUME Init PROVE HandlerInv
  OBVIOUS
<1>1. PICK seed \in Seeds : users = [u \in Users |-> IF u \in seed THEN Root ELSE None]
  BY DEF Init
<1>2. users \in [Users -> Row \union {None}]
  BY <1>1 DEF Root, Row
<1>3. clock \in Instant /\ day \in 0..MaxDay
  BY SessionsAssumption DEF Init, Instant
<1>4. hd \in [Handlers -> Handler] /\ \A h \in Handlers : Placed(hd[h])
  BY IdleType DEF Init
<1>5. born \in [Tokens -> Instant] /\ revoked \in [Users -> Instant]
  BY SessionsAssumption DEF Init, Instant
<1>6. /\ sessions \in [Tokens -> Session \union {None}]
      /\ index \in [Users -> SUBSET Tokens]
      /\ marker \in [Users -> Marker \union {None}]
      /\ crossed \in BOOLEAN /\ straddled \in BOOLEAN
  BY DEF Init
<1> QED BY <1>2, <1>3, <1>4, <1>5, <1>6 DEF HandlerInv, TypeOK

\* A step that puts a sound record in the place of one handler.
LEMMA ReplaceHandler ==
    ASSUME HandlerInv, NEW h \in Handlers, NEW q \in Handler, Placed(q),
           hd' = [hd EXCEPT ![h] = q]
    PROVE  /\ hd' \in [Handlers -> Handler]
           /\ \A g \in Handlers : Placed(hd'[g])
BY DEF HandlerInv, TypeOK

LEMMA EndType ==
    ASSUME HandlerInv, NEW h \in Handlers, End(h)
    PROVE  /\ hd' \in [Handlers -> Handler]
           /\ \A g \in Handlers : Placed(hd'[g])
BY IdleType, ReplaceHandler DEF End

LEMMA GoType ==
    ASSUME HandlerInv, NEW h \in Handlers, NEW pc \in PCs, Go(h, pc),
           Placed([hd[h] EXCEPT !.pc = pc])
    PROVE  /\ hd' \in [Handlers -> Handler]
           /\ \A g \in Handlers : Placed(hd'[g])
<1> DEFINE q == [hd[h] EXCEPT !.pc = pc]
<1>1. q \in Handler
  BY DEF HandlerInv, TypeOK, Handler
<1>2. hd' = [hd EXCEPT ![h] = q]
  BY DEF Go
<1>3. Placed(q)
  OBVIOUS
<1> HIDE DEF q
<1> QED BY <1>1, <1>2, <1>3, ReplaceHandler

LEMMA SetSessionType ==
    ASSUME HandlerInv, NEW t \in Tokens, NEW s \in Session, SetSession(t, s)
    PROVE  /\ sessions' \in [Tokens -> Session \union {None}]
           /\ index' \in [Users -> SUBSET Tokens]
<1>1. CASE s.until >= day /\ sessions' = [sessions EXCEPT ![t] = s]
                         /\ index' = [index EXCEPT ![s.user] = @ \union {t}]
  BY <1>1 DEF HandlerInv, TypeOK, Session
<1>2. CASE sessions' = [sessions EXCEPT ![t] = None] /\ index' = index
  BY <1>2 DEF HandlerInv, TypeOK
<1> QED BY <1>1, <1>2 DEF SetSession

\* The facts about a handler and the clock that the steps use.
LEMMA HandlerFacts ==
    ASSUME HandlerInv, NEW h \in Handlers
    PROVE  /\ hd[h] \in Handler /\ Placed(hd[h])
           /\ \A t \in Tokens : sessions[t] \in Session \union {None}
           /\ \A u \in Users : users[u] \in Row \union {None}
           /\ TTL \in Nat /\ MaxDay \in Nat /\ MaxClock \in Nat
           /\ clock \in Instant /\ day \in 0..MaxDay /\ day + TTL \in Life
BY SessionsAssumption DEF HandlerInv, TypeOK, Life

LEMMA LoginType ==
    ASSUME HandlerInv, NEW h \in Handlers,
           \/ SetupRequired(h)
           \/ \E u \in Users : CreateInitialAdmin(h, u) \/ VerifyPassword(h, u)
           \/ Issue(h)
           \/ \E t \in Tokens : StoreSession(h, t)
    PROVE  HandlerInv'
<1> USE HandlerFacts
<1>1. CASE SetupRequired(h)
  <2>1. Placed([hd[h] EXCEPT !.pc = "setup"]) /\ "setup" \in PCs
    BY DEF Placed, Handler, PCs
  <2>2. hd' \in [Handlers -> Handler] /\ \A g \in Handlers : Placed(hd'[g])
    BY <1>1, <2>1, GoType DEF SetupRequired
  <2> QED BY <1>1, <2>2 DEF SetupRequired, HandlerInv, TypeOK, redis, time, history
<1>2. ASSUME NEW u \in Users, NEW row \in Row
      PROVE  Issuing(u, row) \in Handler /\ Placed(Issuing(u, row))
  <2>1. [user |-> u, row |-> row, issued |-> 0, until |-> 0] \in Session
    BY DEF Session, Instant, Life
  <2> QED BY <2>1, IdleType DEF Issuing, Idle, Handler, Placed, PCs
<1>3. ASSUME NEW u \in Users, CreateInitialAdmin(h, u) PROVE HandlerInv'
  <2>1. Root \in Row
    BY DEF Root, Row
  <2>2. hd' = [hd EXCEPT ![h] = Issuing(u, Root)]
    BY <1>3 DEF CreateInitialAdmin
  <2>3. hd' \in [Handlers -> Handler] /\ \A g \in Handlers : Placed(hd'[g])
    BY <1>2, <2>1, <2>2, ReplaceHandler
  <2>4. users' \in [Users -> Row \union {None}]
    BY <1>3, <2>1 DEF CreateInitialAdmin, HandlerInv, TypeOK
  <2> QED BY <1>3, <2>3, <2>4 DEF CreateInitialAdmin, HandlerInv, TypeOK, redis, time, history
<1>4. ASSUME NEW u \in Users, VerifyPassword(h, u) PROVE HandlerInv'
  <2>1. users[u] \in Row /\ hd' = [hd EXCEPT ![h] = Issuing(u, users[u])]
    BY <1>4 DEF VerifyPassword
  <2>3. hd' \in [Handlers -> Handler] /\ \A g \in Handlers : Placed(hd'[g])
    BY <1>2, <2>1, ReplaceHandler
  <2> QED BY <1>4, <2>3 DEF VerifyPassword, HandlerInv, TypeOK, redis, time, history
<1>5. CASE Issue(h)
  <2>1. hd[h].session \in Session /\ clock' \in Instant
    BY <1>5 DEF Issue, Now, Placed, Instant
  <2> DEFINE s == [hd[h].session EXCEPT !.issued = clock', !.until = day + TTL]
             q == [hd[h] EXCEPT !.pc = "store", !.session = s]
  <2>2. s \in Session
    BY <2>1 DEF Session
  <2>3. q \in Handler /\ Placed(q)
    <3> HIDE DEF s
    <3> QED BY <2>2 DEF Handler, Placed, PCs
  <2>4. hd' = [hd EXCEPT ![h] = q]
    BY <1>5 DEF Issue, HandlerInv, TypeOK, Handler
  <2> HIDE DEF q
  <2>5. hd' \in [Handlers -> Handler] /\ \A g \in Handlers : Placed(hd'[g])
    BY <2>3, <2>4, ReplaceHandler
  <2> QED BY <1>5, <2>1, <2>5 DEF Issue, HandlerInv, TypeOK, redis, history
<1>6. ASSUME NEW t \in Tokens, StoreSession(h, t) PROVE HandlerInv'
  <2>1. hd[h].session \in Session
    BY <1>6 DEF StoreSession, Placed
  <2>2. sessions' \in [Tokens -> Session \union {None}] /\ index' \in [Users -> SUBSET Tokens]
    BY <1>6, <2>1, SetSessionType DEF StoreSession
  <2>3. hd' \in [Handlers -> Handler] /\ \A g \in Handlers : Placed(hd'[g])
    BY <1>6, EndType DEF StoreSession
  <2>4. born' \in [Tokens -> Instant]
    BY <1>6, <2>1 DEF StoreSession, HandlerInv, TypeOK, Session
  <2> QED BY <1>6, <2>2, <2>3, <2>4 DEF StoreSession, HandlerInv, TypeOK, time
<1> QED BY <1>1, <1>3, <1>4, <1>5, <1>6

LEMMA AuthenticateType ==
    ASSUME HandlerInv, NEW h \in Handlers,
           \/ \E t \in Tokens : GetSession(h, t)
           \/ RefuseRevoked(h) \/ CheckMarker(h) \/ Renew(h) \/ RenewFails(h)
           \/ Logout(h) \/ Leave(h)
    PROVE  HandlerInv'
<1> USE HandlerFacts
<1>1. ASSUME NEW t \in Tokens, GetSession(h, t) PROVE HandlerInv'
  <2>1. sessions[t] \in Session /\ sessions[t].user \in Users
    BY <1>1 DEF GetSession, Session
  <2> DEFINE after == revoked[sessions[t].user]
             q == [Idle EXCEPT !.pc = "marker", !.token = t, !.session = sessions[t], !.after = after]
  <2>2. after \in Instant
    BY <2>1 DEF HandlerInv, TypeOK
  <2>3. q \in Handler /\ Placed(q)
    <3> HIDE DEF after
    <3> QED BY <2>1, <2>2, IdleType DEF Idle, Handler, Placed, PCs
  <2>4. hd' = [hd EXCEPT ![h] = q]
    BY <1>1 DEF GetSession
  <2> HIDE DEF q
  <2>5. hd' \in [Handlers -> Handler] /\ \A g \in Handlers : Placed(hd'[g])
    BY <2>3, <2>4, ReplaceHandler
  <2> QED BY <1>1, <2>5 DEF GetSession, HandlerInv, TypeOK, redis, time, history
<1>2. CASE RefuseRevoked(h) \/ Logout(h)
  <2>1. /\ End(h)
        /\ sessions' = [sessions EXCEPT ![hd[h].token] = None]
        /\ UNCHANGED <<users, index, marker, time, history>>
    BY <1>2 DEF RefuseRevoked, Logout
  <2>2. sessions' \in [Tokens -> Session \union {None}]
    BY <2>1 DEF HandlerInv, TypeOK
  <2>3. hd' \in [Handlers -> Handler] /\ \A g \in Handlers : Placed(hd'[g])
    BY <2>1, EndType
  <2> QED BY <2>1, <2>2, <2>3 DEF HandlerInv, TypeOK, time, history
<1>3. CASE CheckMarker(h)
  <2>1. PICK pc \in {"acting", "renew"} : hd' = [hd EXCEPT ![h].pc = pc, ![h].late = FALSE]
    BY <1>3 DEF CheckMarker
  <2> DEFINE q == [hd[h] EXCEPT !.pc = pc, !.late = FALSE]
  <2>2. hd[h].pc = "marker"
    BY <1>3 DEF CheckMarker
  <2>3. q \in Handler /\ Placed(q)
    BY <2>2 DEF Handler, Placed, PCs
  <2>4. hd' = [hd EXCEPT ![h] = q]
    BY <2>1 DEF HandlerInv, TypeOK, Handler
  <2> HIDE DEF q
  <2>5. hd' \in [Handlers -> Handler] /\ \A g \in Handlers : Placed(hd'[g])
    BY <2>3, <2>4, ReplaceHandler
  <2>6. straddled' \in BOOLEAN
    BY <1>3 DEF CheckMarker, HandlerInv, TypeOK
  <2> QED BY <1>3, <2>5, <2>6 DEF CheckMarker, HandlerInv, TypeOK, redis, time
<1>6. CASE RenewFails(h)
  <2>1. "acting" \in PCs /\ Placed([hd[h] EXCEPT !.pc = "acting"])
    BY <1>6 DEF RenewFails, Placed, Handler, PCs
  <2>2. hd' \in [Handlers -> Handler] /\ \A g \in Handlers : Placed(hd'[g])
    BY <1>6, <2>1, GoType DEF RenewFails
  <2> QED BY <1>6, <2>2 DEF RenewFails, HandlerInv, TypeOK, redis, time, history
<1>4. CASE Renew(h)
  <2> DEFINE s == Renewed(hd[h].session)
             q == [hd[h] EXCEPT !.pc = "acting", !.session = s]
  <2>1. hd[h].session \in Session /\ hd[h].token \in Tokens
    BY <1>4 DEF Renew, Placed
  <2>2. s \in Session
    BY <2>1 DEF Renewed, Session
  <2>3. SetSession(hd[h].token, s) /\ hd' = [hd EXCEPT ![h] = q]
    BY <1>4 DEF Renew, HandlerInv, TypeOK, Handler
  <2> HIDE DEF s
  <2>4. q \in Handler /\ Placed(q)
    BY <2>1, <2>2 DEF Handler, Placed, PCs
  <2>5. sessions' \in [Tokens -> Session \union {None}] /\ index' \in [Users -> SUBSET Tokens]
    BY <2>1, <2>2, <2>3, SetSessionType
  <2> HIDE DEF q
  <2>6. hd' \in [Handlers -> Handler] /\ \A g \in Handlers : Placed(hd'[g])
    BY <2>3, <2>4, ReplaceHandler
  <2>7. straddled' \in BOOLEAN
    BY <1>4 DEF Renew, HandlerInv, TypeOK
  <2> QED BY <1>4, <2>5, <2>6, <2>7 DEF Renew, HandlerInv, TypeOK, time
<1>5. CASE Leave(h)
  <2>1. hd' \in [Handlers -> Handler] /\ \A g \in Handlers : Placed(hd'[g])
    BY <1>5, EndType DEF Leave
  <2> QED BY <1>5, <2>1 DEF Leave, HandlerInv, TypeOK, redis, time, history
<1> QED BY <1>1, <1>2, <1>3, <1>4, <1>5, <1>6

\* What a revocation starts from is sound.
LEMMA RevokingPlace == \A u, want : Revoking(u, want).pc = "members"
BY DEF Revoking, Idle

LEMMA RevokingType ==
    ASSUME NEW u \in Users, NEW want \in Row \union {None}
    PROVE  Revoking(u, want) \in Handler /\ Placed(Revoking(u, want))
BY IdleType DEF Revoking, Idle, Handler, Placed, PCs

LEMMA AdminType ==
    ASSUME HandlerInv, NEW h \in Handlers,
           \/ \E u \in Users, role \in {"admin", "user"} : CreateUser(h, u, role)
           \/ \E u \in Users, want \in Wants : EditUser(h, u, want)
           \/ UpdateAppUser(h) \/ UpdateRefused(h)
    PROVE  HandlerInv'
<1> USE HandlerFacts
<1>1. ASSUME NEW u \in Users, NEW role \in {"admin", "user"}, CreateUser(h, u, role)
      PROVE  HandlerInv'
  <2>1. [role |-> role, valid |-> TRUE] \in Row
    BY DEF Row
  <2>2. users' \in [Users -> Row \union {None}]
    BY <1>1, <2>1 DEF CreateUser, HandlerInv, TypeOK
  <2>3. hd' \in [Handlers -> Handler] /\ \A g \in Handlers : Placed(hd'[g])
    BY <1>1, EndType DEF CreateUser
  <2> QED BY <1>1, <2>2, <2>3 DEF CreateUser, HandlerInv, TypeOK, redis, time, history
<1>2. ASSUME NEW u \in Users, NEW want \in Wants, EditUser(h, u, want)
      PROVE  HandlerInv'
  <2> DEFINE q == [Idle EXCEPT !.pc = "update", !.session = hd[h].session, !.target = u,
                               !.seen = users[u], !.want = want]
  <2>1. users[u] \in Row /\ want \in Row /\ hd[h].session \in Session
    BY <1>2, SessionsAssumption DEF EditUser, Administers, Placed
  <2>2. q \in Handler /\ Placed(q)
    BY <2>1, IdleType DEF Idle, Handler, Placed, PCs
  <2>3. hd' = [hd EXCEPT ![h] = q]
    BY <1>2 DEF EditUser
  <2> HIDE DEF q
  <2>4. hd' \in [Handlers -> Handler] /\ \A g \in Handlers : Placed(hd'[g])
    BY <2>2, <2>3, ReplaceHandler
  <2> QED BY <1>2, <2>4 DEF EditUser, HandlerInv, TypeOK, redis, time, history
<1>3. CASE UpdateAppUser(h)
  <2>1. hd[h].pc = "update" /\ hd[h].target \in Users /\ hd[h].want \in Row
    BY <1>3 DEF UpdateAppUser, Placed
  <2>2. users' \in [Users -> Row \union {None}]
    BY <1>3, <2>1 DEF UpdateAppUser, HandlerInv, TypeOK
  <2> DEFINE q == Revoking(hd[h].target, hd[h].want)
  <2>3. q \in Handler /\ Placed(q)
    BY <2>1, RevokingType
  <2>4. End(h) \/ hd' = [hd EXCEPT ![h] = q]
    BY <1>3 DEF UpdateAppUser
  <2> HIDE DEF q
  <2>5. hd' \in [Handlers -> Handler] /\ \A g \in Handlers : Placed(hd'[g])
    BY <2>3, <2>4, EndType, ReplaceHandler
  <2> QED BY <1>3, <2>2, <2>5 DEF UpdateAppUser, HandlerInv, TypeOK, redis, time, history
<1>4. CASE UpdateRefused(h)
  <2>1. hd' \in [Handlers -> Handler] /\ \A g \in Handlers : Placed(hd'[g])
    BY <1>4, EndType DEF UpdateRefused
  <2> QED BY <1>4, <2>1 DEF UpdateRefused, HandlerInv, TypeOK, redis, time, history
<1> QED BY <1>1, <1>2, <1>3, <1>4

LEMMA RevokeType ==
    ASSUME HandlerInv, NEW h \in Handlers,
           \/ \E u \in Users : RevokeSessions(h, u)
           \/ ReadMembers(h) \/ Stamp(h) \/ Wipe(h)
    PROVE  HandlerInv'
<1> USE HandlerFacts
<1>1. ASSUME NEW u \in Users, RevokeSessions(h, u) PROVE HandlerInv'
  <2> DEFINE q == Revoking(u, None)
  <2>1. q \in Handler /\ Placed(q)
    BY RevokingType
  <2>2. hd' = [hd EXCEPT ![h] = q]
    BY <1>1 DEF RevokeSessions
  <2> HIDE DEF q
  <2>3. hd' \in [Handlers -> Handler] /\ \A g \in Handlers : Placed(hd'[g])
    BY <2>1, <2>2, ReplaceHandler
  <2> QED BY <1>1, <2>3 DEF RevokeSessions, HandlerInv, TypeOK, redis, time, history
<1>2. CASE ReadMembers(h)
  <2> DEFINE named == index[hd[h].target]
             q == [hd[h] EXCEPT !.pc = "stamp", !.members = named]
  <2>1. hd[h].target \in Users /\ named \subseteq Tokens
    BY <1>2 DEF ReadMembers, Placed, HandlerInv, TypeOK
  <2>2. q \in Handler /\ Placed(q)
    <3> HIDE DEF named
    <3> QED BY <2>1 DEF Handler, Placed, PCs
  <2>3. hd' = [hd EXCEPT ![h] = q]
    BY <1>2 DEF ReadMembers, HandlerInv, TypeOK, Handler
  <2> HIDE DEF q
  <2>4. hd' \in [Handlers -> Handler] /\ \A g \in Handlers : Placed(hd'[g])
    BY <2>2, <2>3, ReplaceHandler
  <2> QED BY <1>2, <2>4 DEF ReadMembers, HandlerInv, TypeOK, redis, time, history
<1>3. CASE Stamp(h)
  <2> DEFINE q == [hd[h] EXCEPT !.pc = "wipe", !.at = clock']
  <2>1. hd[h].target \in Users /\ clock' \in Instant
    BY <1>3 DEF Stamp, Now, Placed, Instant
  <2>2. q \in Handler /\ Placed(q)
    BY <2>1 DEF Handler, Placed, PCs
  <2>3. hd' = [hd EXCEPT ![h] = q]
    BY <1>3 DEF Stamp, HandlerInv, TypeOK, Handler
  <2> HIDE DEF q
  <2>4. hd' \in [Handlers -> Handler] /\ \A g \in Handlers : Placed(hd'[g])
    BY <2>2, <2>3, ReplaceHandler
  <2> QED BY <1>3, <2>1, <2>4 DEF Stamp, HandlerInv, TypeOK, redis, history
<1>4. CASE Wipe(h)
  <2>1. hd[h].target \in Users /\ hd[h].at \in Instant
    BY <1>4 DEF Wipe, Placed, Handler
  <2>2. sessions' \in [Tokens -> Session \union {None}]
    BY <1>4 DEF Wipe
  <2>3. [at |-> hd[h].at, until |-> day + TTL] \in Marker
    BY <2>1 DEF Marker
  <2>4. marker' \in [Users -> Marker \union {None}]
    BY <1>4, <2>3 DEF Wipe, HandlerInv, TypeOK
  <2>5. index' \in [Users -> SUBSET Tokens]
    BY <1>4 DEF Wipe, HandlerInv, TypeOK
  <2>6. revoked' \in [Users -> Instant]
    BY <1>4, <2>1 DEF Wipe, HandlerInv, TypeOK
  <2>7. crossed' \in BOOLEAN
    BY <1>4 DEF Wipe, HandlerInv, TypeOK
  <2>8. hd' \in [Handlers -> Handler] /\ \A g \in Handlers : Placed(hd'[g])
    BY <1>4, EndType DEF Wipe
  <2> QED BY <1>4, <2>2, <2>4, <2>5, <2>6, <2>7, <2>8 DEF Wipe, HandlerInv, TypeOK, time
<1> QED BY <1>1, <1>2, <1>3, <1>4

\* The end of a day leaves a handler where it is, with what it holds.
LEMMA DayHandler ==
    HandlerInv /\ NextDay =>
        /\ hd' \in [Handlers -> Handler]
        /\ \A h \in Handlers : Placed(hd'[h])
        /\ \A h \in Handlers : Kept(hd'[h], hd[h])
        /\ \A h \in Handlers : hd[h].pc = "renew" => hd'[h].late
<1> SUFFICES ASSUME HandlerInv, NextDay
             PROVE  /\ hd' \in [Handlers -> Handler]
                    /\ \A h \in Handlers : Placed(hd'[h])
                    /\ \A h \in Handlers : Kept(hd'[h], hd[h])
                    /\ \A h \in Handlers : hd[h].pc = "renew" => hd'[h].late
  OBVIOUS
<1>1. hd' = [h \in Handlers |-> Overtaken(hd[h])]
  BY DEF NextDay
<1>2. ASSUME NEW h \in Handlers
      PROVE  Overtaken(hd[h]) \in Handler /\ Placed(Overtaken(hd[h])) /\ Kept(Overtaken(hd[h]), hd[h])
             /\ (hd[h].pc = "renew" => Overtaken(hd[h]).late)
  <2>1. hd[h] \in Handler /\ Placed(hd[h])
    BY DEF HandlerInv, TypeOK
  <2> DEFINE b == (hd[h].late \/ hd[h].pc \in {"marker", "renew"})
  <2>2. Overtaken(hd[h]) = [hd[h] EXCEPT !.late = b] /\ b \in BOOLEAN
    BY <2>1 DEF Overtaken
  <2>3. hd[h].pc = "renew" => b
    OBVIOUS
  <2> HIDE DEF b
  <2>4. Overtaken(hd[h]).late = b
    BY <2>1, <2>2 DEF Handler
  <2>5. Overtaken(hd[h]) \in Handler /\ Placed(Overtaken(hd[h])) /\ Kept(Overtaken(hd[h]), hd[h])
    BY <2>1, <2>2 DEF Handler, Placed, Kept
  <2> QED BY <2>3, <2>4, <2>5
<1> QED BY <1>1, <1>2

LEMMA StepType == HandlerInv /\ [Next]_vars => HandlerInv'
<1> SUFFICES ASSUME HandlerInv, [Next]_vars PROVE HandlerInv'
  OBVIOUS
<1>1. CASE NextDay
  <2>1. /\ sessions' = [t \in Tokens |-> Live(sessions[t], day')]
        /\ marker' = [u \in Users |-> Live(marker[u], day')]
        /\ day' \in 0..MaxDay
    BY <1>1, SessionsAssumption DEF NextDay, HandlerInv, TypeOK
  <2>2. sessions' \in [Tokens -> Session \union {None}]
    BY <2>1 DEF Live, HandlerInv, TypeOK
  <2>3. marker' \in [Users -> Marker \union {None}]
    BY <2>1 DEF Live, HandlerInv, TypeOK
  <2>4. /\ hd' \in [Handlers -> Handler]
        /\ \A h \in Handlers : Placed(hd'[h])
    BY <1>1, DayHandler, Zenon
  <2> QED BY <1>1, <2>1, <2>2, <2>3, <2>4 DEF NextDay, HandlerInv, TypeOK, history
<1>2. ASSUME NEW h \in Handlers, Step(h) PROVE HandlerInv'
  BY <1>2, LoginType, AuthenticateType, AdminType, RevokeType DEF Step
<1>3. CASE UNCHANGED vars
  BY <1>3 DEF vars, redis, time, history, HandlerInv, TypeOK
<1> QED BY <1>1, <1>2, <1>3 DEF Next

\* Every variable has its type in every reachable state, for any users, tokens,
\* handlers, times to live and bounds.
THEOREM TypeCorrect == Spec => []TypeOK
<1>1. HandlerInv => TypeOK
  BY DEF HandlerInv
<1> QED BY InitHandler, StepType, <1>1, PTL DEF Spec

-----------------------------------------------------------------------------
(* The last administrator                                                  *)

\* Nobody acts before there is a user, and users are never deleted.
Founded == \E u \in Users : users[u] # None

Unfounded ==
    /\ \A t \in Tokens : sessions[t] = None
    /\ \A h \in Handlers : hd[h].pc \in {"idle", "setup"}

\* Whose row is to be updated, he exists.
Targeted == \A h \in Handlers : hd[h].pc = "update" => users[hd[h].target] # None

AdminInv == HandlerInv /\ (Founded \/ Unfounded) /\ Targeted /\ AdminRemains

\* Of two elements, one is another than any given.
LEMMA AnotherElement ==
    ASSUME NEW S, IsFiniteSet(S), Cardinality(S) > 1, NEW x
    PROVE  \E y \in S : y # x
<1> SUFFICES ASSUME S \subseteq {x} PROVE FALSE
  OBVIOUS
<1>1. IsFiniteSet({x}) /\ Cardinality({x}) = 1
  BY FS_Singleton
<1>2. Cardinality(S) <= 1 /\ Cardinality(S) \in Nat
  BY <1>1, FS_Subset, FS_CardinalityType
<1> QED BY <1>2

\* A step leaves the table as it is or writes one row, and what it writes over
\* the row of the last active administrator is an active administrator.
LEMMA UsersStep ==
    ASSUME AdminInv, NEW h \in Handlers, Step(h)
    PROVE  \/ users' = users
           \/ \E u \in Users, row \in Row :
                /\ users' = [users EXCEPT ![u] = row]
                /\ row = Root \/ \E v \in ActiveAdmins : v # u
<1> USE HandlerFacts DEF AdminInv
<1> DEFINE Writes(u, row) == /\ row \in Row
                             /\ users' = [users EXCEPT ![u] = row]
                             /\ row = Root \/ \E v \in ActiveAdmins : v # u
<1>1. SUFFICES users' = users \/ \E u \in Users, row \in Row : Writes(u, row)
  OBVIOUS
<1>2. ASSUME NEW u \in Users, CreateInitialAdmin(h, u)
      PROVE  Writes(u, Root)
  BY <1>2, RootRow DEF CreateInitialAdmin
<1>3. ASSUME NEW u \in Users, NEW role \in {"admin", "user"}, CreateUser(h, u, role)
      PROVE  Writes(u, [role |-> role, valid |-> TRUE])
  <2>1. hd[h].pc = "acting" /\ users[u] = None
    BY <1>3 DEF CreateUser, Administers
  <2>2. ActiveAdmins # {}
    BY <2>1 DEF Unfounded, Founded, AdminRemains
  <2>3. users[u] # Root
    BY <2>1, RootRow
  <2> QED BY <1>3, <2>2, <2>3 DEF CreateUser, ActiveAdmins, Row
<1>4. ASSUME UpdateAppUser(h)
      PROVE  \E u \in Users, row \in Row : Writes(u, row)
  <2> DEFINE u == hd[h].target
             row == hd[h].want
  <2>1. /\ hd[h].pc = "update" /\ Allowed(hd[h].session.user, u, row)
        /\ users' = [users EXCEPT ![u] = row]
    BY <1>4 DEF UpdateAppUser
  <2>2. u \in Users /\ row \in Row
    BY <2>1 DEF Placed
  <2>3. ASSUME row # Root PROVE \E v \in ActiveAdmins : v # u
    <3>1. CASE users[u] = Root
      <4>1. Cardinality(ActiveAdmins) > 1
        BY <2>1, <2>3, <3>1 DEF Allowed
      <4>2. IsFiniteSet(ActiveAdmins)
        BY SessionsAssumption, FS_Subset DEF ActiveAdmins
      <4>3. \A x : \E v \in ActiveAdmins : v # x
        <5> HIDE DEF ActiveAdmins
        <5> QED BY ONLY <4>1, <4>2, AnotherElement
      <4> QED BY <4>3
    <3>2. CASE users[u] # Root
      <4>1. ActiveAdmins # {}
        BY <2>1, <2>2 DEF Targeted, AdminRemains
      <4> QED BY <3>2, <4>1 DEF ActiveAdmins
    <3> QED BY <3>1, <3>2
  <2> QED BY <2>1, <2>2, <2>3
<1>5. CASE \/ SetupRequired(h) \/ Issue(h)
           \/ \E u \in Users : VerifyPassword(h, u) \/ RevokeSessions(h, u)
           \/ \E t \in Tokens : StoreSession(h, t) \/ GetSession(h, t)
           \/ RefuseRevoked(h) \/ CheckMarker(h) \/ Renew(h) \/ RenewFails(h) \/ Logout(h)
           \/ \E u \in Users, want \in Wants : EditUser(h, u, want)
           \/ UpdateRefused(h) \/ ReadMembers(h) \/ Stamp(h) \/ Wipe(h) \/ Leave(h)
  <2>1. CASE \/ SetupRequired(h) \/ Issue(h) \/ ReadMembers(h) \/ Stamp(h) \/ Wipe(h) \/ Leave(h)
             \/ UpdateRefused(h) \/ \E u \in Users, want \in Wants : EditUser(h, u, want)
    BY <2>1 DEF SetupRequired, Issue, ReadMembers, Stamp, Wipe, Leave, UpdateRefused, EditUser
  <2>2. CASE \/ \E u \in Users : VerifyPassword(h, u) \/ RevokeSessions(h, u)
             \/ \E t \in Tokens : StoreSession(h, t) \/ GetSession(h, t)
    BY <2>2 DEF VerifyPassword, RevokeSessions, StoreSession, GetSession
  <2>3. CASE RefuseRevoked(h) \/ CheckMarker(h) \/ Renew(h) \/ RenewFails(h) \/ Logout(h)
    BY <2>3 DEF RefuseRevoked, CheckMarker, Renew, RenewFails, Logout
  <2> QED BY <1>5, <2>1, <2>2, <2>3
<1>6. Root \in Row /\ \A role \in {"admin", "user"} : [role |-> role, valid |-> TRUE] \in Row
  BY DEF Root, Row
<1> HIDE DEF Writes
<1> QED BY <1>2, <1>3, <1>4, <1>5, <1>6 DEF Step

\* Users stay, and so does an active administrator.
LEMMA RowsStay ==
    ASSUME AdminInv, NEW h \in Handlers, Step(h)
    PROVE  /\ \A u \in Users : users[u] # None => users'[u] # None
           /\ AdminRemains'
<1>1. users \in [Users -> Row \union {None}]
  BY DEF AdminInv, HandlerInv, TypeOK
<1>2. CASE users' = users
  BY <1>2 DEF AdminInv, AdminRemains, ActiveAdmins
<1>3. ASSUME NEW u \in Users, NEW row \in Row, users' = [users EXCEPT ![u] = row],
             row = Root \/ \E v \in ActiveAdmins : v # u
      PROVE  /\ \A w \in Users : users[w] # None => users'[w] # None
             /\ AdminRemains'
  <2>1. row # None
    BY SessionsAssumption
  <2>2. \E v \in Users : users'[v] = Root
    BY <1>1, <1>3 DEF ActiveAdmins
  <2> QED BY <1>1, <1>3, <2>1, <2>2 DEF AdminRemains, ActiveAdmins
<1> QED BY <1>2, <1>3, UsersStep

\* Only EditUser takes a handler to where it updates.
LEMMA TargetedStep ==
    ASSUME AdminInv, NEW h \in Handlers, Step(h)
    PROVE  Targeted'
<1>1. hd \in [Handlers -> Handler]
  BY DEF AdminInv, HandlerInv, TypeOK
<1>2. \A g \in Handlers : g # h => hd'[g] = hd[g]
  BY <1>1 DEF Step, SetupRequired, CreateInitialAdmin, VerifyPassword, Issue, StoreSession, GetSession,
              RefuseRevoked, CheckMarker, Renew, RenewFails, Logout, CreateUser, EditUser,
              UpdateAppUser, UpdateRefused, RevokeSessions, ReadMembers, Stamp, Wipe, Leave, Go, End
<1>3. hd'[h].pc = "update" => users[hd'[h].target] # None
  <2>1. CASE \E u \in Users, want \in Wants : EditUser(h, u, want)
    BY <1>1, <2>1 DEF EditUser, Idle
  <2>2. CASE ~\E u \in Users, want \in Wants : EditUser(h, u, want)
    <3>1. CASE \/ SetupRequired(h) \/ Issue(h) \/ RefuseRevoked(h) \/ Renew(h)
               \/ RenewFails(h) \/ Logout(h) \/ Leave(h)
      BY <1>1, <3>1 DEF SetupRequired, Issue, RefuseRevoked, Renew, RenewFails,
                        Logout, Leave, Go, End, Idle, Handler
    <3>7. CASE CheckMarker(h)
      <4>1. PICK pc \in {"acting", "renew"} : hd' = [hd EXCEPT ![h].pc = pc, ![h].late = FALSE]
        BY <3>7 DEF CheckMarker
      <4>2. hd'[h].pc = pc
        BY <1>1, <4>1 DEF Handler
      <4> QED BY <4>2
    <3>2. CASE \/ UpdateRefused(h) \/ ReadMembers(h) \/ Stamp(h) \/ Wipe(h)
      BY <1>1, <3>2 DEF UpdateRefused, ReadMembers, Stamp, Wipe, Go, End, Idle, Handler
    <3>8. CASE UpdateAppUser(h)
      <4>1. hd'[h] = Idle \/ \E u, want : hd'[h] = Revoking(u, want)
        BY <1>1, <3>8 DEF UpdateAppUser, End
      <4> QED BY <4>1, RevokingPlace DEF Idle
    <3>3. CASE \/ \E u \in Users, role \in {"admin", "user"} : CreateUser(h, u, role)
               \/ \E t \in Tokens : StoreSession(h, t)
      BY <1>1, <3>3 DEF CreateUser, StoreSession, End, Idle
    <3>4. CASE \E u \in Users : CreateInitialAdmin(h, u) \/ VerifyPassword(h, u)
      <4>1. PICK u, row : hd' = [hd EXCEPT ![h] = Issuing(u, row)]
        BY <3>4 DEF CreateInitialAdmin, VerifyPassword
      <4>2. Issuing(u, row).pc = "issue"
        BY DEF Issuing, Idle
      <4> QED BY <1>1, <4>1, <4>2
    <3>5. CASE \E u \in Users : RevokeSessions(h, u)
      <4>1. \E u, want : hd'[h] = Revoking(u, want)
        BY <1>1, <3>5 DEF RevokeSessions
      <4> QED BY <4>1, RevokingPlace
    <3>6. CASE \E t \in Tokens : GetSession(h, t)
      BY <1>1, <3>6 DEF GetSession, Idle
    <3> QED BY <2>2, <3>1, <3>2, <3>3, <3>4, <3>5, <3>6, <3>7, <3>8 DEF Step
  <2> QED BY <2>1, <2>2
<1>4. \A g \in Handlers : hd'[g].pc = "update" => hd'[g].target \in Users
  <2>1. HandlerInv'
    BY StepType DEF AdminInv, Next
  <2> QED BY <2>1 DEF HandlerInv, Placed
<1>5. \A g \in Handlers : hd'[g].pc = "update" => users[hd'[g].target] # None
  BY <1>2, <1>3 DEF AdminInv, Targeted
<1> QED BY <1>4, <1>5, RowsStay DEF Targeted

LEMMA FoundedStep ==
    ASSUME AdminInv, NEW h \in Handlers, Step(h)
    PROVE  Founded' \/ Unfounded'
<1>1. CASE Founded
  BY <1>1, RowsStay DEF Founded
<1>2. CASE ~Founded
  <2>1. Unfounded /\ hd \in [Handlers -> Handler]
    BY <1>2 DEF AdminInv, HandlerInv, TypeOK
  <2>2. \/ SetupRequired(h) \/ Leave(h)
        \/ \E u \in Users : CreateInitialAdmin(h, u)
    BY <1>2, <2>1 DEF Founded, Unfounded, Step, VerifyPassword, Issue, StoreSession, GetSession,
              RefuseRevoked, CheckMarker, Renew, RenewFails, Logout, CreateUser, EditUser,
              UpdateAppUser, UpdateRefused, RevokeSessions, ReadMembers, Stamp, Wipe, Administers
  <2>3. CASE SetupRequired(h) \/ Leave(h)
    <3>1. \A g \in Handlers : hd'[g].pc \in {"idle", "setup"}
      BY <2>1, <2>3 DEF Unfounded, SetupRequired, Leave, Go, End, Idle, Handler
    <3>2. sessions' = sessions
      BY <2>3 DEF SetupRequired, Leave, redis
    <3> QED BY <2>1, <3>1, <3>2 DEF Unfounded
  <2>4. ASSUME NEW u \in Users, CreateInitialAdmin(h, u) PROVE Founded'
    <3>1. users' = [users EXCEPT ![u] = Root] /\ Root # None
      BY <2>4, RootRow DEF CreateInitialAdmin
    <3>2. users'[u] = Root
      BY <3>1 DEF AdminInv, HandlerInv, TypeOK
    <3> QED BY <3>1, <3>2 DEF Founded
  <2> QED BY <2>2, <2>3, <2>4
<1> QED BY <1>1, <1>2

LEMMA InitAdmin == Init => AdminInv
<1> SUFFICES ASSUME Init PROVE AdminInv
  OBVIOUS
<1>1. PICK seed \in Seeds : users = [u \in Users |-> IF u \in seed THEN Root ELSE None]
  BY DEF Init
<1>2. AdminRemains
  BY <1>1 DEF AdminRemains, ActiveAdmins
<1>3. Unfounded /\ Targeted
  BY DEF Init, Unfounded, Targeted, Idle
<1> QED BY <1>2, <1>3, InitHandler DEF AdminInv

LEMMA StepAdmin == AdminInv /\ [Next]_vars => AdminInv'
<1> SUFFICES ASSUME AdminInv, [Next]_vars PROVE AdminInv'
  OBVIOUS
<1>1. HandlerInv'
  BY StepType DEF AdminInv
<1>2. CASE NextDay
  <2>1. users' = users /\ sessions' = [t \in Tokens |-> Live(sessions[t], day')]
    BY <1>2 DEF NextDay
  <2>2. \A h \in Handlers : hd'[h].pc = hd[h].pc /\ hd'[h].target = hd[h].target
    <3>1. HandlerInv /\ NextDay
      BY <1>2 DEF AdminInv
    <3>2. \A h \in Handlers : Kept(hd'[h], hd[h])
      BY <3>1, DayHandler, Zenon
    <3> QED BY <3>2 DEF Kept
  <2>3. Founded' \/ Unfounded'
    BY <2>1, <2>2 DEF AdminInv, Founded, Unfounded, Live
  <2>4. Targeted' /\ AdminRemains'
    BY <2>1, <2>2 DEF AdminInv, Targeted, AdminRemains, ActiveAdmins
  <2> QED BY <1>1, <2>3, <2>4 DEF AdminInv
<1>3. ASSUME NEW h \in Handlers, Step(h) PROVE AdminInv'
  BY <1>1, <1>3, RowsStay, TargetedStep, FoundedStep DEF AdminInv
<1>4. CASE UNCHANGED vars
  BY <1>1, <1>4 DEF vars, redis, time, history, AdminInv, Founded, Unfounded, Targeted,
                    AdminRemains, ActiveAdmins
<1> QED BY <1>2, <1>3, <1>4 DEF Next

\* However the administrators change one another's rows, with sessions however
\* old, the system keeps an active administrator once it has one, with any
\* number of users and handlers.
THEOREM LastAdmin == Spec => []AdminRemains
<1>1. AdminInv => AdminRemains
  BY DEF AdminInv
<1> QED BY InitAdmin, StepAdmin, <1>1, PTL DEF Spec

-----------------------------------------------------------------------------
(* Revoked sessions                                                        *)

Checking == {"marker", "renew", "acting"}
Passed   == {"renew", "acting"}

\* What a handler holds is not later than the clock, lives no longer than what
\* begins to live now, and is as old as the login behind its token.
Timed(q) ==
    /\ q.pc = "wipe" => q.at <= clock
    /\ q.pc \in {"store", "marker"} => q.session.until <= day + TTL
    /\ q.pc \in Checking => q.session.issued = born[q.token]

\* A session that has been revoked has a marker that lives until "until", if that
\* has not gone by.
Marked(s, until) ==
    Revoked(s) /\ day <= until => marker[s.user] # None /\ marker[s.user].until >= until

\* The marker of a session that a handler is about to check or to store outlives
\* it.  One that is about to be renewed was revoked today if at all, or else a
\* day has ended since it was checked; and one that has passed was not revoked
\* before its handler began.
Covered(q) ==
    /\ q.pc = "marker" => q.after <= revoked[q.session.user]
    /\ q.pc \in {"store", "marker"} => Marked(q.session, q.session.until)
    /\ q.pc = "renew" /\ ~q.late => Marked(q.session, day + TTL)
    /\ q.pc \in Passed => born[q.token] > q.after

\* No revocation, and no request at the end of a day, has gone out of order.
Ordinary == ~crossed /\ ~straddled

SessionsTimed ==
    /\ \A u \in Users : revoked[u] <= clock
    /\ \A t \in Tokens : sessions[t] # None =>
        /\ sessions[t].until <= day + TTL
        /\ sessions[t].issued = born[t]

\* The marker of a user is that of the latest revocation, and the marker of a
\* stored session that is revoked outlives it.
SessionsCovered ==
    /\ \A u \in Users : marker[u] # None => marker[u].at = revoked[u]
    /\ \A t \in Tokens : sessions[t] # None => Marked(sessions[t], sessions[t].until)

SessionInv ==
    /\ HandlerInv
    /\ SessionsTimed
    /\ \A h \in Handlers : Timed(hd[h])
    /\ Ordinary => SessionsCovered /\ \A h \in Handlers : Covered(hd[h])

LEMMA InitSession == Init => SessionInv
<1> SUFFICES ASSUME Init PROVE SessionInv
  OBVIOUS
<1>1. SessionsTimed /\ SessionsCovered
  BY DEF Init, SessionsTimed, SessionsCovered
<1>2. Timed(Idle) /\ Covered(Idle)
  BY DEF Idle, Timed, Covered, Checking, Passed
<1>3. \A h \in Handlers : hd[h] = Idle
  BY DEF Init
<1> QED BY <1>1, <1>2, <1>3, InitHandler DEF SessionInv

\* The facts about types that the steps use.
LEMMA SessionFacts ==
    ASSUME HandlerInv
    PROVE  /\ TTL \in Nat /\ day \in Nat /\ clock \in Nat /\ crossed \in BOOLEAN /\ straddled \in BOOLEAN
           /\ \A t \in Tokens : sessions[t] # None =>
                /\ sessions[t].user \in Users
                /\ sessions[t].issued \in Nat /\ sessions[t].until \in Nat
           /\ \A t \in Tokens : born[t] \in Nat
           /\ \A u \in Users : /\ revoked[u] \in Nat
                               /\ marker[u] # None => marker[u].at \in Nat /\ marker[u].until \in Nat
           /\ \A h \in Handlers : hd[h].at \in Nat /\ hd[h].after \in Nat
           /\ \A h \in Handlers : hd[h].pc \in {"issue", "store", "marker", "renew", "acting"} =>
                /\ hd[h].session \in Session /\ hd[h].session.user \in Users
                /\ hd[h].session.issued \in Nat /\ hd[h].session.until \in Nat
           /\ \A h \in Handlers : hd[h].pc \in Checking => hd[h].token \in Tokens
<1>1. /\ Instant \subseteq Nat /\ Life \subseteq Nat
      /\ TTL \in Nat /\ day \in Nat /\ clock \in Nat
      /\ crossed \in BOOLEAN /\ straddled \in BOOLEAN
  BY SessionsAssumption DEF HandlerInv, TypeOK, Instant, Life
<1>2. \A s \in Session : s.user \in Users /\ s.issued \in Nat /\ s.until \in Nat
  BY <1>1 DEF Session
<1>3. \A m \in Marker : m.at \in Nat /\ m.until \in Nat
  BY <1>1 DEF Marker
<1>4. \A h \in Handlers : hd[h].at \in Nat /\ hd[h].after \in Nat
  BY <1>1 DEF HandlerInv, TypeOK, Handler
<1>5. \A h \in Handlers : hd[h].pc \in {"issue", "store", "marker", "renew", "acting"} =>
          hd[h].session \in Session
  BY DEF HandlerInv, Placed
<1>6. \A h \in Handlers : hd[h].pc \in Checking => hd[h].token \in Tokens
  BY DEF HandlerInv, Placed, Checking
<1>7. /\ \A t \in Tokens : sessions[t] \in Session \union {None}
      /\ \A u \in Users : marker[u] \in Marker \union {None}
      /\ \A t \in Tokens : born[t] \in Instant
      /\ \A u \in Users : revoked[u] \in Instant
  BY DEF HandlerInv, TypeOK
<1> HIDE DEF HandlerInv
<1> QED BY <1>1, <1>2, <1>3, <1>4, <1>5, <1>6, <1>7

\* A step that takes one handler on, and at most deletes sessions.
LEMMA TakeOn ==
    ASSUME SessionInv, HandlerInv', NEW h \in Handlers, NEW q,
           hd' = [hd EXCEPT ![h] = q],
           \A t \in Tokens : sessions'[t] = sessions[t] \/ sessions'[t] = None,
           UNCHANGED <<marker, time, born, revoked, crossed>>,
           straddled => straddled',
           Timed(q), Ordinary' => Covered(q)
    PROVE  SessionInv'
<1>0. Ordinary' => Ordinary
  BY DEF Ordinary
<1>1. \A g \in Handlers : hd'[g] = IF g = h THEN q ELSE hd[g]
  BY DEF SessionInv, HandlerInv, TypeOK
<1>2. SessionsTimed'
  BY DEF SessionInv, SessionsTimed, time
<1>3. \A g \in Handlers : Timed(hd'[g])
  BY <1>1 DEF SessionInv
<1>4. Ordinary' => \A g \in Handlers : Covered(hd'[g])
  BY <1>0, <1>1 DEF SessionInv
<1>5. Ordinary' => SessionsCovered'
  BY <1>0 DEF SessionInv, SessionsCovered, Marked, Revoked, time
<1>6. \A g \in Handlers : Timed(hd[g])'
  BY <1>3 DEF Timed, time
<1>7. Ordinary' => \A g \in Handlers : Covered(hd[g])'
  BY <1>4 DEF Covered, Marked, Revoked, time
<1> QED BY <1>2, <1>5, <1>6, <1>7 DEF SessionInv

Quiet == PCs \ {"store", "marker", "renew", "acting", "wipe"}

\* Where a handler holds no session that counts, nothing is asked of it.
LEMMA QuietFits ==
    ASSUME NEW q, q.pc \in Quiet
    PROVE  Timed(q) /\ Covered(q)
BY DEF Quiet, Timed, Covered, Checking, Passed

LEMMA QuietStep ==
    ASSUME SessionInv, HandlerInv', NEW h \in Handlers,
           \/ SetupRequired(h)
           \/ \E u \in Users : \/ CreateInitialAdmin(h, u) \/ VerifyPassword(h, u)
                               \/ RevokeSessions(h, u)
           \/ RefuseRevoked(h) \/ Logout(h) \/ Leave(h)
           \/ \E u \in Users, role \in {"admin", "user"} : CreateUser(h, u, role)
           \/ \E u \in Users, want \in Wants : EditUser(h, u, want)
           \/ UpdateAppUser(h) \/ UpdateRefused(h)
           \/ ReadMembers(h)
    PROVE  SessionInv'
<1>1. hd \in [Handlers -> Handler] /\ hd[h] \in Handler
  BY DEF SessionInv, HandlerInv, TypeOK
<1> DEFINE q == hd'[h]
<1>2. CASE \E u \in Users : CreateInitialAdmin(h, u) \/ VerifyPassword(h, u)
  <2>1. /\ \E u, row : hd' = [hd EXCEPT ![h] = Issuing(u, row)]
        /\ UNCHANGED <<redis, time, history>>
    BY <1>2 DEF CreateInitialAdmin, VerifyPassword
  <2>2. PICK u, row : hd' = [hd EXCEPT ![h] = Issuing(u, row)]
    BY <2>1
  <2>3. Issuing(u, row).pc \in Quiet
    BY DEF Issuing, Idle, Quiet, PCs
  <2> QED BY <2>1, <2>2, <2>3, QuietFits, TakeOn DEF redis, history
<1>3. CASE \/ RefuseRevoked(h) \/ Logout(h) \/ Leave(h) \/ UpdateRefused(h)
           \/ \E u \in Users, role \in {"admin", "user"} : CreateUser(h, u, role)
  <2>1. End(h) /\ UNCHANGED <<marker, time, history>>
    BY <1>3 DEF RefuseRevoked, Logout, Leave, UpdateRefused, CreateUser, redis
  <2>2. \A t \in Tokens : sessions'[t] = sessions[t] \/ sessions'[t] = None
    BY <1>3 DEF RefuseRevoked, Logout, Leave, UpdateRefused, CreateUser, redis, SessionInv,
                HandlerInv, TypeOK
  <2>3. Idle.pc \in Quiet
    BY DEF Idle, Quiet, PCs
  <2> QED BY <2>1, <2>2, <2>3, QuietFits, TakeOn DEF End, history
<1>4. CASE \/ SetupRequired(h) \/ UpdateAppUser(h) \/ ReadMembers(h)
           \/ \E u \in Users : RevokeSessions(h, u)
           \/ \E u \in Users, want \in Wants : EditUser(h, u, want)
  <2>1. UNCHANGED <<redis, time, history>>
    BY <1>4 DEF SetupRequired, UpdateAppUser, ReadMembers, RevokeSessions, EditUser
  <2>2. hd' = [hd EXCEPT ![h] = q]
    BY <1>1, <1>4 DEF SetupRequired, UpdateAppUser, ReadMembers, RevokeSessions, EditUser, Go, End
  <2>3. q.pc \in {"setup", "idle", "members", "stamp", "update"}
    <3>1. CASE SetupRequired(h) \/ ReadMembers(h)
      BY <1>1, <3>1 DEF SetupRequired, ReadMembers, Go, Handler
    <3>2. CASE UpdateAppUser(h) \/ \E u \in Users : RevokeSessions(h, u)
      <4>1. hd'[h] = Idle \/ \E u, want : hd'[h] = Revoking(u, want)
        BY <1>1, <3>2 DEF UpdateAppUser, RevokeSessions, End
      <4> QED BY <4>1, RevokingPlace DEF Idle
    <3>3. CASE \E u \in Users, want \in Wants : EditUser(h, u, want)
      <4>1. PICK u \in Users, want \in Wants : EditUser(h, u, want)
        BY <3>3
      <4>2. hd'[h].pc = "update"
        BY <1>1, <4>1 DEF EditUser, Idle
      <4> QED BY <4>2
    <3> QED BY <1>4, <3>1, <3>2, <3>3
  <2>4. q.pc \in Quiet
    BY <2>3 DEF Quiet, PCs
  <2> HIDE DEF q
  <2> QED BY <2>1, <2>2, <2>4, QuietFits, TakeOn DEF redis, history
<1> QED BY <1>2, <1>3, <1>4

\* GetSession, CheckMarker and RenewFails.  What passes is not revoked, or else
\* has run out since it was read.
LEMMA CheckStep ==
    ASSUME SessionInv, HandlerInv', NEW h \in Handlers,
           \/ \E t \in Tokens : GetSession(h, t)
           \/ CheckMarker(h) \/ RenewFails(h)
    PROVE  SessionInv'
<1> USE SessionFacts DEF SessionInv, Checking, Passed
<1>0. hd \in [Handlers -> Handler] /\ hd[h] \in Handler
  BY DEF HandlerInv, TypeOK
<1>1. ASSUME NEW t \in Tokens, GetSession(h, t) PROVE SessionInv'
  <2> DEFINE q == [Idle EXCEPT !.pc = "marker", !.token = t, !.session = sessions[t],
                               !.after = revoked[sessions[t].user]]
  <2>1. /\ q.pc = "marker" /\ q.token = t /\ q.session = sessions[t]
        /\ q.after = revoked[sessions[t].user]
    BY DEF Idle
  <2>2. hd' = [hd EXCEPT ![h] = q] /\ sessions[t] # None
    BY <1>1 DEF GetSession
  <2> HIDE DEF q
  <2>3. Timed(q)
    BY <2>1, <2>2 DEF Timed, SessionsTimed
  <2>4. Ordinary => Covered(q)
    BY <2>1, <2>2 DEF Covered, SessionsCovered
  <2>5. UNCHANGED <<redis, time, history>>
    BY <1>1 DEF GetSession
  <2> QED BY <2>2, <2>3, <2>4, <2>5, TakeOn DEF redis, history, Ordinary
<1>2. CASE CheckMarker(h)
  <2> DEFINE s == hd[h].session
  <2>1. /\ hd[h].pc = "marker" /\ ~Refused(h)
        /\ UNCHANGED <<redis, time, born, revoked, crossed>>
        /\ straddled' = (straddled \/ (Revoked(s) /\ s.until < day))
    BY <1>2 DEF CheckMarker
  <2>2. PICK pc \in {"renew", "acting"} : hd' = [hd EXCEPT ![h].pc = pc, ![h].late = FALSE]
    BY <1>2 DEF CheckMarker
  <2> DEFINE q == [hd[h] EXCEPT !.pc = pc, !.late = FALSE]
  <2>3. /\ q.pc = pc /\ q.token = hd[h].token /\ q.session = s /\ q.after = hd[h].after
        /\ hd' = [hd EXCEPT ![h] = q]
    BY <1>0, <2>2 DEF Handler
  <2>4. s.user \in Users /\ s.issued \in Nat /\ s.until \in Nat /\ s.issued = born[hd[h].token]
    BY <2>1 DEF Timed
  <2>5. ASSUME Ordinary' PROVE Ordinary /\ s.issued > revoked[s.user]
    <3>1. Ordinary /\ ~(Revoked(s) /\ s.until < day)
      BY <2>1, <2>5 DEF Ordinary
    <3>2. Covered(hd[h]) /\ SessionsCovered
      BY <3>1
    <3>3. CASE Revoked(s)
      <4>1. marker[s.user] # None /\ marker[s.user].at = revoked[s.user]
        BY <2>1, <2>4, <3>1, <3>2, <3>3 DEF Covered, SessionsCovered, Marked
      <4> QED BY <2>1, <3>3, <4>1 DEF Refused, Mine, Revoked
    <3> QED BY <2>4, <3>1, <3>3 DEF Revoked
  <2> HIDE DEF q, s
  <2>6. Timed(q)
    BY <2>1, <2>3, <2>4 DEF Timed
  <2>7. ASSUME Ordinary' PROVE Covered(q)
    <3>1. hd[h].after <= revoked[s.user]
      BY <2>1, <2>5, <2>7 DEF Covered, s
    <3> QED BY <2>3, <2>4, <2>5, <2>7, <3>1 DEF Covered, Marked, Revoked
  <2> QED BY <2>1, <2>3, <2>6, <2>7, TakeOn DEF redis
<1>3. CASE RenewFails(h)
  <2>1. hd[h].pc = "renew" /\ Go(h, "acting") /\ UNCHANGED <<redis, time, history>>
    BY <1>3 DEF RenewFails
  <2> DEFINE q == [hd[h] EXCEPT !.pc = "acting"]
  <2>2. /\ q.pc = "acting" /\ q.token = hd[h].token /\ q.session = hd[h].session
        /\ q.after = hd[h].after /\ hd' = [hd EXCEPT ![h] = q]
    BY <1>0, <2>1 DEF Go, Handler
  <2> HIDE DEF q
  <2>3. Timed(q)
    BY <2>1, <2>2 DEF Timed
  <2>4. Ordinary => Covered(q)
    BY <2>1, <2>2 DEF Covered
  <2> QED BY <2>1, <2>2, <2>3, <2>4, TakeOn DEF redis, history, Ordinary
<1> QED BY <1>1, <1>2, <1>3

LEMMA IssueStep ==
    ASSUME SessionInv, HandlerInv', NEW h \in Handlers, Issue(h)
    PROVE  SessionInv'
<1> USE SessionFacts DEF SessionInv, Checking, Passed, Revoked, Ordinary
<1>1. hd \in [Handlers -> Handler] /\ hd[h] \in Handler /\ hd[h].session \in Session
  BY DEF HandlerInv, TypeOK, Issue
<1>2. /\ hd'[h].pc = "store" /\ hd'[h].session.user = hd[h].session.user
      /\ hd'[h].session.issued = clock' /\ hd'[h].session.until = day + TTL
  BY <1>1 DEF Issue, Handler, Session
<1>3. \A g \in Handlers : g # h => hd'[g] = hd[g]
  BY <1>1 DEF Issue
<1>4. /\ clock' = clock + 1
      /\ UNCHANGED <<sessions, marker, day, born, revoked, crossed, straddled>>
  BY DEF Issue, Now, redis, history
<1> HIDE DEF HandlerInv
<1>5. SessionsTimed'
  BY <1>4 DEF SessionsTimed
<1>6. \A g \in Handlers : Timed(hd[g])'
  BY <1>2, <1>3, <1>4 DEF Timed
<1>7. Ordinary' => SessionsCovered'
  BY <1>4 DEF SessionsCovered, Marked
<1>8. Ordinary' => \A g \in Handlers : Covered(hd[g])'
  <2>1. hd[h].session.user \in Users /\ hd'[h].session.issued > revoked[hd'[h].session.user]
    BY <1>1, <1>2, <1>4 DEF SessionsTimed, Session
  <2>2. Covered(hd[h])'
    BY <1>2, <1>4, <2>1 DEF Covered, Marked
  <2>3. ASSUME Ordinary, NEW g \in Handlers, g # h PROVE Covered(hd[g])'
    <3>1. Covered(hd[g]) /\ hd'[g] = hd[g]
      BY <1>3, <2>3
    <3> QED BY <1>4, <3>1 DEF Covered, Marked
  <2> QED BY <1>4, <2>2, <2>3
<1> QED BY <1>5, <1>6, <1>7, <1>8

LEMMA StampStep ==
    ASSUME SessionInv, HandlerInv', NEW h \in Handlers, Stamp(h)
    PROVE  SessionInv'
<1> USE SessionFacts DEF SessionInv, Checking, Passed, Revoked, Ordinary
<1>1. hd \in [Handlers -> Handler] /\ hd[h] \in Handler
  BY DEF HandlerInv, TypeOK
<1>2. hd'[h].pc = "wipe" /\ hd'[h].at = clock'
  BY <1>1 DEF Stamp, Handler
<1>3. \A g \in Handlers : g # h => hd'[g] = hd[g]
  BY <1>1 DEF Stamp
<1>4. /\ clock' = clock + 1
      /\ UNCHANGED <<sessions, marker, day, born, revoked, crossed, straddled>>
  BY DEF Stamp, Now, redis, history
<1> HIDE DEF HandlerInv
<1>5. SessionsTimed'
  BY <1>4 DEF SessionsTimed
<1>6. \A g \in Handlers : Timed(hd[g])'
  BY <1>2, <1>3, <1>4 DEF Timed
<1>7. Ordinary' => SessionsCovered'
  BY <1>4 DEF SessionsCovered, Marked
<1>8. Ordinary' => \A g \in Handlers : Covered(hd[g])'
  BY <1>2, <1>3, <1>4 DEF Covered, Marked
<1> QED BY <1>5, <1>6, <1>7, <1>8

LEMMA StoreStep ==
    ASSUME SessionInv, HandlerInv', NEW h \in Handlers, NEW t \in Tokens, StoreSession(h, t)
    PROVE  SessionInv'
<1> USE SessionFacts DEF SessionInv, Checking, Passed, Revoked, Ordinary
<1> DEFINE s == hd[h].session
<1>1. /\ hd[h].pc = "store" /\ Fresh(t) /\ s.user \in Users
      /\ \E x \in {s, None} : sessions' = [sessions EXCEPT ![t] = x]
      /\ born' = [born EXCEPT ![t] = s.issued]
      /\ hd' = [hd EXCEPT ![h] = Idle]
      /\ UNCHANGED <<marker, clock, day, revoked, crossed, straddled>>
  BY DEF StoreSession, SetSession, End, time
<1>2. /\ sessions \in [Tokens -> Session \union {None}]
      /\ born \in [Tokens -> Instant]
      /\ hd \in [Handlers -> Handler]
  BY DEF HandlerInv, TypeOK
<1>3. /\ \A x \in Tokens : sessions'[x] # None => sessions'[x] = IF x = t THEN s ELSE sessions[x]
      /\ \A x \in Tokens : born'[x] = IF x = t THEN s.issued ELSE born[x]
      /\ \A g \in Handlers : hd'[g] = IF g = h THEN Idle ELSE hd[g]
  BY <1>1, <1>2
<1>4. Idle.pc = "idle" /\ Timed(hd[h]) /\ (Ordinary => Covered(hd[h]))
  BY DEF Idle
<1> HIDE DEF HandlerInv
<1>5. SessionsTimed'
  BY <1>1, <1>3, <1>4 DEF SessionsTimed, Timed
<1>6. \A g \in Handlers : Timed(hd[g])'
  BY <1>1, <1>3, <1>4 DEF Timed, Fresh
<1>7. Ordinary' => SessionsCovered'
  BY <1>1, <1>3, <1>4 DEF SessionsCovered, Marked, Covered, Timed
<1>8. Ordinary' => \A g \in Handlers : Covered(hd[g])'
  BY <1>1, <1>3, <1>4 DEF Covered, Marked, Fresh
<1> QED BY <1>5, <1>6, <1>7, <1>8

\* A renewal makes the session live longer.  It is not revoked, or was revoked
\* today, if no day has ended since it was checked.
LEMMA RenewStep ==
    ASSUME SessionInv, HandlerInv', NEW h \in Handlers, Renew(h)
    PROVE  SessionInv'
<1> USE SessionFacts DEF SessionInv, Checking, Passed, Revoked, Ordinary
<1> DEFINE s == Renewed(hd[h].session)
           t == hd[h].token
<1>1. /\ hd[h].pc = "renew"
      /\ \E x \in {s, None} : sessions' = [sessions EXCEPT ![t] = x]
      /\ hd' = [hd EXCEPT ![h].pc = "acting", ![h].session = s]
      /\ straddled' = (straddled \/ (s.issued <= revoked[s.user] /\ hd[h].late))
      /\ UNCHANGED <<marker, clock, day, born, revoked, crossed>>
  BY DEF Renew, SetSession, time
<1>2. /\ sessions \in [Tokens -> Session \union {None}]
      /\ hd \in [Handlers -> Handler] /\ hd[h] \in Handler
      /\ t \in Tokens /\ hd[h].session \in Session
  BY <1>1 DEF HandlerInv, TypeOK
<1>3. /\ s.user = hd[h].session.user /\ s.issued = hd[h].session.issued
      /\ s.until = day + TTL
  BY <1>2 DEF Renewed, Session
<1> HIDE DEF s
<1>4. hd'[h].pc = "acting" /\ hd'[h].session = s /\ hd'[h].token = t /\ hd'[h].after = hd[h].after
  BY <1>1, <1>2 DEF Handler
<1>5. /\ \A x \in Tokens : sessions'[x] # None => sessions'[x] = IF x = t THEN s ELSE sessions[x]
      /\ \A g \in Handlers : g # h => hd'[g] = hd[g]
  BY <1>1, <1>2
<1>6. Timed(hd[h]) /\ (Ordinary => Covered(hd[h]))
  OBVIOUS
<1> HIDE DEF t, HandlerInv
<1>7. SessionsTimed'
  BY <1>1, <1>3, <1>5, <1>6 DEF SessionsTimed, Timed, t
<1>8. \A g \in Handlers : Timed(hd[g])'
  <2>1. Timed(hd[h])'
    BY <1>1, <1>3, <1>4, <1>6 DEF Timed, t
  <2>2. ASSUME NEW g \in Handlers, g # h PROVE Timed(hd[g])'
    <3>1. Timed(hd[g]) /\ hd'[g] = hd[g]
      BY <1>5, <2>2
    <3> QED BY <1>1, <3>1 DEF Timed
  <2> QED BY <2>1, <2>2
<1>11. ASSUME Ordinary' PROVE /\ Ordinary /\ Covered(hd[h])
                              /\ Marked(s, s.until)
  <2>1. Ordinary /\ Covered(hd[h]) /\ ~(s.issued <= revoked[s.user] /\ hd[h].late)
    BY <1>1, <1>6, <1>11
  <2> QED BY <1>1, <1>3, <2>1 DEF Covered, Marked
<1>9. Ordinary' => SessionsCovered'
  BY <1>1, <1>3, <1>5, <1>11 DEF SessionsCovered, Marked
<1>10. Ordinary' => \A g \in Handlers : Covered(hd[g])'
  <2>1. ASSUME Ordinary' PROVE Covered(hd[h])'
    <3>1. born[hd[h].token] > hd[h].after
      BY <1>1, <1>11, <2>1 DEF Covered
    <3> QED BY <1>1, <1>4, <3>1 DEF Covered, t
  <2>2. ASSUME Ordinary', NEW g \in Handlers, g # h PROVE Covered(hd[g])'
    <3>1. Covered(hd[g]) /\ hd'[g] = hd[g]
      BY <1>5, <1>11, <2>2
    <3> QED BY <1>1, <3>1 DEF Covered, Marked
  <2> QED BY <1>1, <2>1, <2>2
<1> QED BY <1>7, <1>8, <1>9, <1>10

\* A revocation leaves a marker that outlives every session of the user that
\* its transaction does not delete.
LEMMA WipeStep ==
    ASSUME SessionInv, HandlerInv', NEW h \in Handlers, Wipe(h)
    PROVE  SessionInv'
<1> USE SessionFacts DEF SessionInv, Checking, Passed, Revoked, Ordinary
<1> DEFINE u == hd[h].target
           at == hd[h].at
<1>1. /\ hd[h].pc = "wipe" /\ u \in Users /\ at \in Nat /\ at <= clock
      /\ \A t \in Tokens : sessions'[t] = sessions[t] \/ sessions'[t] = None
      /\ hd' = [hd EXCEPT ![h] = Idle]
      /\ UNCHANGED <<clock, day, born, straddled>>
  BY DEF Wipe, Placed, HandlerInv, End, time, Timed
<1>2. /\ marker' = [marker EXCEPT ![u] = [at |-> at, until |-> day + TTL]]
      /\ revoked' = [revoked EXCEPT ![u] = IF at > @ THEN at ELSE @]
      /\ crossed' = (crossed \/ revoked[u] > at)
  BY DEF Wipe
<1>3. /\ marker \in [Users -> Marker \union {None}]
      /\ revoked \in [Users -> Instant]
      /\ hd \in [Handlers -> Handler]
      /\ [at |-> at, until |-> day + TTL] \in Marker
  <2>1. at \in Instant /\ day + TTL \in Life
    BY HandlerFacts DEF Handler
  <2> QED BY <2>1 DEF HandlerInv, TypeOK, Marker
<1>4. /\ marker'[u] # None /\ marker'[u].at = at /\ marker'[u].until = day + TTL
      /\ revoked'[u] = (IF at > revoked[u] THEN at ELSE revoked[u])
      /\ \A v \in Users : v # u => marker'[v] = marker[v] /\ revoked'[v] = revoked[v]
  BY <1>1, <1>2, <1>3, SessionsAssumption
<1>5. \A g \in Handlers : hd'[g] = IF g = h THEN Idle ELSE hd[g]
  BY <1>1, <1>3
<1>6. Idle.pc = "idle"
  BY DEF Idle
<1>7. ASSUME Ordinary' PROVE Ordinary /\ revoked'[u] = at
  <2>1. Ordinary /\ ~(revoked[u] > at)
    BY <1>1, <1>2, <1>7
  <2>2. revoked[u] \in Nat
    BY <1>1
  <2> QED BY <1>1, <1>4, <2>1, <2>2
<1> HIDE DEF u, at, HandlerInv
<1>8. SessionsTimed'
  BY <1>1, <1>4 DEF SessionsTimed
<1>9. \A g \in Handlers : Timed(hd[g])'
  BY <1>1, <1>5, <1>6 DEF Timed
<1>10. ASSUME Ordinary' PROVE SessionsCovered'
  BY <1>1, <1>4, <1>7, <1>10 DEF SessionsCovered, SessionsTimed, Marked
<1>11. ASSUME Ordinary', NEW g \in Handlers PROVE Covered(hd[g])'
  <2>1. Covered(hd[g]) /\ Timed(hd[g])
    BY <1>7, <1>11
  <2> QED BY <1>1, <1>4, <1>5, <1>6, <1>7, <1>11, <2>1 DEF Covered, Timed, Marked
<1> QED BY <1>8, <1>9, <1>10, <1>11

\* What lives on has a marker that lives on with it.
LEMMA DayStep ==
    ASSUME SessionInv, HandlerInv', NextDay
    PROVE  SessionInv'
<1> USE SessionFacts DEF SessionInv, Checking, Passed, Revoked, Ordinary
<1>1. /\ day' = day + 1
      /\ \A t \in Tokens : sessions'[t] = Live(sessions[t], day')
      /\ \A u \in Users : marker'[u] = Live(marker[u], day')
      /\ UNCHANGED <<clock, born, revoked, crossed, straddled>>
  BY DEF NextDay, history
<1>2. /\ \A t \in Tokens : sessions'[t] # None =>
            sessions'[t] = sessions[t] /\ day' <= sessions[t].until
      /\ \A u \in Users : marker'[u] # None => marker'[u] = marker[u]
      /\ \A u \in Users : marker[u] # None /\ marker[u].until >= day' => marker'[u] = marker[u]
  BY <1>1 DEF Live
<1>6. /\ \A g \in Handlers : Kept(hd'[g], hd[g])
      /\ \A g \in Handlers : hd[g].pc = "renew" => hd'[g].late
  <2>1. HandlerInv
    OBVIOUS
  <2> QED BY <2>1, DayHandler, Zenon
<1> HIDE DEF HandlerInv
<1>3. SessionsTimed'
  BY <1>1, <1>2 DEF SessionsTimed
<1>4. ASSUME NEW g \in Handlers PROVE Timed(hd[g])'
  BY <1>1, <1>6 DEF Timed, Kept
<1>7. ASSUME NEW s, s.user \in Users, s.until \in Nat, s.issued \in Nat, Marked(s, s.until)
      PROVE  s.issued <= revoked[s.user] /\ day' <= s.until =>
                marker'[s.user] # None /\ marker'[s.user].until >= s.until
  BY <1>1, <1>2, <1>7 DEF Marked
<1>8. ASSUME Ordinary', NEW g \in Handlers PROVE Covered(hd[g])'
  <2>1. Covered(hd[g]) /\ Kept(hd'[g], hd[g])
    BY <1>1, <1>6, <1>8
  <2>2. hd[g].pc \in {"store", "marker"} => Marked(hd[g].session, hd[g].session.until)
    BY <2>1 DEF Covered
  <2>3. hd'[g].pc \in {"store", "marker"} => Marked(hd[g].session, hd[g].session.until)'
    BY <1>1, <1>7, <2>1, <2>2 DEF Kept, Marked
  <2> QED BY <1>1, <1>6, <2>1, <2>3 DEF Covered, Kept
<1>5. ASSUME Ordinary' PROVE SessionsCovered'
  BY <1>1, <1>2, <1>5, <1>7 DEF SessionsCovered, Marked
<1> QED BY <1>3, <1>4, <1>5, <1>8

LEMMA StepSession == SessionInv /\ [Next]_vars => SessionInv'
<1> SUFFICES ASSUME SessionInv, [Next]_vars PROVE SessionInv'
  OBVIOUS
<1>1. HandlerInv'
  BY StepType DEF SessionInv
<1>2. CASE NextDay
  BY <1>1, <1>2, DayStep
<1>3. ASSUME NEW h \in Handlers, Step(h) PROVE SessionInv'
  BY <1>1, <1>3, QuietStep, CheckStep, IssueStep, StampStep, StoreStep, RenewStep, WipeStep DEF Step
<1>4. CASE UNCHANGED vars
  BY <1>1, <1>4 DEF vars, redis, time, history, SessionInv, SessionsTimed, SessionsCovered, Timed,
                    Covered, Marked, Revoked, Ordinary
<1> QED BY <1>2, <1>3, <1>4 DEF Next

\* No request that begins after a user's sessions were revoked passes with one
\* of them, whatever renewals, logins and expiries come in between, for any
\* users, tokens, handlers and times to live: unless revocations of the same
\* user have overtaken each other, or the end of a day has caught a request
\* between its check and its renewal with a revocation in between, or between
\* its two reads (crossed, straddled).
THEOREM Revocation == Spec => []RevokedStaysOut
<1>1. SessionInv => RevokedStaysOut
  BY DEF SessionInv, Covered, Passed, Ordinary, RevokedStaysOut
<1> QED BY InitSession, StepSession, <1>1, PTL DEF Spec
=============================================================================
