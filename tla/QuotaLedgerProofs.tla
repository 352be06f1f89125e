------------------------- MODULE QuotaLedgerProofs -------------------------
(***************************************************************************)
(* Theorems about QuotaLedger, for any number of replicas, requests and    *)
(* administrators, any grants and any bounds.  The last two need that one  *)
(* administrator works at a time: then the replica that served the last    *)
(* change is up to date, and the quota that is checked before a request    *)
(* and charged after it is overrun by no more than the requests in         *)
(* progress can cost.  (With two administrators both fail: the runs        *)
(* quota_stale_reload and quota_lost_reset.)                               *)
(***************************************************************************)
EXTENDS QuotaLedger, FoldTheorems, TLAPS

-----------------------------------------------------------------------------
(* Arithmetic of quotaOverage.                                             *)

\* quotaOverage is a natural number for natural numbers.
LEMMA OverageNat ==
    ASSUME NEW amount \in Nat, NEW limit \in Nat
    PROVE  Overage(amount, limit) \in Nat
BY DEF Overage

\* quotaOverage never falls when more is used, and grows by no more than the
\* use: a record is never billed twice by InsertUsageBatch.
LEMMA OverageGrowth ==
    ASSUME NEW amount \in Nat, NEW cost \in Nat, NEW limit \in Nat
    PROVE  Overage(amount + cost, limit) - Overage(amount, limit) \in 0..cost
BY DEF Overage

\* What a record moves to the lifetime counter is a part of its cost.
LEMMA SpillBounds ==
    ASSUME NEW t \in Token, NEW p \in Periods, NEW cost \in Nat,
           used \in [Periods -> Micro]
    PROVE  Spill(t, p, cost) \in 0..cost
<1>1. used[p] \in Nat /\ t.weekly \in Nat
  BY QuotaAssumption DEF Micro, Token
<1>2. Overage(used[p] + cost, t.weekly) - Overage(used[p], t.weekly) \in 0..cost
  BY <1>1, OverageGrowth
<1> QED BY <1>2 DEF Spill

\* The period of an issued anchor is one of the periods of the model.
LEMMA PeriodType ==
    ASSUME NEW k \in Anchors, age \in [Anchors -> Ages]
    PROVE  Period(k) \in Periods /\ Period(k)[1] = k
BY DEF Period, Periods

-----------------------------------------------------------------------------
(* Type correctness                                                        *)

LEMMA InitType == Init => TypeOK
<1> SUFFICES ASSUME Init PROVE TypeOK
  OBVIOUS
<1>1. PICK g \in Grants :
        /\ user = [weekly |-> g.weekly, lifetime |-> g.lifetime, spent |-> 0, anchor |-> 0]
        /\ weeklyAt = [k \in Anchors |-> g.weekly]
        /\ token = [b \in Replicas |-> Copy(user)]
        /\ used = [p \in Periods |-> 0]
        /\ anchors = 0
        /\ age = [k \in Anchors |-> 0]
        /\ req = [r \in Requests |-> Done]
        /\ adm = [a \in Admins |-> Resting]
        /\ real = 0
  BY DEF Init
<1>2. g.weekly \in Nat /\ g.lifetime \in Nat
  BY QuotaAssumption
<1>3. 0 \in Anchors /\ 0 \in Ages /\ 0 \in Micro /\ <<0, 0>> \in Periods
  BY QuotaAssumption DEF Anchors, Ages, Micro, Periods
<1>4. user \in User /\ Copy(user) \in Token
  BY <1>1, <1>2, <1>3 DEF User, Copy, Token
<1>5. Done \in Request
  BY <1>3 DEF Done, Request, NoToken, NoRow, Token
<1>6. Resting \in Admin
  BY <1>3 DEF Resting, Admin, NoGrant, NoToken, Token
<1> QED BY <1>1, <1>2, <1>3, <1>4, <1>5, <1>6 DEF TypeOK

\* Facts about the null records that every step uses.
LEMMA NullRecords == Done \in Request /\ Resting \in Admin /\ NoToken \in Token
<1>1. 0 \in Anchors /\ <<0, 0>> \in Periods
  BY QuotaAssumption DEF Anchors, Ages, Periods
<1> QED BY <1>1 DEF Done, Request, NoToken, NoRow, Token, Resting, Admin, NoGrant

LEMMA RequestStepType ==
    ASSUME TypeOK, NEW r \in Requests, RequestStep(r)
    PROVE  TypeOK'
<1> USE DEF TypeOK
<1>0. Done \in Request
  BY NullRecords
<1>1. ASSUME NEW b \in Replicas, Authenticate(r, b) PROVE TypeOK'
  <2>1. real' \in Nat
    BY <1>1 DEF Authenticate, BeganAnew
  <2> QED BY <1>1, <2>1 DEF Authenticate, Request
<1>2. CASE ReadRow(r)
  <2> DEFINE spare == user.spent < user.lifetime
             row == [weekly |-> user.weekly, spare |-> spare]
  <2>1. Period(user.anchor) \in Periods /\ user.weekly \in Nat
    BY PeriodType DEF User
  <2>2. spare \in BOOLEAN
    OBVIOUS
  <2> HIDE DEF spare
  <2>3. row \in [weekly : Nat, spare : BOOLEAN]
    BY <2>1, <2>2
  <2>4. req' = [req EXCEPT ![r].pc = "counting", ![r].row = row,
                           ![r].period = Period(user.anchor)]
    BY <1>2 DEF ReadRow, spare
  <2> HIDE DEF row
  <2>5. [pc |-> "counting", tok |-> req[r].tok, row |-> row,
         period |-> Period(user.anchor)] \in Request
    BY <2>1, <2>3 DEF Request
  <2>6. req' \in [Requests -> Request]
    <3>1. req[r] \in Request
      OBVIOUS
    <3>2. req'[r] = [pc |-> "counting", tok |-> req[r].tok, row |-> row,
                     period |-> Period(user.anchor)]
      BY <2>4, <3>1 DEF Request
    <3>3. \A q \in Requests \ {r} : req'[q] = req[q]
      BY <2>4
    <3>4. DOMAIN req' = Requests /\ req' = [q \in Requests |-> req'[q]]
      BY <2>4
    <3> QED BY <2>5, <3>2, <3>3, <3>4
  <2> QED BY <1>2, <2>6 DEF ReadRow
<1>3. CASE Admit(r)
  BY <1>3, <1>0 DEF Admit, Request
<1>4. CASE Reject(r)
  BY <1>4, <1>0 DEF Reject
<1>5. ASSUME NEW cost \in 1..MaxCost, Charge(r, cost) PROVE TypeOK'
  <2> DEFINE t == req[r].tok
             p == Period(t.anchor)
  <2>1. t \in Token /\ p \in Periods
    BY PeriodType DEF Request, Token
  <2>2. used' \in [Periods -> Micro]
    BY <1>5, <2>1 DEF Charge
  <2>3. user' \in User
    BY <1>5 DEF Charge, User
  <2>4. req' \in [Requests -> Request]
    BY <1>5, <1>0 DEF Charge
  <2>5. real' \in Nat
    BY <1>5, QuotaAssumption DEF Charge, Counted
  <2> QED BY <1>5, <2>2, <2>3, <2>4, <2>5 DEF Charge
<1>6. CASE EndUncharged(r)
  BY <1>6, <1>0 DEF EndUncharged
<1>7. ASSUME NEW cost \in 1..MaxCost, EndUnlimited(r, cost) PROVE TypeOK'
  <2>1. real' \in Nat
    BY <1>7, QuotaAssumption DEF EndUnlimited, Counted
  <2> QED BY <1>0, <1>7, <2>1 DEF EndUnlimited
<1> QED BY <1>1, <1>2, <1>3, <1>4, <1>5, <1>6, <1>7 DEF RequestStep

\* Restart keeps the row, the anchors and the history well typed.
LEMMA RestartType ==
    ASSUME TypeOK, NEW weekly \in Nat, NEW lifetime \in Nat, Restart(weekly, lifetime)
    PROVE  /\ anchors + 1 \in Anchors
           /\ user' \in User /\ anchors' \in Anchors /\ weeklyAt' \in [Anchors -> Nat]
           /\ real' \in Nat
<1>1. anchors + 1 \in Anchors
  BY QuotaAssumption DEF TypeOK, Restart, Anchors
<1> QED BY <1>1 DEF TypeOK, Restart, BeganAnew, User

LEMMA AdminStepType ==
    ASSUME TypeOK, NEW a \in Admins, AdminStep(a)
    PROVE  TypeOK'
<1> USE DEF TypeOK
<1>0. /\ Resting \in Admin /\ NoToken \in Token /\ Copy(user) \in Token
      /\ user.weekly \in Nat /\ user.lifetime \in Nat
  BY NullRecords DEF Copy, User, Token
<1>1. ASSUME NEW b \in Replicas, NEW g \in Grants, BeginUpdate(a, b, g) PROVE TypeOK'
  <2>1. [pc |-> "writing", rep |-> b, grant |-> g, seen |-> Copy(user)] \in Admin
    BY <1>0 DEF Admin
  <2> QED BY <1>1, <2>1 DEF BeginUpdate
<1>2. CASE WriteUpdate(a)
  <2> DEFINE g == adm[a].grant
  <2>1. g.weekly \in Nat /\ g.lifetime \in Nat /\ adm[a].seen \in Token
    BY QuotaAssumption DEF Admin, NoGrant
  <2>2. [Resting EXCEPT !.pc = "reloading", !.rep = adm[a].rep] \in Admin
    BY <1>0 DEF Admin
  <2>3. adm' \in [Admins -> Admin]
    BY <1>2, <2>2 DEF WriteUpdate
  <2>4. CASE adm[a].seen.weekly # g.weekly
    <3>1. Restart(g.weekly, g.lifetime)
      BY <1>2, <2>4 DEF WriteUpdate
    <3> QED BY <1>2, <2>1, <2>3, <3>1, RestartType DEF WriteUpdate
  <2>5. CASE adm[a].seen.weekly = g.weekly
    <3>1. user' \in User
      BY <1>2, <2>1, <2>5 DEF WriteUpdate, User, Token
    <3>2. real' \in Nat
      BY <1>2, <2>5 DEF WriteUpdate, LimitsWritten
    <3> QED BY <1>2, <2>3, <2>5, <3>1, <3>2 DEF WriteUpdate
  <2> QED BY <2>4, <2>5
<1>3. ASSUME NEW b \in Replicas, ResetUserQuota(a, b) PROVE TypeOK'
  <2>1. [Resting EXCEPT !.pc = "reloading", !.rep = b] \in Admin
    BY <1>0 DEF Admin
  <2>2. Restart(user.weekly, user.lifetime)
    BY <1>3 DEF ResetUserQuota
  <2> QED BY <1>0, <1>3, <2>1, <2>2, RestartType DEF ResetUserQuota
<1>4. ASSUME NEW b \in Replicas, ResetWeeklyQuotas(a, b) PROVE TypeOK'
  <2>1. [Resting EXCEPT !.pc = "reloading", !.rep = b] \in Admin
    BY <1>0 DEF Admin
  <2>2. CASE user.weekly > 0
    <3>1. Restart(user.weekly, user.lifetime)
      BY <1>4, <2>2 DEF ResetWeeklyQuotas
    <3> QED BY <1>0, <1>4, <2>1, <3>1, RestartType DEF ResetWeeklyQuotas
  <2>3. CASE ~(user.weekly > 0)
    BY <1>4, <2>1, <2>3 DEF ResetWeeklyQuotas
  <2> QED BY <2>2, <2>3
<1>5. CASE ReadTokens(a)
  BY <1>0, <1>5 DEF ReadTokens, Admin
<1>6. CASE InstallTokens(a)
  <2>1. [Resting EXCEPT !.rep = adm[a].rep] \in Admin /\ adm[a].seen \in Token
    BY <1>0 DEF Admin
  <2> QED BY <1>6, <2>1 DEF InstallTokens
<1>7. CASE FailReload(a)
  <2>1. [Resting EXCEPT !.pc = "failed"] \in Admin
    BY <1>0 DEF Admin
  <2> QED BY <1>7, <2>1 DEF FailReload
<1> QED BY <1>1, <1>2, <1>3, <1>4, <1>5, <1>6, <1>7 DEF AdminStep

LEMMA PassWeekType ==
    ASSUME TypeOK, NEW k \in Anchors, PassWeek(k)
    PROVE  TypeOK'
<1>1. age[k] + 1 \in Ages
  BY QuotaAssumption DEF TypeOK, PassWeek, Ages
<1>2. real' \in Nat
  BY DEF TypeOK, PassWeek, BeganAnew
<1> QED BY <1>1, <1>2 DEF TypeOK, PassWeek

LEMMA StepType == TypeOK /\ [Next]_vars => TypeOK'
<1> SUFFICES ASSUME TypeOK, [Next]_vars PROVE TypeOK'
  OBVIOUS
<1>1. CASE UNCHANGED vars
  BY <1>1 DEF vars, TypeOK
<1> QED BY <1>1, RequestStepType, AdminStepType, PassWeekType DEF Next

\* The ledger keeps its types: in particular no counter leaves the range of
\* its BIGINT column, because a transaction that would is rolled back.
THEOREM TypeCorrect == Spec => []TypeOK
BY InitType, StepType, PTL DEF Spec

-----------------------------------------------------------------------------
(* An anchor fixes the weekly limit of its weeks                           *)

\* AnchorFixesLimit is not inductive: Restart writes the history at the next
\* anchor, and nothing in it says that nobody holds that anchor already.
Issued ==
    /\ user.anchor <= anchors
    /\ \A b \in Replicas : token[b].anchor <= anchors
    /\ \A r \in Requests : Limited(req[r].tok) => req[r].tok.anchor <= anchors
    /\ \A a \in Admins :
        adm[a].pc \in {"writing", "installing"} => adm[a].seen.anchor <= anchors

LedgerInv == TypeOK /\ AnchorFixesLimit /\ Issued

\* What holds of one holder of limits.
Sound(t) == t.anchor <= anchors /\ Pairs(t)

LEMMA InitLedger == Init => AnchorFixesLimit /\ Issued
<1> SUFFICES ASSUME Init PROVE AnchorFixesLimit /\ Issued
  OBVIOUS
<1>1. PICK g \in Grants :
        /\ user = [weekly |-> g.weekly, lifetime |-> g.lifetime, spent |-> 0, anchor |-> 0]
        /\ weeklyAt = [k \in Anchors |-> g.weekly]
        /\ token = [b \in Replicas |-> Copy(user)]
        /\ anchors = 0
        /\ req = [r \in Requests |-> Done]
        /\ adm = [a \in Admins |-> Resting]
  BY DEF Init
<1>2. 0 \in Anchors
  BY QuotaAssumption DEF Anchors
<1>3. user.anchor = 0 /\ user.weekly = g.weekly /\ weeklyAt[0] = g.weekly
  BY <1>1, <1>2
<1>4. Sound(user)
  BY <1>1, <1>3 DEF Sound, Pairs
<1>5. ASSUME NEW b \in Replicas PROVE Sound(token[b])
  BY <1>1, <1>3 DEF Sound, Pairs, Copy
<1>6. ASSUME NEW r \in Requests PROVE ~Limited(req[r].tok)
  BY <1>1 DEF Done, NoToken, Limited
<1>7. ASSUME NEW a \in Admins PROVE adm[a].pc = "idle"
  BY <1>1 DEF Resting
<1> QED BY <1>4, <1>5, <1>6, <1>7 DEF AnchorFixesLimit, Issued, Sound

\* Restart disturbs no holder of an anchor issued before, and leaves the row a
\* sound holder of the new one.
LEMMA RestartSound ==
    ASSUME TypeOK, NEW weekly \in Nat, NEW lifetime \in Nat, Restart(weekly, lifetime)
    PROVE  /\ Sound(user)'
           /\ \A t \in Token : Sound(t) =>
                t.anchor <= anchors' /\ weeklyAt'[t.anchor] = t.weekly
<1>1. anchors + 1 \in Anchors /\ anchors \in Nat
  BY RestartType DEF TypeOK, Anchors
<1>2. /\ user' = [user EXCEPT !.weekly = weekly, !.lifetime = lifetime, !.anchor = anchors + 1]
      /\ weeklyAt' = [weeklyAt EXCEPT ![anchors + 1] = weekly]
      /\ anchors' = anchors + 1
  BY DEF Restart
<1>3. user'.anchor = anchors + 1 /\ user'.weekly = weekly
  BY <1>2 DEF TypeOK, User
<1>4. weeklyAt'[anchors + 1] = weekly
  BY <1>1, <1>2 DEF TypeOK
<1>5. Sound(user)'
  BY <1>1, <1>2, <1>3, <1>4 DEF Sound, Pairs
<1>6. ASSUME NEW t \in Token, Sound(t)
      PROVE  t.anchor <= anchors' /\ weeklyAt'[t.anchor] = t.weekly
  <2>1. t.anchor \in Anchors /\ t.anchor \in Nat
    BY DEF Token, Anchors
  <2>2. t.anchor # anchors + 1
    BY <1>1, <1>6, <2>1 DEF Sound
  <2>3. weeklyAt'[t.anchor] = weeklyAt[t.anchor]
    BY <1>2, <2>1, <2>2 DEF TypeOK
  <2> QED BY <1>1, <1>2, <1>6, <2>1, <2>3 DEF Sound, Pairs
<1> QED BY <1>5, <1>6

\* A step that starts a new week and leaves every other holder alone keeps
\* the invariant; so does a step that writes the row soundly at an old anchor.
LEMMA RowStep ==
    ASSUME LedgerInv,
           UNCHANGED <<token, req>>,
           Sound(user)',
           \A t \in Token : Sound(t) => t.anchor <= anchors' /\ weeklyAt'[t.anchor] = t.weekly,
           \A a \in Admins : \/ adm'[a] = adm[a]
                             \/ adm'[a].pc \notin {"writing", "installing"}
    PROVE  (AnchorFixesLimit /\ Issued)'
<1> USE DEF LedgerInv
<1>1. ASSUME NEW b \in Replicas
      PROVE  token'[b].anchor <= anchors' /\ weeklyAt'[token'[b].anchor] = token'[b].weekly
  BY DEF TypeOK, AnchorFixesLimit, Issued, Sound
<1>2. ASSUME NEW r \in Requests, Limited(req'[r].tok)
      PROVE  req'[r].tok.anchor <= anchors' /\ weeklyAt'[req'[r].tok.anchor] = req'[r].tok.weekly
  <2>1. req[r].tok \in Token
    BY DEF TypeOK, Request
  <2> QED BY <1>2, <2>1 DEF AnchorFixesLimit, Issued, Sound
<1>3. ASSUME NEW a \in Admins, adm'[a].pc \in {"writing", "installing"}
      PROVE  adm'[a].seen.anchor <= anchors' /\ weeklyAt'[adm'[a].seen.anchor] = adm'[a].seen.weekly
  <2>1. adm[a].seen \in Token /\ adm'[a] = adm[a]
    BY <1>3 DEF TypeOK, Admin
  <2> QED BY <1>3, <2>1 DEF AnchorFixesLimit, Issued, Sound
<1> QED BY <1>1, <1>2, <1>3 DEF AnchorFixesLimit, Issued, Sound, Pairs

\* A request holds what it held, or nothing, or what a replica holds.
LEMMA RequestTokens ==
    ASSUME TypeOK, NEW r \in Requests, RequestStep(r), NEW q \in Requests
    PROVE  \/ req'[q].tok = req[q].tok
           \/ req'[q].tok = NoToken
           \/ \E b \in Replicas : req'[q].tok = token[b]
<1>0. Done.tok = NoToken
  BY DEF Done
<1>1. ASSUME NEW b \in Replicas, Authenticate(r, b)
      PROVE  req'[q].tok = req[q].tok \/ req'[q].tok = token[b]
  BY <1>1 DEF Authenticate, TypeOK, Request
<1>2. CASE ReadRow(r)
  BY <1>2 DEF ReadRow, TypeOK, Request
<1>3. CASE Admit(r)
  BY <1>3 DEF Admit, TypeOK, Request, Done
<1>4. CASE Reject(r)
  BY <1>4, <1>0 DEF Reject, TypeOK
<1>5. ASSUME NEW cost \in 1..MaxCost, Charge(r, cost)
      PROVE  req'[q].tok = req[q].tok \/ req'[q].tok = NoToken
  BY <1>5, <1>0 DEF Charge, TypeOK
<1>6. CASE EndUncharged(r) \/ \E cost \in 1..MaxCost : EndUnlimited(r, cost)
  BY <1>6, <1>0 DEF EndUncharged, EndUnlimited, TypeOK
<1> QED BY <1>1, <1>2, <1>3, <1>4, <1>5, <1>6 DEF RequestStep

LEMMA RequestStepLedger ==
    ASSUME LedgerInv, NEW r \in Requests, RequestStep(r)
    PROVE  (AnchorFixesLimit /\ Issued)'
<1> USE DEF LedgerInv
<1>1. UNCHANGED <<anchors, token, adm, weeklyAt>>
  BY DEF RequestStep, Authenticate, ReadRow, Admit, Reject, Charge, EndUncharged,
         EndUnlimited
<1>2. user'.anchor = user.anchor /\ user'.weekly = user.weekly
  <2>1. ASSUME NEW cost \in 1..MaxCost, Charge(r, cost)
        PROVE  user'.anchor = user.anchor /\ user'.weekly = user.weekly
    BY <2>1 DEF Charge, TypeOK, User
  <2> QED BY <2>1 DEF RequestStep, Authenticate, ReadRow, Admit, Reject, EndUncharged, EndUnlimited
<1>3. \A q \in Requests :
        \/ req'[q].tok = req[q].tok
        \/ req'[q].tok = NoToken
        \/ \E b \in Replicas : req'[q].tok = token[b]
  BY RequestTokens
<1>4. ~Limited(NoToken)
  BY DEF Limited, NoToken
<1>5. ASSUME NEW q \in Requests, Limited(req'[q].tok)
      PROVE  Sound(req'[q].tok)
  BY <1>3, <1>4, <1>5 DEF AnchorFixesLimit, Issued, Sound
<1> QED BY <1>1, <1>2, <1>5 DEF AnchorFixesLimit, Issued, Sound, Pairs

LEMMA AdminStepLedger ==
    ASSUME LedgerInv, NEW a \in Admins, AdminStep(a)
    PROVE  (AnchorFixesLimit /\ Issued)'
<1> USE DEF LedgerInv
<1>0. /\ user.weekly \in Nat /\ user.lifetime \in Nat /\ Sound(user)
      /\ Copy(user).weekly = user.weekly /\ Copy(user).anchor = user.anchor
  BY DEF TypeOK, User, AnchorFixesLimit, Issued, Sound, Copy
<1>r. Resting.pc = "idle" /\ DOMAIN Resting = {"pc", "rep", "grant", "seen"}
  BY DEF Resting
<1>1. ASSUME NEW b \in Replicas, NEW g \in Grants, BeginUpdate(a, b, g)
      PROVE  (AnchorFixesLimit /\ Issued)'
  <2>1. /\ UNCHANGED <<user, anchors, token, req, weeklyAt>>
        /\ \A c \in Admins : c # a => adm'[c] = adm[c]
        /\ adm'[a].seen = Copy(user)
    BY <1>1 DEF BeginUpdate, TypeOK
  <2> QED BY <1>0, <2>1 DEF AnchorFixesLimit, Issued, Sound, Pairs
<1>2. CASE WriteUpdate(a)
  <2> DEFINE g == adm[a].grant
  <2>1. g.weekly \in Nat /\ g.lifetime \in Nat /\ adm[a].seen \in Token
    BY QuotaAssumption DEF TypeOK, Admin, NoGrant
  <2>2. /\ \A c \in Admins : adm'[c] = adm[c] \/ adm'[c].pc \notin {"writing", "installing"}
        /\ UNCHANGED <<token, req>>
    BY <1>2, <1>r DEF WriteUpdate, TypeOK
  <2>3. CASE adm[a].seen.weekly # g.weekly
    <3>1. Restart(g.weekly, g.lifetime)
      BY <1>2, <2>3 DEF WriteUpdate
    <3> QED BY <2>1, <2>2, <3>1, RestartSound, RowStep
  <2>4. CASE adm[a].seen.weekly = g.weekly
    <3>1. /\ user'.weekly = g.weekly /\ user'.anchor = adm[a].seen.anchor
          /\ UNCHANGED <<anchors, weeklyAt>>
      BY <1>2, <2>4 DEF WriteUpdate, TypeOK, User
    <3>2. Sound(adm[a].seen)
      BY <1>2 DEF WriteUpdate, AnchorFixesLimit, Issued, Sound
    <3>3. Sound(user)'
      BY <2>4, <3>1, <3>2 DEF Sound, Pairs
    <3>4. \A t \in Token : Sound(t) => t.anchor <= anchors' /\ weeklyAt'[t.anchor] = t.weekly
      BY <3>1 DEF Sound, Pairs
    <3> QED BY <2>2, <3>3, <3>4, RowStep
  <2> QED BY <2>3, <2>4
<1>3. ASSUME NEW b \in Replicas, ResetUserQuota(a, b) PROVE (AnchorFixesLimit /\ Issued)'
  <2>1. Restart(user.weekly, user.lifetime)
    BY <1>3 DEF ResetUserQuota
  <2>2. /\ \A c \in Admins : adm'[c] = adm[c] \/ adm'[c].pc \notin {"writing", "installing"}
        /\ UNCHANGED <<token, req>>
    BY <1>3, <1>r DEF ResetUserQuota, TypeOK
  <2> QED BY <1>0, <2>1, <2>2, RestartSound, RowStep
<1>4. ASSUME NEW b \in Replicas, ResetWeeklyQuotas(a, b) PROVE (AnchorFixesLimit /\ Issued)'
  <2>1. /\ \A c \in Admins : adm'[c] = adm[c] \/ adm'[c].pc \notin {"writing", "installing"}
        /\ UNCHANGED <<token, req>>
    BY <1>4, <1>r DEF ResetWeeklyQuotas, TypeOK
  <2>2. CASE user.weekly > 0
    <3>1. Restart(user.weekly, user.lifetime)
      BY <1>4, <2>2 DEF ResetWeeklyQuotas
    <3> QED BY <1>0, <2>1, <3>1, RestartSound, RowStep
  <2>3. CASE ~(user.weekly > 0)
    <3>1. UNCHANGED <<user, anchors, weeklyAt>>
      BY <1>4, <2>3 DEF ResetWeeklyQuotas
    <3>2. \A t \in Token : Sound(t) => t.anchor <= anchors' /\ weeklyAt'[t.anchor] = t.weekly
      BY <3>1 DEF Sound, Pairs
    <3>3. Sound(user)'
      BY <1>0, <3>1 DEF Sound, Pairs
    <3> QED BY <2>1, <3>2, <3>3, RowStep
  <2> QED BY <2>2, <2>3
<1>5. CASE ReadTokens(a)
  <2>1. /\ UNCHANGED <<user, anchors, token, req, weeklyAt>>
        /\ \A c \in Admins : c # a => adm'[c] = adm[c]
        /\ adm'[a].seen = Copy(user)
    BY <1>5 DEF ReadTokens, TypeOK, Admin
  <2> QED BY <1>0, <2>1 DEF AnchorFixesLimit, Issued, Sound, Pairs
<1>6. CASE InstallTokens(a)
  <2>1. /\ UNCHANGED <<user, anchors, req, weeklyAt>>
        /\ \A c \in Admins : adm'[c] = adm[c] \/ adm'[c].pc = "idle"
        /\ \A b \in Replicas : token'[b] = token[b] \/ token'[b] = adm[a].seen
    BY <1>6, <1>r DEF InstallTokens, TypeOK
  <2>2. Sound(adm[a].seen)
    BY <1>6 DEF InstallTokens, AnchorFixesLimit, Issued, Sound
  <2> QED BY <2>1, <2>2 DEF AnchorFixesLimit, Issued, Sound, Pairs
<1>7. CASE FailReload(a)
  <2>1. /\ UNCHANGED <<user, anchors, token, req, weeklyAt>>
        /\ \A c \in Admins : adm'[c] = adm[c] \/ adm'[c].pc = "failed"
    BY <1>7, <1>r DEF FailReload, TypeOK
  <2> QED BY <2>1 DEF AnchorFixesLimit, Issued, Pairs
<1> QED BY <1>1, <1>2, <1>3, <1>4, <1>5, <1>6, <1>7 DEF AdminStep

LEMMA StepLedger == LedgerInv /\ [Next]_vars => LedgerInv'
<1> SUFFICES ASSUME LedgerInv, [Next]_vars PROVE (AnchorFixesLimit /\ Issued)'
  BY StepType DEF LedgerInv
<1>1. CASE UNCHANGED vars
  BY <1>1 DEF vars, LedgerInv, AnchorFixesLimit, Issued, Pairs
<1>2. ASSUME NEW k \in Anchors, PassWeek(k) PROVE (AnchorFixesLimit /\ Issued)'
  BY <1>2 DEF PassWeek, LedgerInv, AnchorFixesLimit, Issued, Pairs
<1> QED BY <1>1, <1>2, RequestStepLedger, AdminStepLedger DEF Next

LEMMA Invariance == Spec => []LedgerInv
<1>1. Init => LedgerInv
  BY InitType, InitLedger DEF LedgerInv
<1> QED BY <1>1, StepLedger, PTL DEF Spec

\* Whoever holds a weekly limit with an anchor holds the limit the anchor was
\* written with, whatever administrators and reloads do in between.
THEOREM AnchorLimit == Spec => []AnchorFixesLimit
<1>1. LedgerInv => AnchorFixesLimit
  BY DEF LedgerInv
<1> QED BY <1>1, Invariance, PTL

-----------------------------------------------------------------------------
(* Charges                                                                 *)

LEMMA StepCharges ==
    ASSUME LedgerInv, [Next]_vars, user'.spent # user.spent
    PROVE  \E p \in Periods :
            /\ used'[p] > used[p]
            /\ user'.spent - user.spent
                 = Overage(used'[p], weeklyAt[p[1]]) - Overage(used[p], weeklyAt[p[1]])
<1> USE DEF LedgerInv
<1>1. PICK r \in Requests, cost \in 1..MaxCost : Charge(r, cost)
  <2>1. ASSUME NEW a \in Admins, AdminStep(a) PROVE user'.spent = user.spent
    BY <2>1 DEF AdminStep, BeginUpdate, WriteUpdate, ResetUserQuota, ResetWeeklyQuotas,
                ReadTokens, InstallTokens, FailReload, Restart, TypeOK, User
  <2> QED BY <2>1 DEF Next, vars, PassWeek, RequestStep, Authenticate, ReadRow, Admit,
                      Reject, EndUncharged, EndUnlimited
<1> DEFINE t == req[r].tok
           p == Period(t.anchor)
<1>2. t \in Token /\ p \in Periods /\ p[1] = t.anchor /\ cost \in Nat /\ cost > 0
  BY PeriodType, QuotaAssumption DEF TypeOK, Request, Token
<1>3. used[p] \in Nat /\ user.spent \in Nat
  BY <1>2, QuotaAssumption DEF TypeOK, User, Micro
<1>4. used'[p] = used[p] + cost
  BY <1>1, <1>2 DEF Charge, TypeOK
<1>5. Spill(t, p, cost) \in Nat /\ user'.spent = user.spent + Spill(t, p, cost)
  BY <1>1, <1>2, SpillBounds DEF Charge, TypeOK, User
<1>6. Spill(t, p, cost) # 0
  BY <1>3, <1>5
<1>7. weeklyAt[p[1]] = t.weekly
  BY <1>1, <1>2 DEF Charge, AnchorFixesLimit, Pairs
<1>8. Spill(t, p, cost)
        = Overage(used'[p], weeklyAt[p[1]]) - Overage(used[p], weeklyAt[p[1]])
  BY <1>4, <1>6, <1>7 DEF Spill
<1>9. used'[p] > used[p]
  BY <1>2, <1>3, <1>4
<1>10. user'.spent - user.spent
         = Overage(used'[p], weeklyAt[p[1]]) - Overage(used[p], weeklyAt[p[1]])
  <2>1. user'.spent - user.spent = Spill(t, p, cost)
    BY <1>3, <1>5
  <2> QED BY <1>8, <2>1
<1>11. p \in Periods
  BY <1>2
<1> HIDE DEF p, LedgerInv
<1> QED BY <1>9, <1>10, <1>11

\* The lifetime counter moves exactly by the growth of one period's overage
\* over the limit in force in that period.
THEOREM Charges == Spec => ChargesLimitInForce
<1>1. LedgerInv /\ [Next]_vars
        => [user'.spent # user.spent =>
             \E p \in Periods :
                /\ used'[p] > used[p]
                /\ user'.spent - user.spent
                     = Overage(used'[p], weeklyAt[p[1]]) - Overage(used[p], weeklyAt[p[1]])]_vars
  BY StepCharges
<1> QED BY <1>1, Invariance, PTL DEF Spec, ChargesLimitInForce

-----------------------------------------------------------------------------
(* The lifetime counter is the sum of the overages                         *)

\* Nothing is used in the weeks of an anchor that has not been written yet, so
\* that writing its limit moves no overage.
Unused == \A p \in Periods : p[1] > anchors => used[p] = 0

\* If every grant has a lifetime quota, so has whoever may be charged.
Backed(t) == (\A g \in Grants : g.lifetime > 0) => t.lifetime > 0
AllBacked ==
    /\ Backed(user)
    /\ \A b \in Replicas : Backed(token[b])
    /\ \A r \in Requests : Limited(req[r].tok) => Backed(req[r].tok)
    /\ \A a \in Admins : /\ adm[a].pc = "installing" => Backed(adm[a].seen)
                         /\ adm[a].pc = "writing" => adm[a].grant \in Grants

SumInv == LedgerInv /\ Unused /\ AllBacked /\ LifetimeIsOverage

\* There are finitely many periods.
LEMMA PeriodsFinite == IsFiniteSet(Periods)
<1>1. IsFiniteSet(0..MaxAnchor) /\ IsFiniteSet(0..MaxAge)
  <2>1. MaxAnchor \in Int /\ MaxAge \in Int
    BY QuotaAssumption
  <2> QED BY <2>1, FS_Interval
<1> QED BY <1>1, FS_Product DEF Periods, Anchors, Ages

\* An overage is a natural number.
LEMMA OverageTyped == TypeOK => \A p \in Periods : OverageOf[p] \in Nat
<1> SUFFICES ASSUME TypeOK PROVE \A p \in Periods : OverageOf[p] \in Nat
  OBVIOUS
<1>1. ASSUME NEW p \in Periods PROVE Overage(used[p], weeklyAt[p[1]]) \in Nat
  <2>1. p[1] \in Anchors /\ used[p] \in Nat
    BY QuotaAssumption DEF TypeOK, Periods, Micro
  <2>2. weeklyAt[p[1]] \in Nat
    BY <2>1 DEF TypeOK
  <2> QED BY <2>1, <2>2, OverageNat
<1> QED BY <1>1 DEF OverageOf

\* The same in the next state.
LEMMA OverageTypedNext == (TypeOK => \A p \in Periods : OverageOf[p] \in Nat)'
BY OverageTyped, PTL

\* The sum of the property is the sum FoldTheorems is about.
LEMMA TotalOverageIsTotal == TotalOverage = Total(Periods, OverageOf)
BY DEF TotalOverage, Total

\* A step that leaves the overage of every period alone leaves their sum alone.
LEMMA OverageKept ==
    ASSUME TypeOK, TypeOK', \A p \in Periods : OverageOf'[p] = OverageOf[p]
    PROVE  TotalOverage' = TotalOverage /\ TotalOverage \in Int
<1> DEFINE f == OverageOf
           k == OverageOf'
<1>1. \A p \in Periods : f[p] \in Int /\ k[p] = f[p]
  BY OverageTyped
<1>2. Total(Periods, k) = Total(Periods, f) /\ Total(Periods, f) \in Int
  <2> HIDE DEF f, k
  <2> QED BY <1>1, PeriodsFinite, TotalSame, TotalInt
<1>3. TotalOverage' = Total(Periods, k)
  BY DEF TotalOverage, Total, MapThenSumSet, MapThenFoldSet
<1> QED BY <1>2, <1>3, TotalOverageIsTotal

\* It holds initially: nothing is used and nothing is spent.
LEMMA InitSum == Init => Unused /\ AllBacked /\ LifetimeIsOverage
<1> SUFFICES ASSUME Init PROVE Unused /\ AllBacked /\ LifetimeIsOverage
  OBVIOUS
<1>1. PICK g \in Grants :
        /\ user = [weekly |-> g.weekly, lifetime |-> g.lifetime, spent |-> 0, anchor |-> 0]
        /\ weeklyAt = [k \in Anchors |-> g.weekly]
        /\ token = [b \in Replicas |-> Copy(user)]
        /\ used = [p \in Periods |-> 0]
        /\ req = [r \in Requests |-> Done]
        /\ adm = [a \in Admins |-> Resting]
  BY DEF Init
<1>2. Unused
  BY <1>1 DEF Unused
<1>3. AllBacked
  <2>1. \A r \in Requests : ~Limited(req[r].tok)
    BY <1>1 DEF Done, NoToken, Limited
  <2>2. \A a \in Admins : adm[a].pc = "idle"
    BY <1>1 DEF Resting
  <2>3. Backed(user) /\ \A b \in Replicas : Backed(token[b])
    BY <1>1 DEF Backed, Copy
  <2> QED BY <2>1, <2>2, <2>3 DEF AllBacked
<1>4. \A p \in Periods : OverageOf[p] = 0
  <2>1. ASSUME NEW p \in Periods PROVE Overage(used[p], weeklyAt[p[1]]) = 0
    <3>1. p[1] \in Anchors /\ g.weekly \in Nat
      BY QuotaAssumption DEF Periods
    <3> QED BY <1>1, <3>1 DEF Overage
  <2> QED BY <2>1 DEF OverageOf
<1>5. TotalOverage = 0
  <2> DEFINE f == OverageOf
  <2>1. \A p \in Periods : f[p] = 0
    BY <1>4
  <2>2. Total(Periods, f) = 0
    <3> HIDE DEF f
    <3> QED BY <2>1, PeriodsFinite, TotalZero
  <2> QED BY <2>2, TotalOverageIsTotal
<1> QED BY <1>1, <1>2, <1>3, <1>5 DEF LifetimeIsOverage

\* A charge moves one period's overage, and the counter with it.
LEMMA ChargeSum ==
    ASSUME SumInv, TypeOK', NEW r \in Requests, NEW cost \in 1..MaxCost, Charge(r, cost)
    PROVE  LifetimeIsOverage'
<1> USE DEF SumInv, LedgerInv
<1> DEFINE t == req[r].tok
           p == Period(t.anchor)
<1>1. t \in Token /\ p \in Periods /\ p[1] = t.anchor /\ cost \in Nat
  BY PeriodType, QuotaAssumption DEF TypeOK, Request, Token
<1>2. used[p] \in Nat /\ user.spent \in Nat /\ t.weekly \in Nat /\ t.lifetime \in Nat
  BY <1>1, QuotaAssumption DEF TypeOK, User, Micro, Token
<1>3. used' = [used EXCEPT ![p] = used[p] + cost] /\ UNCHANGED weeklyAt /\ Limited(t)
  BY DEF Charge
<1>4. used'[p] = used[p] + cost /\ \A q \in Periods \ {p} : used'[q] = used[q]
  BY <1>1, <1>3 DEF TypeOK
<1>5. user'.spent = user.spent + Spill(t, p, cost)
  BY DEF Charge, TypeOK, User
<1>6. weeklyAt[p[1]] = t.weekly
  BY <1>1, <1>3 DEF AnchorFixesLimit, Pairs
<1> HIDE DEF t, p
<1> DEFINE d == Overage(used[p] + cost, t.weekly) - Overage(used[p], t.weekly)
           f == OverageOf
           k == OverageOf'
<1>7. d \in Nat
  <2>1. d \in 0..cost
    BY <1>1, <1>2, OverageGrowth
  <2> QED BY <1>1, <2>1
<1>8. /\ k[p] - f[p] = d
      /\ \A q \in Periods \ {p} : k[q] = f[q]
  BY <1>1, <1>3, <1>4, <1>6 DEF OverageOf
<1>9. \A q \in Periods : f[q] \in Int /\ k[q] \in Int
  <2>1. \A q \in Periods : f[q] \in Nat
    BY OverageTyped
  <2>2. (\A q \in Periods : OverageOf[q] \in Nat)'
    BY OverageTypedNext
  <2> QED BY <2>1, <2>2
<1>10. Total(Periods, k) - Total(Periods, f) = k[p] - f[p]
       /\ Total(Periods, k) \in Int /\ Total(Periods, f) \in Int
  <2> HIDE DEF f, k
  <2> QED BY <1>1, <1>8, <1>9, PeriodsFinite, TotalChange, TotalInt
<1>11. TotalOverage' = Total(Periods, k)
  BY DEF TotalOverage, Total, MapThenSumSet, MapThenFoldSet
<1>12. TotalOverage' = TotalOverage + d /\ TotalOverage \in Int
  <2> HIDE DEF k, f, d
  <2>1. TotalOverage = Total(Periods, f)
    BY TotalOverageIsTotal DEF f
  <2> QED BY <1>7, <1>8, <1>10, <1>11, <2>1
<1>13. Spill(t, p, cost) \in {0, d} /\ (t.lifetime > 0 => Spill(t, p, cost) = d)
  BY DEF Spill
<1>14. Backed(t)
  BY <1>3 DEF AllBacked, t
<1> HIDE DEF d
<1>15. user'.spent <= TotalOverage'
  BY <1>2, <1>5, <1>7, <1>12, <1>13 DEF LifetimeIsOverage
<1>16. (\A g \in Grants : g.lifetime > 0) => user'.spent = TotalOverage'
  BY <1>2, <1>5, <1>7, <1>12, <1>13, <1>14 DEF LifetimeIsOverage, Backed
<1> QED BY <1>15, <1>16 DEF LifetimeIsOverage

\* A step that charges nobody leaves the counter and the overages as they are.
LEMMA QuietSum ==
    ASSUME SumInv, TypeOK', UNCHANGED used, user'.spent = user.spent,
           \/ UNCHANGED weeklyAt
           \/ \E w \in Nat : weeklyAt' = [weeklyAt EXCEPT ![anchors + 1] = w]
    PROVE  LifetimeIsOverage'
<1> USE DEF SumInv, LedgerInv
<1>1. ASSUME NEW p \in Periods PROVE OverageOf'[p] = OverageOf[p]
  <2>1. p[1] \in Anchors /\ anchors \in Anchors
    BY DEF Periods, TypeOK
  <2>2. CASE weeklyAt'[p[1]] = weeklyAt[p[1]]
    BY <2>2 DEF OverageOf
  <2>3. CASE weeklyAt'[p[1]] # weeklyAt[p[1]]
    <3>1. p[1] = anchors + 1
      BY <2>1, <2>3 DEF TypeOK
    <3>2. used[p] = 0
      BY <2>1, <3>1 DEF Unused, Anchors
    <3>3. weeklyAt[p[1]] \in Nat /\ weeklyAt'[p[1]] \in Nat
      BY <2>1 DEF TypeOK
    <3> QED BY <3>2, <3>3 DEF OverageOf, Overage
  <2> QED BY <2>2, <2>3
<1>2. TotalOverage' = TotalOverage
  BY <1>1, OverageKept
<1> QED BY <1>2 DEF LifetimeIsOverage

\* A request's step.
LEMMA RequestStepSum ==
    ASSUME SumInv, TypeOK', NEW r \in Requests, RequestStep(r)
    PROVE  (Unused /\ AllBacked /\ LifetimeIsOverage)'
<1> USE DEF SumInv, LedgerInv
<1>1. UNCHANGED <<anchors, token, adm, weeklyAt>> /\ user'.lifetime = user.lifetime
  <2>1. ASSUME NEW cost \in 1..MaxCost, Charge(r, cost) PROVE user'.lifetime = user.lifetime
    BY <2>1 DEF Charge, TypeOK, User
  <2> QED BY <2>1 DEF RequestStep, Authenticate, ReadRow, Admit, Reject, Charge,
                      EndUncharged, EndUnlimited
<1>2. AllBacked'
  <2>1. ASSUME NEW q \in Requests, Limited(req'[q].tok) PROVE Backed(req'[q].tok)
    <3>1. ~Limited(NoToken)
      BY DEF Limited, NoToken
    <3> QED BY <2>1, <3>1, RequestTokens DEF AllBacked
  <2> QED BY <1>1, <2>1 DEF AllBacked, Backed
<1>3. CASE \E cost \in 1..MaxCost : Charge(r, cost)
  <2>1. PICK cost \in 1..MaxCost : Charge(r, cost)
    BY <1>3
  <2> DEFINE p == Period(req[r].tok.anchor)
  <2>2. p[1] <= anchors /\ used' = [used EXCEPT ![p] = @ + cost]
    <3>1. req[r].tok.anchor \in Anchors
      BY DEF TypeOK, Request, Token
    <3> QED BY <2>1, <3>1, PeriodType DEF Charge, Issued, TypeOK
  <2>3. Unused'
    <3> SUFFICES ASSUME NEW q \in Periods, q[1] > anchors PROVE used'[q] = 0
      BY <1>1 DEF Unused
    <3>1. q[1] \in Int /\ anchors \in Int
      BY DEF Periods, Anchors, TypeOK
    <3>2. q # p
      BY <2>2, <3>1
    <3> QED BY <2>2, <3>2 DEF Unused, TypeOK
  <2> QED BY <1>2, <2>1, <2>3, ChargeSum
<1>4. CASE ~\E cost \in 1..MaxCost : Charge(r, cost)
  <2>1. UNCHANGED <<used, user>>
    BY <1>4 DEF RequestStep, Authenticate, ReadRow, Admit, Reject, EndUncharged, EndUnlimited
  <2>2. Unused'
    BY <1>1, <2>1 DEF Unused
  <2> QED BY <1>1, <1>2, <2>1, <2>2, QuietSum
<1> QED BY <1>3, <1>4

\* An administrator's step.
LEMMA AdminStepSum ==
    ASSUME SumInv, TypeOK', NEW a \in Admins, AdminStep(a)
    PROVE  (Unused /\ AllBacked /\ LifetimeIsOverage)'
<1> USE DEF SumInv, LedgerInv
<1>1. UNCHANGED <<used, req>> /\ user'.spent = user.spent
  BY DEF AdminStep, BeginUpdate, WriteUpdate, ResetUserQuota, ResetWeeklyQuotas,
         ReadTokens, InstallTokens, FailReload, Restart, TypeOK, User
<1>2. \/ UNCHANGED <<anchors, weeklyAt>>
      \/ \E w, l \in Nat : Restart(w, l)
  <2>1. user.weekly \in Nat /\ user.lifetime \in Nat
    BY DEF TypeOK, User
  <2>2. CASE WriteUpdate(a)
    <3>1. adm[a].grant.weekly \in Nat /\ adm[a].grant.lifetime \in Nat
      BY QuotaAssumption DEF TypeOK, Admin, NoGrant
    <3> QED BY <2>2, <3>1 DEF WriteUpdate
  <2> QED BY <2>1, <2>2 DEF AdminStep, BeginUpdate, ResetUserQuota, ResetWeeklyQuotas,
                       ReadTokens, InstallTokens, FailReload
<1>3. /\ anchors' >= anchors /\ anchors \in Int /\ anchors' \in Int
      /\ \/ UNCHANGED weeklyAt
         \/ \E w \in Nat : weeklyAt' = [weeklyAt EXCEPT ![anchors + 1] = w]
  <2>1. anchors \in Int
    BY DEF TypeOK, Anchors
  <2>2. CASE UNCHANGED <<anchors, weeklyAt>>
    BY <2>1, <2>2
  <2>3. ASSUME NEW w \in Nat, NEW l \in Nat, Restart(w, l)
        PROVE  anchors' = anchors + 1 /\ weeklyAt' = [weeklyAt EXCEPT ![anchors + 1] = w]
    BY <2>3 DEF Restart
  <2> QED BY <1>2, <2>1, <2>2, <2>3
<1>4. Unused'
  <2> SUFFICES ASSUME NEW q \in Periods, q[1] > anchors' PROVE used'[q] = 0
    BY DEF Unused
  <2>1. q[1] > anchors
    BY <1>3 DEF Periods, Anchors
  <2> QED BY <1>1, <2>1 DEF Unused
<1>5. AllBacked'
  <2>r. Resting.pc = "idle" /\ DOMAIN Resting = {"pc", "rep", "grant", "seen"}
    BY DEF Resting
  <2>1. Backed(user)'
    <3>1. CASE WriteUpdate(a)
      <4>1. user'.lifetime = adm[a].grant.lifetime
        BY <3>1 DEF WriteUpdate, Restart, TypeOK, User
      <4> QED BY <3>1, <4>1 DEF WriteUpdate, AllBacked, Backed
    <3>2. CASE ~WriteUpdate(a)
      <4>1. user'.lifetime = user.lifetime
        BY <3>2 DEF AdminStep, BeginUpdate, ResetUserQuota, ResetWeeklyQuotas,
                    ReadTokens, InstallTokens, FailReload, Restart, TypeOK, User
      <4> QED BY <4>1 DEF AllBacked, Backed
    <3> QED BY <3>1, <3>2
  <2>2. \A b \in Replicas : Backed(token[b])'
    <3>1. CASE InstallTokens(a)
      BY <3>1 DEF InstallTokens, AllBacked, Backed, TypeOK
    <3>2. CASE ~InstallTokens(a)
      <4>1. UNCHANGED token
        BY <3>2 DEF AdminStep, BeginUpdate, WriteUpdate, ResetUserQuota, ResetWeeklyQuotas,
                    ReadTokens, FailReload
      <4> QED BY <4>1 DEF AllBacked, Backed
    <3> QED BY <3>1, <3>2
  <2>3. ASSUME NEW c \in Admins
        PROVE  /\ adm'[c].pc = "installing" => Backed(adm'[c].seen)
               /\ adm'[c].pc = "writing" => adm'[c].grant \in Grants
    <3>1. CASE adm'[c] = adm[c]
      BY <3>1 DEF AllBacked, Backed
    <3>2. ASSUME NEW b \in Replicas, NEW g \in Grants, BeginUpdate(a, b, g), adm'[c] # adm[c]
          PROVE  adm'[c].pc = "writing" /\ adm'[c].grant \in Grants
      BY <3>2 DEF BeginUpdate, TypeOK
    <3>3. ASSUME ReadTokens(a), adm'[c] # adm[c]
          PROVE  adm'[c].pc = "installing" /\ adm'[c].seen = Copy(user)
      BY <3>3 DEF ReadTokens, TypeOK, Admin
    <3>4. ASSUME ~ReadTokens(a), \A b \in Replicas, g \in Grants : ~BeginUpdate(a, b, g), adm'[c] # adm[c]
          PROVE  adm'[c].pc \notin {"installing", "writing"}
      <4>1. \E b \in Replicas \union {adm[a].rep} :
                adm' = [adm EXCEPT ![a] = [Resting EXCEPT !.pc = "reloading", !.rep = b]]
              \/ adm' = [adm EXCEPT ![a] = [Resting EXCEPT !.rep = b]]
              \/ adm' = [adm EXCEPT ![a] = [Resting EXCEPT !.pc = "failed"]]
        BY <3>4 DEF AdminStep, WriteUpdate, ResetUserQuota, ResetWeeklyQuotas,
                    InstallTokens, FailReload
      <4> QED BY <2>r, <3>4, <4>1 DEF TypeOK
    <3>5. Backed(Copy(user))
      BY DEF AllBacked, Backed, Copy
    <3> QED BY <3>1, <3>2, <3>3, <3>4, <3>5
  <2> QED BY <1>1, <2>1, <2>2, <2>3 DEF AllBacked, Backed
<1> QED BY <1>1, <1>3, <1>4, <1>5, QuietSum

\* A step of nobody.
LEMMA StillSum ==
    ASSUME SumInv, TypeOK', UNCHANGED <<user, used, anchors, token, req, adm, weeklyAt>>
    PROVE  (Unused /\ AllBacked /\ LifetimeIsOverage)'
<1>1. LifetimeIsOverage'
  BY QuietSum
<1>2. Unused'
  BY DEF SumInv, Unused
<1>3. AllBacked'
  BY DEF SumInv, AllBacked, Backed
<1> QED BY <1>1, <1>2, <1>3

LEMMA StepSum == SumInv /\ [Next]_vars => SumInv'
<1> SUFFICES ASSUME SumInv, [Next]_vars PROVE SumInv'
  OBVIOUS
<1>1. LedgerInv' /\ TypeOK'
  BY StepLedger DEF SumInv, LedgerInv
<1>2. SUFFICES (Unused /\ AllBacked /\ LifetimeIsOverage)'
  BY <1>1 DEF SumInv
<1>3. ASSUME NEW k \in Anchors, PassWeek(k)
      PROVE  (Unused /\ AllBacked /\ LifetimeIsOverage)'
  <2>1. UNCHANGED <<user, used, anchors, token, req, adm, weeklyAt>>
    BY <1>3 DEF PassWeek
  <2> QED BY <1>1, <2>1, StillSum
<1>4. CASE UNCHANGED vars
  <2>1. UNCHANGED <<user, used, anchors, token, req, adm, weeklyAt>>
    BY <1>4 DEF vars
  <2> QED BY <1>1, <2>1, StillSum
<1> QED BY <1>1, <1>3, <1>4, RequestStepSum, AdminStepSum DEF Next

\* In every state the lifetime counter is the sum of the overages of all
\* periods: InsertUsageBatch bills no credit twice and forgets none.
THEOREM LifetimeSum == Spec => []LifetimeIsOverage
<1>1. Init => SumInv
  BY InitSum, InitType, InitLedger DEF SumInv, LedgerInv
<1>2. SumInv => LifetimeIsOverage
  BY DEF SumInv
<1> QED BY <1>1, <1>2, StepSum, PTL DEF Spec

-----------------------------------------------------------------------------
(* The replica that served the last change                                 *)

OneAdmin == \A a, b \in Admins : a = b

\* SnapshotCurrent says nothing of a handler at work: what it is about to
\* install is the row, which no other handler changes meanwhile.
Current(a) ==
    /\ (adm[a].pc = "idle" /\ adm[a].rep # NoReplica) => token[adm[a].rep] = Copy(user)
    /\ adm[a].pc \in {"writing", "installing"} => adm[a].seen = Copy(user)

CurrentInv == TypeOK /\ \A a \in Admins : Current(a)

\* A step of a request, of the clock or of nobody.
LEMMA OthersCurrent ==
    ASSUME CurrentInv, UNCHANGED <<token, adm>>, Copy(user)' = Copy(user), NEW a \in Admins
    PROVE  Current(a)'
BY DEF CurrentInv, Current

\* What the only administrator reads is still the row when it is installed.
LEMMA AdminCurrent ==
    ASSUME OneAdmin, CurrentInv, NEW a \in Admins, AdminStep(a)
    PROVE  Current(a)'
<1> USE DEF CurrentInv, TypeOK
<1>r. /\ Resting.pc = "idle" /\ Resting.rep = NoReplica
      /\ DOMAIN Resting = {"pc", "rep", "grant", "seen"}
  BY DEF Resting
<1>1. ASSUME NEW b \in Replicas, NEW g \in Grants, BeginUpdate(a, b, g) PROVE Current(a)'
  <2>1. adm'[a].pc = "writing" /\ adm'[a].seen = Copy(user) /\ UNCHANGED user
    BY <1>1 DEF BeginUpdate
  <2> QED BY <2>1 DEF Current, Copy
<1>2. ASSUME \/ WriteUpdate(a)
             \/ \E b \in Replicas : ResetUserQuota(a, b) \/ ResetWeeklyQuotas(a, b)
      PROVE  Current(a)'
  <2>1. adm'[a].pc = "reloading"
    BY <1>2, <1>r DEF WriteUpdate, ResetUserQuota, ResetWeeklyQuotas
  <2> QED BY <2>1 DEF Current
<1>3. CASE ReadTokens(a)
  <2>1. adm'[a].pc = "installing" /\ adm'[a].seen = Copy(user) /\ UNCHANGED user
    BY <1>3 DEF ReadTokens, Admin
  <2> QED BY <2>1 DEF Current, Copy
<1>4. CASE InstallTokens(a)
  <2>1. /\ adm'[a].pc = "idle" /\ adm'[a].rep = adm[a].rep /\ UNCHANGED user
        /\ token' = [token EXCEPT ![adm[a].rep] = adm[a].seen]
    BY <1>4, <1>r DEF InstallTokens
  <2>2. adm[a].seen = Copy(user)
    BY <1>4 DEF InstallTokens, Current
  <2>3. adm[a].rep \in Replicas \union {NoReplica}
    BY DEF Admin
  <2>4. Copy(user)' = Copy(user)
    BY <2>1 DEF Copy
  <2> QED BY <2>1, <2>2, <2>3, <2>4 DEF Current
<1>5. CASE FailReload(a)
  <2>1. adm'[a].pc = "failed"
    BY <1>5, <1>r DEF FailReload
  <2> QED BY <2>1 DEF Current
<1> QED BY <1>1, <1>2, <1>3, <1>4, <1>5 DEF AdminStep

\* CurrentInv is inductive with one administrator.
LEMMA StepCurrent == ASSUME OneAdmin PROVE CurrentInv /\ [Next]_vars => CurrentInv'
<1> SUFFICES ASSUME CurrentInv, [Next]_vars, NEW a \in Admins PROVE Current(a)'
  BY StepType DEF CurrentInv
<1>1. ASSUME NEW c \in Admins, AdminStep(c) PROVE Current(a)'
  BY <1>1, AdminCurrent DEF OneAdmin
<1>2. CASE ~\E c \in Admins : AdminStep(c)
  <2>1. UNCHANGED <<token, adm>>
    BY <1>2 DEF Next, vars, PassWeek, RequestStep, Authenticate, ReadRow, Admit, Reject,
                Charge, EndUncharged, EndUnlimited
  <2>2. Copy(user)' = Copy(user)
    <3>1. ASSUME NEW r \in Requests, NEW cost \in 1..MaxCost, Charge(r, cost)
          PROVE  Copy(user)' = Copy(user)
      BY <3>1 DEF Charge, Copy, CurrentInv, TypeOK, User
    <3>2. UNCHANGED user => Copy(user)' = Copy(user)
      BY DEF Copy
    <3> QED BY <1>2, <3>1, <3>2 DEF Next, vars, PassWeek, RequestStep, Authenticate, ReadRow,
                                    Admit, Reject, EndUncharged, EndUnlimited
  <2> QED BY <2>1, <2>2, OthersCurrent
<1> QED BY <1>1, <1>2

\* With one administrator at a time the replica that served the last change
\* holds the limits and the anchor of the row: what UpdateUserQuota or a reset
\* confirmed is in force there, whatever requests were in progress.
THEOREM LastChangeInForce == ASSUME OneAdmin PROVE Spec => []SnapshotCurrent
<1>1. Init => CurrentInv
  <2>1. Init => \A a \in Admins : adm[a] = Resting
    BY DEF Init
  <2>2. Resting.pc = "idle" /\ Resting.rep = NoReplica
    BY DEF Resting
  <2> QED BY <2>1, <2>2, InitType DEF CurrentInv, Current
<1>2. CurrentInv => SnapshotCurrent
  BY DEF CurrentInv, Current, SnapshotCurrent
<1> QED BY <1>1, <1>2, StepCurrent, PTL DEF Spec

-----------------------------------------------------------------------------
(* How far the quotas are overrun                                          *)

\* What the bound supposes of the limits an administrator grants: the weekly
\* limit determines the lifetime limit, and no grant has a lifetime limit only;
\* nobody then lowers a limit under what is used.
WeeklyDecides ==
    /\ \A g, h \in Grants : g.weekly = h.weekly => g = h
    /\ \A g \in Grants : g.lifetime > 0 => g.weekly > 0

\* The requests that may still be charged: those that run with limits, and
\* those that the second query will admit.
Chargeable(r) ==
    \/ req[r].pc = "running" /\ Limited(req[r].tok)
    \/ req[r].pc = "counting" /\ ~Exhausted(req[r].row, req[r].period)
Outstanding == {r \in Requests : Chargeable(r)}
Due == Cardinality(Outstanding) * MaxCost

ThisWeek == used[Period(user.anchor)]

\* The bound with the requests that are still out counted in: what they may
\* cost is no longer available to a new one.
WithinSlack ==
    \/ user.weekly > 0 /\ ThisWeek + Due < user.weekly + Slack
    \/ user.lifetime > 0 /\ user.spent + Due < user.lifetime + Slack

Granted == \E g \in Grants : user.weekly = g.weekly /\ user.lifetime = g.lifetime

\* The weeks to come are empty, so that a new week starts with its whole quota.
FutureUnused == \A p \in Periods : p[2] > age[p[1]] => used[p] = 0

BoundInv ==
    /\ SumInv /\ CurrentInv
    /\ Granted
    /\ FutureUnused
    /\ Limited(user) => WithinSlack

\* Fewer requests cost less.
LEMMA FewerCostLess ==
    ASSUME NEW m \in Nat, NEW n \in Nat, NEW c \in Nat, m <= n
    PROVE  m * c <= n * c /\ m * c \in Nat /\ n * c \in Nat /\ (n + 1) * c = n * c + c
OBVIOUS

\* What a set of requests can cost is no more than what all can.
LEMMA CostBounds ==
    ASSUME IsFiniteSet(Requests), NEW S \in SUBSET Requests
    PROVE  /\ Cardinality(S) * MaxCost \in Nat /\ Slack \in Nat
           /\ Cardinality(S) * MaxCost <= Slack
<1>1. IsFiniteSet(S) /\ Cardinality(S) <= Cardinality(Requests)
  BY FS_Subset
<1>2. Cardinality(S) \in Nat /\ Cardinality(Requests) \in Nat /\ MaxCost \in Nat
  BY <1>1, FS_CardinalityType, QuotaAssumption
<1> QED BY <1>1, <1>2, FewerCostLess DEF Slack

\* Some of them cost no more than all of them.
LEMMA CostFalls ==
    ASSUME IsFiniteSet(Requests), NEW S \in SUBSET Requests, NEW T \in SUBSET S
    PROVE  Cardinality(T) * MaxCost <= Cardinality(S) * MaxCost
<1>1. IsFiniteSet(S) /\ IsFiniteSet(T) /\ Cardinality(T) <= Cardinality(S)
  BY FS_Subset
<1>2. Cardinality(S) \in Nat /\ Cardinality(T) \in Nat /\ MaxCost \in Nat
  BY <1>1, FS_CardinalityType, QuotaAssumption
<1> QED BY <1>1, <1>2, FewerCostLess

\* Without one of them there is room for its cost.
LEMMA CostSettled ==
    ASSUME IsFiniteSet(Requests), NEW S \in SUBSET Requests, NEW r \in S,
           NEW T \in SUBSET (S \ {r})
    PROVE  Cardinality(T) * MaxCost + MaxCost <= Cardinality(S) * MaxCost
<1> DEFINE rest == S \ {r}
<1>1. IsFiniteSet(S)
  BY FS_Subset
<1>2. IsFiniteSet(rest) /\ Cardinality(S) = Cardinality(rest) + 1
  <2>1. Cardinality(S) \in Nat
    BY <1>1, FS_CardinalityType
  <2>2. IsFiniteSet(rest) /\ Cardinality(rest) = Cardinality(S) - 1
    BY <1>1, FS_RemoveElement
  <2> QED BY <2>1, <2>2
<1>3. IsFiniteSet(T) /\ Cardinality(T) <= Cardinality(rest)
  <2> HIDE DEF rest
  <2> QED BY <1>2, FS_Subset DEF rest
<1>4. Cardinality(rest) \in Nat /\ Cardinality(T) \in Nat /\ MaxCost \in Nat
  BY <1>2, <1>3, FS_CardinalityType, QuotaAssumption
<1> HIDE DEF rest
<1> QED BY <1>2, <1>3, <1>4, FewerCostLess

\* Never more is due than all requests can cost.
LEMMA DueBounds == IsFiniteSet(Requests) => Due \in Nat /\ Slack \in Nat /\ Due <= Slack
<1>1. Outstanding \in SUBSET Requests
  BY DEF Outstanding
<1> QED BY <1>1, CostBounds DEF Due

\* DueBounds of the next state.
LEMMA DueBoundsNext ==
    (IsFiniteSet(Requests) => Due \in Nat /\ Slack \in Nat /\ Due <= Slack)'
BY DueBounds, PTL

\* A step after which no request may be charged that might not be before it.
LEMMA DueFalls ==
    ASSUME IsFiniteSet(Requests), Outstanding' \subseteq Outstanding
    PROVE  Due' <= Due
<1>1. Outstanding \in SUBSET Requests
  BY DEF Outstanding
<1> QED BY <1>1, CostFalls DEF Due

\* A step that settles a request leaves room for its cost.
LEMMA DueSettled ==
    ASSUME IsFiniteSet(Requests), NEW r \in Outstanding, Outstanding' \subseteq Outstanding \ {r}
    PROVE  Due' + MaxCost <= Due
<1>1. Outstanding \in SUBSET Requests
  BY DEF Outstanding
<1> QED BY <1>1, CostSettled DEF Due

BoundParts == Granted /\ FutureUnused /\ (Limited(user) => WithinSlack)

\* The counters are numbers and the current week is a period.
LEMMA NumbersTyped ==
    ASSUME TypeOK
    PROVE  /\ user.anchor \in Anchors /\ user.weekly \in Nat /\ user.lifetime \in Nat
           /\ user.spent \in Nat
           /\ Period(user.anchor) \in Periods /\ ThisWeek \in Nat
<1>1. user.anchor \in Anchors /\ user.weekly \in Nat /\ user.lifetime \in Nat /\ user.spent \in Nat
  BY QuotaAssumption DEF TypeOK, User, Micro
<1>2. Period(user.anchor) \in Periods
  BY <1>1, PeriodType DEF TypeOK
<1> QED BY <1>1, <1>2, QuotaAssumption DEF ThisWeek, TypeOK, Micro

\* A step that moves no credit, no limit and no week of the row, and puts no
\* request out.
LEMMA QuietBound ==
    ASSUME IsFiniteSet(Requests), BoundInv, UNCHANGED <<user, used, age>>,
           Outstanding' \subseteq Outstanding
    PROVE  BoundParts'
<1> USE DEF BoundInv, SumInv, LedgerInv
<1>1. Due' <= Due /\ Due \in Nat /\ Due' \in Nat /\ Slack \in Nat /\ Slack' = Slack
  BY DueFalls, DueBounds, DueBoundsNext DEF Slack
<1>2. ThisWeek' = ThisWeek /\ ThisWeek \in Nat /\ user.weekly \in Nat /\ user.lifetime \in Nat
      /\ user.spent \in Nat
  BY NumbersTyped DEF ThisWeek, Period
<1>3. (Limited(user) => WithinSlack)'
  BY <1>1, <1>2 DEF WithinSlack, Limited
<1> QED BY <1>3 DEF BoundParts, Granted, FutureUnused

\* A step that puts the row in a week in which nothing is used.
LEMMA FreshWeek ==
    ASSUME IsFiniteSet(Requests), WeeklyDecides, TypeOK', Granted', FutureUnused', ThisWeek' = 0
    PROVE  BoundParts'
<1>1. Due' \in Nat /\ Slack' \in Nat /\ Due' <= Slack'
  BY DueBoundsNext
<1>2. user'.weekly \in Nat /\ user'.lifetime \in Nat
  BY DEF TypeOK, User
<1>3. PICK g \in Grants : user'.weekly = g.weekly /\ user'.lifetime = g.lifetime
  BY DEF Granted
<1>4. Limited(user') => user'.weekly > 0
  BY <1>2, <1>3 DEF WeeklyDecides, Limited
<1>5. (Limited(user) => WithinSlack)'
  BY <1>1, <1>2, <1>4 DEF WithinSlack
<1> QED BY <1>5 DEF BoundParts

\* Whatever moves no credit leaves the verdict of a request's second query.
LEMMA OutstandingFrom ==
    ASSUME UNCHANGED used,
           \A q \in Requests : req'[q] = req[q] \/ ~Chargeable(q)'
    PROVE  Outstanding' \subseteq Outstanding
BY DEF Outstanding, Chargeable, Exhausted

\* A step of a request that charges nothing keeps the bound.
LEMMA RequestBound ==
    ASSUME IsFiniteSet(Requests), BoundInv, NEW r \in Requests, RequestStep(r),
           ~\E cost \in 1..MaxCost : Charge(r, cost)
    PROVE  BoundParts'
<1> USE DEF BoundInv, SumInv, LedgerInv
<1>1. UNCHANGED <<user, used, age>> /\ \A q \in Requests : q # r => req'[q] = req[q]
  BY DEF RequestStep, Authenticate, ReadRow, Admit, Reject, EndUncharged, EndUnlimited, TypeOK
<1>2. CASE ReadRow(r)
  <2>1. /\ req'[r].pc = "counting" /\ req'[r].period = Period(user.anchor)
        /\ req'[r].row = [weekly |-> user.weekly, spare |-> user.spent < user.lifetime]
    BY <1>2 DEF ReadRow, TypeOK, Request
  <2>2. CASE Chargeable(r)'
    <3>1. ThisWeek < user.weekly \/ user.spent < user.lifetime
      <4>1. ~(used[Period(user.anchor)] >= user.weekly /\ ~(user.spent < user.lifetime))
        <5>1. ~(used'[req'[r].period] >= req'[r].row.weekly /\ ~req'[r].row.spare)
          BY <2>1, <2>2 DEF Chargeable, Exhausted
        <5>2. req'[r].row.weekly = user.weekly /\ req'[r].row.spare = (user.spent < user.lifetime)
          BY <2>1
        <5> QED BY <1>1, <2>1, <5>1, <5>2
      <4> QED BY <4>1, NumbersTyped DEF ThisWeek
    <3>2. Due' \in Nat /\ Slack' \in Nat /\ Due' <= Slack' /\ Slack' = Slack
      BY DueBoundsNext DEF Slack
    <3>3. ThisWeek' = ThisWeek
      BY <1>1 DEF ThisWeek, Period
    <3>4. WithinSlack'
      BY <1>1, <3>1, <3>2, <3>3, NumbersTyped DEF WithinSlack
    <3> QED BY <1>1, <3>4 DEF BoundParts, Granted, FutureUnused
  <2>3. CASE ~Chargeable(r)'
    BY <1>1, <2>3, OutstandingFrom, QuietBound
  <2> QED BY <2>2, <2>3
<1>3. CASE ~ReadRow(r)
  <2>0. Done.pc = "idle" /\ DOMAIN Done = {"pc", "tok", "row", "period"}
    BY DEF Done
  <2>1. ASSUME NEW b \in Replicas, Authenticate(r, b) PROVE ~Chargeable(r)'
    BY <2>1 DEF Authenticate, Chargeable, TypeOK, Request
  <2>2. ASSUME Admit(r), Chargeable(r)' PROVE Chargeable(r)
    BY <2>2 DEF Admit, Chargeable
  <2>3. ASSUME Reject(r) \/ EndUncharged(r) \/ \E cost \in 1..MaxCost : EndUnlimited(r, cost)
        PROVE  ~Chargeable(r)'
    BY <2>0, <2>3 DEF Reject, EndUncharged, EndUnlimited, Chargeable, TypeOK
  <2>4. Chargeable(r)' => Chargeable(r)
    BY <1>3, <2>1, <2>2, <2>3 DEF RequestStep
  <2>5. Outstanding' \subseteq Outstanding
    BY <1>1, <2>4 DEF Outstanding, Chargeable, Exhausted
  <2> QED BY <1>1, <2>5, QuietBound
<1> QED BY <1>2, <1>3

\* A charge uses the room that was kept for the request.
LEMMA ChargeBound ==
    ASSUME IsFiniteSet(Requests), BoundInv, NEW r \in Requests, NEW cost \in 1..MaxCost,
           Charge(r, cost)
    PROVE  BoundParts'
<1> USE DEF BoundInv, SumInv, LedgerInv
<1> DEFINE t == req[r].tok
           p == Period(t.anchor)
<1>1. t \in Token /\ p \in Periods /\ p = <<t.anchor, age[t.anchor]>> /\ cost \in Nat
      /\ MaxCost \in Nat /\ cost <= MaxCost
  BY PeriodType, QuotaAssumption DEF TypeOK, Request, Token, Period
<1>2. /\ used' = [used EXCEPT ![p] = used[p] + cost]
      /\ user' = [user EXCEPT !.spent = user.spent + Spill(t, p, cost)]
      /\ req' = [req EXCEPT ![r] = Done]
      /\ req[r].pc = "running" /\ Limited(t) /\ UNCHANGED age
  BY DEF Charge
<1>3. Spill(t, p, cost) \in 0..cost
  BY <1>1, SpillBounds DEF TypeOK
<1> HIDE DEF t, p
<1>4. \A q \in Periods : used[q] \in Nat /\ used'[q] \in Nat /\ used'[q] >= used[q]
                         /\ used'[q] <= used[q] + cost
  BY <1>1, <1>2, QuotaAssumption DEF TypeOK, Micro
<1>5. /\ user'.spent <= user.spent + cost /\ user'.spent \in Nat
      /\ user'.weekly = user.weekly /\ user'.lifetime = user.lifetime
      /\ user'.anchor = user.anchor
  BY <1>1, <1>2, <1>3, NumbersTyped DEF TypeOK, User
<1>6. Outstanding' \subseteq Outstanding \ {r}
  <2>1. ASSUME NEW q \in Requests, Chargeable(q)' PROVE q # r /\ Chargeable(q)
    <3>1. q # r
      BY <1>2, <2>1 DEF Chargeable, Done, TypeOK
    <3>2. req'[q] = req[q] /\ req[q].period \in Periods /\ req[q].row.weekly \in Nat
      BY <1>2, <3>1 DEF TypeOK, Request
    <3>3. CASE req[q].pc = "counting"
      <4>1. ~(used'[req[q].period] >= req[q].row.weekly /\ ~req[q].row.spare)
        BY <2>1, <3>2, <3>3 DEF Chargeable, Exhausted
      <4>2. ~(used[req[q].period] >= req[q].row.weekly /\ ~req[q].row.spare)
        BY <1>4, <3>2, <4>1
      <4> QED BY <3>1, <3>3, <4>2 DEF Chargeable, Exhausted
    <3>4. CASE req[q].pc # "counting"
      BY <2>1, <3>1, <3>2, <3>4 DEF Chargeable
    <3> QED BY <3>3, <3>4
  <2> QED BY <2>1 DEF Outstanding
<1>7. r \in Outstanding
  BY <1>2 DEF Outstanding, Chargeable, t
<1>8. Due' + MaxCost <= Due /\ Due \in Nat /\ Due' \in Nat /\ Slack \in Nat /\ Slack' = Slack
  BY <1>6, <1>7, DueSettled, DueBounds, DueBoundsNext DEF Slack
<1>9. ThisWeek' <= ThisWeek + cost /\ ThisWeek \in Nat /\ ThisWeek' \in Nat
  <2>1. Period(user.anchor)' = Period(user.anchor) /\ Period(user.anchor) \in Periods
    BY <1>2, <1>5, NumbersTyped DEF Period
  <2> QED BY <1>4, <2>1 DEF ThisWeek
<1>10. (Limited(user) => WithinSlack)'
  <2>1. user.weekly \in Nat /\ user.lifetime \in Nat /\ user.spent \in Nat
    BY NumbersTyped
  <2>2. Limited(user)' => WithinSlack
    BY <1>5 DEF Limited
  <2>3. WithinSlack => WithinSlack'
    BY <1>1, <1>5, <1>8, <1>9, <2>1 DEF WithinSlack
  <2> QED BY <2>2, <2>3
<1>11. FutureUnused'
  <2> SUFFICES ASSUME NEW q \in Periods, q[2] > age[q[1]] PROVE used'[q] = 0
    BY <1>2 DEF FutureUnused
  <2>1. age[t.anchor] \in Int /\ t.anchor \in Anchors
    BY <1>1 DEF TypeOK, Ages, Token
  <2>2. q # p
    BY <1>1, <2>1
  <2> QED BY <1>2, <2>2 DEF FutureUnused, TypeOK
<1> QED BY <1>5, <1>10, <1>11 DEF BoundParts, Granted

\* A new anchor starts a week in which nothing is used.
LEMMA RestartFresh ==
    ASSUME SumInv, NEW g \in Grants, Restart(g.weekly, g.lifetime), UNCHANGED <<used, age>>
    PROVE  /\ ThisWeek' = 0
           /\ user'.weekly = g.weekly /\ user'.lifetime = g.lifetime /\ user'.spent = user.spent
<1> USE DEF SumInv, LedgerInv
<1>1. anchors \in Nat /\ anchors + 1 \in Anchors
  BY RestartType, QuotaAssumption DEF TypeOK, Anchors
<1>2. /\ user'.weekly = g.weekly /\ user'.lifetime = g.lifetime /\ user'.anchor = anchors + 1
      /\ user'.spent = user.spent
  BY DEF Restart, TypeOK, User
<1>3. Period(anchors + 1) \in Periods /\ Period(anchors + 1)[1] = anchors + 1
  BY <1>1, PeriodType DEF TypeOK
<1>4. used[Period(anchors + 1)] = 0
  BY <1>1, <1>3 DEF Unused
<1> QED BY <1>2, <1>4 DEF ThisWeek, Period

\* So the bound holds in it.
LEMMA RestartBound ==
    ASSUME IsFiniteSet(Requests), WeeklyDecides, BoundInv, TypeOK',
           NEW g \in Grants, Restart(g.weekly, g.lifetime), UNCHANGED <<used, age>>
    PROVE  BoundParts'
<1>1. /\ ThisWeek' = 0
      /\ user'.weekly = g.weekly /\ user'.lifetime = g.lifetime
  BY RestartFresh DEF BoundInv
<1>2. Granted' /\ FutureUnused'
  BY <1>1 DEF Granted, FutureUnused, BoundInv
<1> QED BY <1>1, <1>2, FreshWeek

\* An administrator who works alone leaves the row as it is, or writes limits
\* with a new anchor: an update that keeps the weekly limit keeps the grant.
LEMMA AdminRow ==
    ASSUME WeeklyDecides, BoundInv, NEW a \in Admins, AdminStep(a)
    PROVE  /\ UNCHANGED <<used, age, req>>
           /\ UNCHANGED <<user, real>> \/ \E g \in Grants : Restart(g.weekly, g.lifetime)
<1> USE DEF BoundInv, SumInv, LedgerInv, CurrentInv
<1>1. UNCHANGED <<used, age, req>>
  BY DEF AdminStep, BeginUpdate, WriteUpdate, ResetUserQuota, ResetWeeklyQuotas,
         ReadTokens, InstallTokens, FailReload, Restart
<1>2. PICK h \in Grants : user.weekly = h.weekly /\ user.lifetime = h.lifetime
  BY DEF Granted
<1>3. CASE WriteUpdate(a)
  <2>1. adm[a].grant \in Grants /\ adm[a].seen = Copy(user)
    BY <1>3 DEF WriteUpdate, AllBacked, Current
  <2>2. CASE adm[a].seen.weekly # adm[a].grant.weekly
    BY <1>1, <1>3, <2>1, <2>2 DEF WriteUpdate
  <2>3. CASE adm[a].seen.weekly = adm[a].grant.weekly
    <3>1. adm[a].grant = h
      BY <1>2, <2>1, <2>3 DEF Copy, WeeklyDecides
    <3>2. user' = [user EXCEPT !.weekly = h.weekly, !.lifetime = h.lifetime,
                               !.anchor = user.anchor]
      BY <1>3, <2>1, <2>3, <3>1 DEF WriteUpdate, Copy
    <3>3. UNCHANGED user
      BY <1>2, <3>2 DEF TypeOK, User
    <3>4. UNCHANGED real
      BY <1>3, <2>3, <3>3 DEF WriteUpdate, LimitsWritten
    <3> QED BY <1>1, <3>3, <3>4
  <2> QED BY <2>2, <2>3
<1>4. ASSUME NEW b \in Replicas, ResetUserQuota(a, b) \/ ResetWeeklyQuotas(a, b)
      PROVE  UNCHANGED <<user, real>> \/ \E g \in Grants : Restart(g.weekly, g.lifetime)
  BY <1>2, <1>4 DEF ResetUserQuota, ResetWeeklyQuotas
<1>5. CASE \/ \E b \in Replicas, g \in Grants : BeginUpdate(a, b, g)
           \/ ReadTokens(a) \/ InstallTokens(a) \/ FailReload(a)
  BY <1>1, <1>5 DEF BeginUpdate, ReadTokens, InstallTokens, FailReload
<1> QED BY <1>1, <1>3, <1>4, <1>5 DEF AdminStep

\* A change of the limits, a reset and a reload keep the bound.
LEMMA AdminBound ==
    ASSUME IsFiniteSet(Requests), WeeklyDecides, BoundInv, TypeOK', NEW a \in Admins, AdminStep(a)
    PROVE  BoundParts'
<1>1. UNCHANGED <<used, age, req>>
      /\ (UNCHANGED user \/ \E g \in Grants : Restart(g.weekly, g.lifetime))
  BY AdminRow
<1>2. Outstanding' = Outstanding
  BY <1>1 DEF Outstanding, Chargeable, Exhausted
<1> QED BY <1>1, <1>2, QuietBound, RestartBound

\* A week that passes starts the next one with nothing used.
LEMMA WeekPasses ==
    ASSUME BoundInv, NEW k \in Anchors, PassWeek(k)
    PROVE  ThisWeek' = IF user.anchor = k THEN 0 ELSE ThisWeek
<1> USE DEF BoundInv, SumInv, LedgerInv
<1>1. UNCHANGED <<user, used>> /\ age' = [age EXCEPT ![k] = age[k] + 1] /\ age[k] + 1 \in Ages
  BY QuotaAssumption DEF PassWeek, TypeOK, Ages
<1>2. user.anchor \in Anchors
  BY NumbersTyped
<1>3. CASE user.anchor = k
  <2>1. ThisWeek' = used[<<k, age[k] + 1>>]
    BY <1>1, <1>3 DEF ThisWeek, Period, TypeOK
  <2>2. <<k, age[k] + 1>> \in Periods
    BY <1>1 DEF Periods
  <2>3. <<k, age[k] + 1>>[2] > age[<<k, age[k] + 1>>[1]]
    BY DEF TypeOK, Ages
  <2> QED BY <1>3, <2>1, <2>2, <2>3 DEF FutureUnused
<1>4. CASE user.anchor # k
  BY <1>1, <1>2, <1>4 DEF ThisWeek, Period, TypeOK
<1> QED BY <1>3, <1>4

LEMMA PassWeekBound ==
    ASSUME IsFiniteSet(Requests), WeeklyDecides, BoundInv, TypeOK', NEW k \in Anchors, PassWeek(k)
    PROVE  BoundParts'
<1> USE DEF BoundInv, SumInv, LedgerInv
<1>1. /\ UNCHANGED <<user, used, req>>
      /\ age' = [age EXCEPT ![k] = age[k] + 1]
  BY DEF PassWeek
<1>2. \A j \in Anchors : age[j] \in Int /\ age'[j] \in Int /\ age'[j] >= age[j]
  BY <1>1 DEF TypeOK, Ages
<1>3. FutureUnused'
  <2> SUFFICES ASSUME NEW q \in Periods, q[2] > age'[q[1]] PROVE used'[q] = 0
    BY DEF FutureUnused
  <2>1. q[1] \in Anchors /\ q[2] \in Int
    BY DEF Periods, Ages
  <2>2. q[2] > age[q[1]]
    BY <1>2, <2>1
  <2> QED BY <1>1, <2>2 DEF FutureUnused
<1>4. Granted'
  BY <1>1 DEF Granted
<1>5. Due' = Due /\ Slack' = Slack
  BY <1>1 DEF Due, Slack, Outstanding, Chargeable, Exhausted
<1>6. CASE user.anchor = k
  BY <1>3, <1>4, <1>6, WeekPasses, FreshWeek
<1>7. CASE user.anchor # k
  <2>1. (Limited(user) => WithinSlack)'
    BY <1>1, <1>5, <1>7, WeekPasses DEF Limited, WithinSlack
  <2> QED BY <1>3, <1>4, <2>1 DEF BoundParts
<1> QED BY <1>6, <1>7

\* BoundInv is inductive with one administrator.
LEMMA StepBound ==
    ASSUME IsFiniteSet(Requests), OneAdmin, WeeklyDecides
    PROVE  BoundInv /\ [Next]_vars => BoundInv'
<1> SUFFICES ASSUME BoundInv, [Next]_vars PROVE BoundParts'
  BY StepSum, StepCurrent DEF BoundInv, BoundParts
<1>1. TypeOK'
  BY StepType DEF BoundInv, CurrentInv
<1>2. CASE UNCHANGED vars
  <2>1. Outstanding' \subseteq Outstanding /\ UNCHANGED <<user, used, age>>
    BY <1>2 DEF vars, Outstanding, Chargeable, Exhausted
  <2> QED BY <2>1, QuietBound
<1> QED BY <1>1, <1>2, RequestBound, ChargeBound, AdminBound, PassWeekBound DEF Next

\* BoundInv holds at the start, where no credit is used.
LEMMA InitBound == ASSUME IsFiniteSet(Requests), WeeklyDecides PROVE Init => BoundInv
<1> SUFFICES ASSUME Init PROVE BoundInv
  OBVIOUS
<1>1. SumInv
  BY InitSum, InitType, InitLedger DEF SumInv, LedgerInv
<1>2. CurrentInv
  <2>1. \A a \in Admins : adm[a] = Resting
    BY DEF Init
  <2> QED BY <2>1, InitType DEF CurrentInv, Current, Resting
<1>3. PICK g \in Grants : user.weekly = g.weekly /\ user.lifetime = g.lifetime
  BY DEF Init
<1>4. \A p \in Periods : used[p] = 0
  BY DEF Init
<1>5. user.weekly \in Nat /\ user.lifetime \in Nat /\ ThisWeek = 0
  BY <1>1, <1>4, NumbersTyped DEF SumInv, LedgerInv, ThisWeek
<1>6. Limited(user) => user.weekly > 0
  BY <1>3, <1>5 DEF WeeklyDecides, Limited
<1>7. Limited(user) => WithinSlack
  BY <1>5, <1>6, DueBounds DEF WithinSlack
<1> QED BY <1>1, <1>2, <1>3, <1>4, <1>7 DEF BoundInv, Granted, FutureUnused

-----------------------------------------------------------------------------
(* What is really used                                                     *)

\* BoundInv counts what is booked on the row's week.  What is really used
\* differs from it by the requests that hold other limits than the row's: when
\* the limits change they may be all that are in progress, and no more of them
\* come while real counts on.
Strays == {r \in Requests : req[r].pc # "idle" /\ req[r].tok # Copy(user)}
Stray  == Cardinality(Strays) * MaxCost

RealWithin == Limited(user) => real + Stray <= ThisWeek + Slack

\* What the week was used beyond its limit is on the lifetime counter, because
\* whoever is charged to the row's week has the row's lifetime quota too.
WeekBacked == user.lifetime > 0 => user.spent >= Overage(ThisWeek, user.weekly)

\* The limits that anyone holds were granted together.
GrantOf(t) == \E g \in Grants : t.weekly = g.weekly /\ t.lifetime = g.lifetime
AllGranted ==
    /\ \A b \in Replicas : GrantOf(token[b])
    /\ \A r \in Requests : Limited(req[r].tok) => GrantOf(req[r].tok)
    /\ \A a \in Admins : adm[a].pc = "installing" => GrantOf(adm[a].seen)

RealParts == AllGranted /\ WeekBacked /\ RealWithin
RealInv   == BoundInv /\ RealParts

\* Requests with old limits cost no more than all requests.
LEMMA StrayBounds == IsFiniteSet(Requests) => Stray \in Nat /\ Slack \in Nat /\ Stray <= Slack
<1>1. Strays \in SUBSET Requests
  BY DEF Strays
<1> QED BY <1>1, CostBounds DEF Stray

\* StrayBounds of the next state.
LEMMA StrayBoundsNext ==
    (IsFiniteSet(Requests) => Stray \in Nat /\ Slack \in Nat /\ Stray <= Slack)'
BY StrayBounds, PTL

\* The week's use of the next state is a number, and its overage too.
LEMMA NumbersTypedNext ==
    (TypeOK => /\ user.anchor \in Anchors /\ user.weekly \in Nat /\ user.lifetime \in Nat
               /\ user.spent \in Nat
               /\ Period(user.anchor) \in Periods /\ ThisWeek \in Nat)'
BY NumbersTyped, PTL

\* The arithmetic of RealWithin, for the use r, the requests s with old limits,
\* the week's use w and the slack k: a count that starts, one that stays, one
\* that takes the cost of a request with old limits, and one that takes a cost
\* which the week takes too.
LEMMA CountSums ==
    /\ \A r, s, w, k \in Nat : r = 0 /\ s <= k => r + s <= w + k
    /\ \A r, s, t, w, k \in Nat : r + s <= w + k /\ t <= s => r + t <= w + k
    /\ \A r, s, t, w, v, k, c, m \in Nat :
        r + s <= w + k /\ t + m <= s /\ c <= m /\ w <= v => (r + c) + t <= v + k
    /\ \A r, s, t, w, k, c \in Nat : r + s <= w + k /\ t <= s => (r + c) + t <= (w + c) + k
BY SMT

\* A request holds granted limits, since it has them from a replica.
LEMMA RequestGranted ==
    ASSUME RealInv, NEW r \in Requests, RequestStep(r)
    PROVE  AllGranted'
<1> USE DEF RealInv, RealParts, BoundInv, SumInv, LedgerInv
<1>1. UNCHANGED <<token, adm>>
  BY DEF RequestStep, Authenticate, ReadRow, Admit, Reject, Charge, EndUncharged, EndUnlimited
<1>2. ASSUME NEW q \in Requests, Limited(req'[q].tok) PROVE GrantOf(req'[q].tok)
  <2>1. ~Limited(NoToken)
    BY DEF Limited, NoToken
  <2> QED BY <1>2, <2>1, RequestTokens DEF AllGranted
<1> QED BY <1>1, <1>2 DEF AllGranted

\* A replica holds granted limits, since it reads them from the row.
LEMMA AdminGranted ==
    ASSUME RealInv, NEW a \in Admins, AdminStep(a)
    PROVE  AllGranted'
<1> USE DEF RealInv, RealParts, BoundInv, SumInv, LedgerInv, TypeOK
<1>r. Resting.pc = "idle" /\ DOMAIN Resting = {"pc", "rep", "grant", "seen"}
  BY DEF Resting
<1>1. UNCHANGED req
  BY DEF AdminStep, BeginUpdate, WriteUpdate, ResetUserQuota, ResetWeeklyQuotas,
         ReadTokens, InstallTokens, FailReload, Restart
<1>2. \A b \in Replicas : GrantOf(token'[b])
  <2>1. CASE InstallTokens(a)
    <3>1. \A b \in Replicas : token'[b] = token[b] \/ token'[b] = adm[a].seen
      BY <2>1 DEF InstallTokens
    <3>2. GrantOf(adm[a].seen)
      BY <2>1 DEF InstallTokens, AllGranted
    <3> QED BY <3>1, <3>2 DEF AllGranted
  <2>2. CASE ~InstallTokens(a)
    <3>1. UNCHANGED token
      BY <2>2 DEF AdminStep, BeginUpdate, WriteUpdate, ResetUserQuota, ResetWeeklyQuotas,
                  ReadTokens, FailReload
    <3> QED BY <3>1 DEF AllGranted
  <2> QED BY <2>1, <2>2
<1>3. ASSUME NEW c \in Admins, adm'[c].pc = "installing" PROVE GrantOf(adm'[c].seen)
  <2>1. CASE adm'[c] = adm[c]
    BY <1>3, <2>1 DEF AllGranted
  <2>2. CASE ReadTokens(a) /\ adm'[c] # adm[c]
    <3>1. adm'[c].seen = Copy(user)
      BY <2>2 DEF ReadTokens, Admin
    <3> QED BY <3>1 DEF Granted, GrantOf, Copy
  <2>3. CASE ~ReadTokens(a) /\ adm'[c] # adm[c]
    <3>1. CASE \E b \in Replicas, g \in Grants : BeginUpdate(a, b, g)
      BY <1>3, <2>3, <3>1 DEF BeginUpdate
    <3>2. CASE ~\E b \in Replicas, g \in Grants : BeginUpdate(a, b, g)
      <4>1. \E b \in Replicas \union {adm[a].rep} :
              \/ adm' = [adm EXCEPT ![a] = [Resting EXCEPT !.pc = "reloading", !.rep = b]]
              \/ adm' = [adm EXCEPT ![a] = [Resting EXCEPT !.rep = b]]
              \/ adm' = [adm EXCEPT ![a] = [Resting EXCEPT !.pc = "failed"]]
        BY <2>3, <3>2 DEF AdminStep, WriteUpdate, ResetUserQuota, ResetWeeklyQuotas,
                         InstallTokens, FailReload
      <4> QED BY <1>r, <1>3, <2>3, <4>1
    <3> QED BY <3>1, <3>2
  <2> QED BY <2>1, <2>2, <2>3
<1> QED BY <1>1, <1>2, <1>3 DEF AllGranted

\* A step that starts the count anew, in a week in which nothing is used or
\* while the week stays as it is.
LEMMA CountAnew ==
    ASSUME IsFiniteSet(Requests), RealInv, TypeOK', real' = 0, user'.spent = user.spent,
           \/ ThisWeek' = 0
           \/ ThisWeek' = ThisWeek /\ UNCHANGED user
    PROVE  (WeekBacked /\ RealWithin)'
<1> USE DEF RealInv, RealParts, BoundInv, CurrentInv
<1>1. Stray' \in Nat /\ Slack' \in Nat /\ Stray' <= Slack'
  BY StrayBoundsNext
<1>2. /\ user'.weekly \in Nat /\ user.spent \in Nat /\ ThisWeek' \in Nat /\ real' \in Nat
  BY NumbersTyped, NumbersTypedNext DEF TypeOK
<1>3. RealWithin'
  <2>1. real' + Stray' <= ThisWeek' + Slack'
    BY <1>1, <1>2, CountSums, Zenon
  <2> QED BY <2>1 DEF RealWithin
<1>4. WeekBacked'
  <2>1. CASE ThisWeek' = 0
    BY <1>2, <2>1 DEF WeekBacked, Overage
  <2>2. CASE ThisWeek' = ThisWeek /\ UNCHANGED user
    BY <2>2 DEF WeekBacked, Overage
  <2> QED BY <2>1, <2>2
<1> QED BY <1>3, <1>4

\* A step that books nothing, after which no more requests hold old limits; it
\* may end one of them, which has then really cost what it had to.
LEMMA CountOn ==
    ASSUME IsFiniteSet(Requests), RealInv, TypeOK', UNCHANGED user, ThisWeek' = ThisWeek,
           \/ real' = real /\ Strays' \subseteq Strays
           \/ \E r \in Strays, cost \in 0..MaxCost :
                real' = real + cost /\ Strays' \subseteq Strays \ {r}
    PROVE  (WeekBacked /\ RealWithin)'
<1> USE DEF RealInv, RealParts, BoundInv, CurrentInv
<1>1. /\ Stray \in Nat /\ Stray' \in Nat /\ Slack \in Nat /\ Slack' = Slack
      /\ ThisWeek \in Nat /\ real \in Nat /\ MaxCost \in Nat
  BY StrayBounds, StrayBoundsNext, NumbersTyped, QuotaAssumption DEF Slack, TypeOK
<1>2. Strays \in SUBSET Requests
  BY DEF Strays
<1>3. RealWithin'
  <2> SUFFICES ASSUME Limited(user)' PROVE real' + Stray' <= ThisWeek + Slack
    BY <1>1 DEF RealWithin
  <2>1. real + Stray <= ThisWeek + Slack
    BY DEF RealWithin, Limited
  <2>2. CASE real' = real /\ Strays' \subseteq Strays
    <3>1. Stray' <= Stray
      BY <1>2, <2>2, CostFalls DEF Stray
    <3>2. real + Stray' <= ThisWeek + Slack
      BY <1>1, <2>1, <3>1, CountSums, Zenon
    <3> QED BY <2>2, <3>2, Zenon
  <2>3. ASSUME NEW r \in Strays, NEW cost \in 0..MaxCost,
               real' = real + cost, Strays' \subseteq Strays \ {r}
        PROVE  real' + Stray' <= ThisWeek + Slack
    <3>1. Stray' + MaxCost <= Stray
      BY <1>2, <2>3, CostSettled DEF Stray
    <3>2. cost \in Nat /\ cost <= MaxCost /\ ThisWeek <= ThisWeek
      BY <1>1
    <3>3. (real + cost) + Stray' <= ThisWeek + Slack
      BY <1>1, <2>1, <3>1, <3>2, CountSums, Zenon
    <3> QED BY <2>3, <3>3, Zenon
  <2> QED BY <2>2, <2>3
<1>4. WeekBacked'
  BY DEF WeekBacked, Overage
<1> QED BY <1>3, <1>4

\* A charge to the row's week is made with the row's limits.
LEMMA ChargeReal ==
    ASSUME IsFiniteSet(Requests), WeeklyDecides, RealInv, TypeOK',
           NEW r \in Requests, NEW cost \in 1..MaxCost, Charge(r, cost)
    PROVE  (WeekBacked /\ RealWithin)'
<1> USE DEF RealInv, RealParts, BoundInv, SumInv, LedgerInv
<1> DEFINE t == req[r].tok
           p == Period(t.anchor)
           w == Period(user.anchor)
<1>1. /\ t \in Token /\ p \in Periods /\ p[1] = t.anchor /\ cost \in Nat /\ MaxCost \in Nat
      /\ cost <= MaxCost
  BY PeriodType, QuotaAssumption DEF TypeOK, Request, Token
<1>2. /\ used' = [used EXCEPT ![p] = used[p] + cost]
      /\ user' = [user EXCEPT !.spent = user.spent + Spill(t, p, cost)]
      /\ req' = [req EXCEPT ![r] = Done]
      /\ req[r].pc = "running" /\ Limited(t) /\ Counted(cost) /\ UNCHANGED age
  BY DEF Charge
<1>3. Spill(t, p, cost) \in 0..cost
  BY <1>1, SpillBounds DEF TypeOK
<1>4. /\ w \in Periods /\ w[1] = user.anchor /\ user.weekly \in Nat /\ user.lifetime \in Nat
      /\ user.spent \in Nat /\ ThisWeek \in Nat /\ ThisWeek = used[w] /\ real \in Nat
  BY NumbersTyped, PeriodType DEF TypeOK, ThisWeek
<1>5. /\ user'.weekly = user.weekly /\ user'.lifetime = user.lifetime
      /\ user'.anchor = user.anchor /\ user'.spent = user.spent + Spill(t, p, cost)
      /\ Copy(user)' = Copy(user)
  BY <1>2 DEF TypeOK, User, Copy
<1>6. ThisWeek' = IF p = w THEN ThisWeek + cost ELSE ThisWeek
  <2>1. w' = w
    BY <1>2, <1>5 DEF Period
  <2>2. ThisWeek' = used'[w]
    BY <2>1 DEF ThisWeek
  <2> HIDE DEF p, w
  <2> QED BY <1>1, <1>2, <1>4, <2>2 DEF TypeOK
<1>7. p = w => t.weekly = user.weekly /\ t.lifetime = user.lifetime
  <2> SUFFICES ASSUME p = w PROVE t.weekly = user.weekly /\ t.lifetime = user.lifetime
    OBVIOUS
  <2>1. t.anchor = user.anchor
    BY <1>1, <1>4
  <2>2. t.weekly = user.weekly
    BY <1>2, <2>1 DEF AnchorFixesLimit, Pairs
  <2>3. PICK g \in Grants : t.weekly = g.weekly /\ t.lifetime = g.lifetime
    BY <1>2 DEF AllGranted, GrantOf
  <2>4. PICK h \in Grants : user.weekly = h.weekly /\ user.lifetime = h.lifetime
    BY DEF Granted
  <2> QED BY <2>2, <2>3, <2>4 DEF WeeklyDecides
<1>8. WeekBacked'
  <2>1. CASE p = w
    <3>1. user.lifetime > 0 => Spill(t, p, cost)
                             = Overage(ThisWeek + cost, user.weekly) - Overage(ThisWeek, user.weekly)
      BY <1>4, <1>7, <2>1 DEF Spill
    <3>2. Overage(ThisWeek + cost, user.weekly) \in Nat /\ Overage(ThisWeek, user.weekly) \in Nat
      <4>1. ThisWeek + cost \in Nat
        BY <1>1, <1>4
      <4> QED BY <1>4, <4>1, OverageNat
    <3>3. user'.lifetime > 0 => user'.spent >= Overage(ThisWeek + cost, user.weekly)
      BY <1>4, <1>5, <3>1, <3>2 DEF WeekBacked
    <3> QED BY <1>5, <1>6, <2>1, <3>3 DEF WeekBacked, Overage
  <2>2. CASE p # w
    <3>1. Overage(ThisWeek, user.weekly) \in Nat
      BY <1>4, OverageNat
    <3>2. user'.lifetime > 0 => user'.spent >= Overage(ThisWeek, user.weekly)
      BY <1>1, <1>3, <1>4, <1>5, <3>1 DEF WeekBacked
    <3> QED BY <1>5, <1>6, <2>2, <3>2 DEF WeekBacked, Overage
  <2> QED BY <2>1, <2>2
<1> HIDE DEF p, w
<1>9. \A q \in Strays' : q \in Strays /\ q # r
  <2>1. req'[r].pc = "idle"
    BY <1>2 DEF TypeOK, Done
  <2> QED BY <1>2, <1>5, <2>1 DEF Strays, TypeOK
<1>10. /\ Stray \in Nat /\ Stray' \in Nat /\ Slack \in Nat /\ Slack' = Slack
  BY StrayBounds, StrayBoundsNext DEF Slack
<1>11. (r \in Strays => Stray' + MaxCost <= Stray) /\ Stray' <= Stray
  <2>1. Strays \in SUBSET Requests /\ Strays' \in SUBSET (Strays \ {r})
    BY <1>9 DEF Strays
  <2>2. Strays' \in SUBSET Strays
    BY <2>1
  <2> QED BY <2>1, <2>2, CostFalls, CostSettled DEF Stray
<1>12. r \notin Strays => p = w
  BY <1>2 DEF Strays, p, w, Copy
<1>13. RealWithin'
  <2> SUFFICES ASSUME Limited(user)' PROVE real' + Stray' <= ThisWeek' + Slack'
    BY DEF RealWithin
  <2>1. Limited(user)
    BY <1>5 DEF Limited
  <2>2. real' = real + cost
    BY <1>2, <2>1 DEF Counted
  <2>3. real + Stray <= ThisWeek + Slack
    BY <2>1 DEF RealWithin
  <2>4. Stray \in Nat /\ Stray' \in Nat /\ Slack \in Nat /\ ThisWeek' \in Nat
    BY <1>1, <1>4, <1>6, <1>10
  <2>5. CASE r \in Strays
    <3>1. Stray' + MaxCost <= Stray /\ ThisWeek <= ThisWeek'
      BY <1>1, <1>4, <1>6, <1>11, <2>5
    <3>2. (real + cost) + Stray' <= ThisWeek' + Slack
      BY <1>1, <1>4, <2>3, <2>4, <3>1, CountSums, Zenon
    <3> QED BY <1>10, <2>2, <3>2, Zenon
  <2>6. CASE r \notin Strays
    <3>1. ThisWeek' = ThisWeek + cost
      BY <1>6, <1>12, <2>6
    <3>2. (real + cost) + Stray' <= (ThisWeek + cost) + Slack
      BY <1>1, <1>4, <1>11, <2>3, <2>4, CountSums, Zenon
    <3> QED BY <1>10, <2>2, <3>1, <3>2, Zenon
  <2> QED BY <2>5, <2>6
<1> QED BY <1>8, <1>13

\* A step of a request that books nothing.
LEMMA RequestReal ==
    ASSUME IsFiniteSet(Requests), RealInv, TypeOK', NEW r \in Requests, RequestStep(r),
           ~\E cost \in 1..MaxCost : Charge(r, cost)
    PROVE  (WeekBacked /\ RealWithin)'
<1> USE DEF RealInv, RealParts, BoundInv, CurrentInv
<1>1. UNCHANGED <<user, used, age>> /\ \A q \in Requests : q # r => req'[q] = req[q]
  BY DEF RequestStep, Authenticate, ReadRow, Admit, Reject, EndUncharged, EndUnlimited, TypeOK
<1>2. ThisWeek' = ThisWeek /\ Copy(user)' = Copy(user)
  BY <1>1 DEF ThisWeek, Period, Copy
<1>d. Done.pc = "idle" /\ DOMAIN Done = {"pc", "tok", "row", "period"}
  BY DEF Done
<1>3. ASSUME NEW b \in Replicas, Authenticate(r, b) PROVE (WeekBacked /\ RealWithin)'
  <2>1. CASE token[b] = Copy(user)
    <3>1. req'[r].tok = Copy(user) /\ UNCHANGED real
      BY <1>3, <2>1 DEF Authenticate, TypeOK, Request
    <3>2. Strays' \subseteq Strays
      BY <1>1, <1>2, <3>1 DEF Strays
    <3> QED BY <1>1, <1>2, <3>1, <3>2, CountOn
  <2>2. CASE token[b] # Copy(user)
    <3>1. real' = 0
      BY <1>3, <2>2 DEF Authenticate, BeganAnew
    <3> QED BY <1>1, <1>2, <3>1, CountAnew
  <2> QED BY <2>1, <2>2
<1>4. CASE ReadRow(r) \/ Admit(r) \/ Reject(r) \/ EndUncharged(r)
  <2>1. req'[r].pc # "idle" => req[r].pc # "idle" /\ req'[r].tok = req[r].tok
    <3>1. CASE ReadRow(r)
      BY <3>1 DEF ReadRow, TypeOK, Request
    <3>2. CASE Admit(r)
      BY <3>2, <1>d DEF Admit, TypeOK, Request
    <3>3. CASE Reject(r) \/ EndUncharged(r)
      BY <3>3, <1>d DEF Reject, EndUncharged, TypeOK
    <3> QED BY <1>4, <3>1, <3>2, <3>3
  <2>2. Strays' \subseteq Strays
    BY <1>1, <1>2, <2>1 DEF Strays
  <2>3. UNCHANGED real
    BY <1>4 DEF ReadRow, Admit, Reject, EndUncharged
  <2> QED BY <1>1, <1>2, <2>2, <2>3, CountOn
<1>5. ASSUME NEW cost \in 1..MaxCost, EndUnlimited(r, cost) PROVE (WeekBacked /\ RealWithin)'
  <2>1. req'[r].pc = "idle" /\ req[r].pc # "idle" /\ ~Limited(req[r].tok)
    BY <1>5, <1>d DEF EndUnlimited, TypeOK
  <2>2. Strays' \subseteq Strays \ {r}
    BY <1>1, <1>2, <2>1 DEF Strays
  <2>3. CASE Limited(user)
    <3>1. real' = real + cost
      BY <1>5, <2>3 DEF EndUnlimited, Counted
    <3>2. r \in Strays
      BY <2>1, <2>3 DEF Strays, Limited, Copy
    <3>3. cost \in 0..MaxCost
      BY QuotaAssumption
    <3> QED BY <1>1, <1>2, <2>2, <3>1, <3>2, <3>3, CountOn
  <2>4. CASE ~Limited(user)
    <3>1. real' = real
      BY <1>5, <2>4 DEF EndUnlimited, Counted
    <3> QED BY <1>1, <1>2, <2>2, <3>1, CountOn
  <2> QED BY <2>3, <2>4
<1> QED BY <1>3, <1>4, <1>5 DEF RequestStep

\* New limits start a week in which nothing is used, and the count anew.
LEMMA AdminReal ==
    ASSUME IsFiniteSet(Requests), WeeklyDecides, RealInv, TypeOK', NEW a \in Admins, AdminStep(a)
    PROVE  (WeekBacked /\ RealWithin)'
<1> USE DEF RealInv, RealParts
<1>1. /\ UNCHANGED <<used, age, req>>
      /\ UNCHANGED <<user, real>> \/ \E g \in Grants : Restart(g.weekly, g.lifetime)
  BY AdminRow
<1>2. CASE UNCHANGED <<user, real>>
  <2>1. ThisWeek' = ThisWeek /\ Strays' \subseteq Strays
    BY <1>1, <1>2 DEF ThisWeek, Period, Strays, Copy
  <2> QED BY <1>2, <2>1, CountOn
<1>3. ASSUME NEW g \in Grants, Restart(g.weekly, g.lifetime) PROVE (WeekBacked /\ RealWithin)'
  <2>1. ThisWeek' = 0 /\ user'.spent = user.spent
    BY <1>1, <1>3, RestartFresh DEF BoundInv
  <2>2. real' = 0
    BY <1>3 DEF Restart, BeganAnew
  <2> QED BY <2>1, <2>2, CountAnew
<1> QED BY <1>1, <1>2, <1>3

\* RealInv is inductive with one administrator.
LEMMA StepReal ==
    ASSUME IsFiniteSet(Requests), OneAdmin, WeeklyDecides
    PROVE  RealInv /\ [Next]_vars => RealInv'
<1> SUFFICES ASSUME RealInv, [Next]_vars PROVE RealParts'
  BY StepBound DEF RealInv
<1> USE DEF RealInv
<1>1. TypeOK'
  BY StepType DEF BoundInv, CurrentInv
<1>2. ASSUME NEW r \in Requests, RequestStep(r) PROVE RealParts'
  BY <1>1, <1>2, RequestGranted, RequestReal, ChargeReal DEF RealParts
<1>3. ASSUME NEW a \in Admins, AdminStep(a) PROVE RealParts'
  BY <1>1, <1>3, AdminGranted, AdminReal DEF RealParts
<1>4. ASSUME NEW k \in Anchors, PassWeek(k) PROVE RealParts'
  <2>1. UNCHANGED <<user, token, req, adm>>
    BY <1>4 DEF PassWeek
  <2>2. AllGranted'
    BY <2>1 DEF AllGranted, RealParts
  <2>3. CASE user.anchor = k
    <3>1. ThisWeek' = 0 /\ real' = 0
      BY <1>4, <2>3, WeekPasses DEF PassWeek, BeganAnew
    <3> QED BY <1>1, <2>1, <2>2, <3>1, CountAnew DEF RealParts
  <2>4. CASE user.anchor # k
    <3>1. ThisWeek' = ThisWeek /\ real' = real
      BY <1>4, <2>4, WeekPasses DEF PassWeek
    <3>2. Strays' \subseteq Strays
      BY <2>1 DEF Strays, Copy
    <3> QED BY <1>1, <2>1, <2>2, <3>1, <3>2, CountOn DEF RealParts
  <2> QED BY <2>3, <2>4
<1>5. CASE UNCHANGED vars
  <2>1. UNCHANGED <<user, used, age, token, req, adm, real>>
    BY <1>5 DEF vars
  <2>2. AllGranted'
    BY <2>1 DEF AllGranted, RealParts
  <2>3. ThisWeek' = ThisWeek /\ Strays' \subseteq Strays
    BY <2>1 DEF ThisWeek, Period, Strays, Copy
  <2> QED BY <1>1, <2>1, <2>2, <2>3, CountOn DEF RealParts
<1> QED BY <1>2, <1>3, <1>4, <1>5 DEF Next

\* RealInv holds at the start, where no request has ended and none has begun.
LEMMA InitReal == ASSUME IsFiniteSet(Requests), WeeklyDecides PROVE Init => RealInv
<1> SUFFICES ASSUME Init PROVE RealParts
  BY InitBound DEF RealInv
<1>1. TypeOK
  BY InitType
<1>2. PICK g \in Grants :
        /\ user = [weekly |-> g.weekly, lifetime |-> g.lifetime, spent |-> 0, anchor |-> 0]
        /\ token = [b \in Replicas |-> Copy(user)]
        /\ used = [p \in Periods |-> 0]
        /\ req = [r \in Requests |-> Done]
        /\ adm = [a \in Admins |-> Resting]
        /\ real = 0
  BY DEF Init
<1>3. AllGranted
  <2>1. GrantOf(Copy(user))
    BY <1>2 DEF GrantOf, Copy
  <2>2. \A r \in Requests : ~Limited(req[r].tok)
    BY <1>2 DEF Done, NoToken, Limited
  <2>3. \A a \in Admins : adm[a].pc = "idle"
    BY <1>2 DEF Resting
  <2> QED BY <1>2, <2>1, <2>2, <2>3 DEF AllGranted
<1>4. user.weekly \in Nat /\ user.spent \in Nat /\ Period(user.anchor) \in Periods
  BY <1>1, NumbersTyped
<1>5. ThisWeek = 0
  BY <1>2, <1>4 DEF ThisWeek
<1>6. WeekBacked
  BY <1>4, <1>5 DEF WeekBacked, Overage
<1>7. RealWithin
  BY <1>2, <1>5, StrayBounds DEF RealWithin
<1> QED BY <1>3, <1>6, <1>7 DEF RealParts

\* What a user's requests really use, whoever books it, overruns both of his
\* quotas by less than two full sets of requests can cost, from any change of
\* the limits or the week on and for as long as no replica admits a request
\* with other limits than the row's: although enforceUserQuota checks before a
\* request and recordUsage charges after it, without a reservation, and
\* although requests admitted with the limits before are charged to another
\* week or to nobody.
THEOREM OvershootLimit ==
    ASSUME IsFiniteSet(Requests), OneAdmin, WeeklyDecides
    PROVE  Spec => []OvershootBounded
<1>1. RealInv => OvershootBounded
  <2> SUFFICES ASSUME RealInv, Limited(user)
               PROVE  real < user.weekly + user.lifetime + 2 * Slack
    BY DEF OvershootBounded
  <2> USE DEF RealInv, RealParts, BoundInv, CurrentInv
  <2>1. /\ user.weekly \in Nat /\ user.lifetime \in Nat /\ user.spent \in Nat /\ ThisWeek \in Nat
        /\ Due \in Nat /\ Slack \in Nat /\ Stray \in Nat /\ real \in Nat
    BY NumbersTyped, DueBounds, StrayBounds DEF TypeOK
  <2>2. real <= ThisWeek + Slack
    BY <2>1 DEF RealWithin
  <2>3. CASE ThisWeek + Due < user.weekly + Slack
    BY <2>1, <2>2, <2>3
  <2>4. CASE user.lifetime > 0 /\ user.spent + Due < user.lifetime + Slack
    <3>1. user.spent >= Overage(ThisWeek, user.weekly)
      BY <2>4 DEF WeekBacked
    <3>2. ThisWeek <= user.weekly + user.spent
      BY <2>1, <3>1 DEF Overage
    <3> QED BY <2>1, <2>2, <2>4, <3>2
  <2> QED BY <2>3, <2>4 DEF WithinSlack
<1> QED BY <1>1, InitReal, StepReal, PTL DEF Spec
=============================================================================
