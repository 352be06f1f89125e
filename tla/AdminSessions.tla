--------------------------- MODULE AdminSessions ---------------------------
(***************************************************************************)
(* The users and their sessions of the admin page, with Redis configured.  *)
(*                                                                         *)
(* A session is kept in Redis under its token, with a copy of the user's   *)
(* role and status, the instant it was issued and a time to live.  Each    *)
(* request looks it up, renews it when little of its life is left, and     *)
(* acts by the copy.  Revoking a user's sessions deletes those that the    *)
(* user's index names and leaves a marker: a session issued at or before   *)
(* the marker is refused.  Handlers run concurrently on any replica; each  *)
(* command to Redis and each query is a step of its own.                   *)
(*                                                                         *)
(* Abstractions.  Instants at which sessions are issued or revoked are     *)
(* numbers in their order ("clock"): the replicas' clocks agree.  Lives    *)
(* are counted in days, which stand for any piece of time: what is set to  *)
(* live equally long in the same day ends together, and a day may end      *)
(* between any two steps of a handler, so that what it sets outlives what  *)
(* was set while it ran.  Passwords, and the API keys that a reload        *)
(* installs (see QuotaLedger), are left out.                               *)
(***************************************************************************)
EXTENDS Integers, FiniteSets

CONSTANTS
    Users,       \* the rows users may have
    Tokens,      \* session tokens
    Handlers,    \* handlers that can be in progress at once
    Seeds,       \* sets of users that may exist, as administrators, at first
    Wants,       \* the roles and statuses an administrator may give
    TTL,         \* adminSessionTTL, in days
    RenewBefore, \* adminSessionRenewBefore
    MaxClock,    \* bound: how many instants are taken
    MaxDay,      \* bound: days
    None

VARIABLES
    users,     \* the users table: role and status
    sessions,  \* Redis: the session of each token
    index,     \* Redis: the tokens indexed under each user
    marker,    \* Redis: the revocation marker of each user
    clock,     \* the latest instant
    day,
    hd,        \* the handlers
    born,      \* history: the instant the login behind each token was issued
    revoked,   \* history: the instant of the latest revocation of each user
    crossed,   \* history: a marker has been replaced by an older one
    straddled  \* history: a request was in progress when a day ended, and took a
               \* session, revoked meanwhile, past its marker (see CheckMarker, Renew)

redis   == <<sessions, index, marker>>
time    == <<clock, day>>
history == <<born, revoked, crossed, straddled>>
vars    == <<users, redis, time, hd, history>>

Row     == [role : {"admin", "user"}, valid : BOOLEAN]
Root    == [role |-> "admin", valid |-> TRUE]
Instant == 0..MaxClock
Life    == 0..(MaxDay + TTL)
Session == [user : Users, row : Row, issued : Instant, until : Life]
Marker  == [at : Instant, until : Life]

ASSUME SessionsAssumption ==
    /\ IsFiniteSet(Users)
    /\ Seeds \subseteq SUBSET Users
    /\ Wants \subseteq Row
    /\ TTL \in Nat \ {0}
    /\ RenewBefore \in 0..(TTL - 1)
    /\ MaxClock \in Nat /\ MaxDay \in Nat
    /\ None \notin Users \union Tokens
    /\ None \notin Row /\ None \notin Session /\ None \notin Marker

PCs == {"idle", "setup", "issue", "store", "marker", "renew", "acting",
        "update", "members", "stamp", "wipe"}

\* A handler: its token, the session it works with or is about to write, the
\* user it works on with the row it has read and the row it writes, the tokens
\* to delete, the instant of its revocation; and, as history, the revocation of
\* its user that came before it began, and whether a day has ended since it last
\* read Redis.
Idle == [pc |-> "idle", token |-> None, session |-> None, target |-> None, seen |-> None,
         want |-> None, members |-> {}, at |-> 0, after |-> 0, late |-> FALSE]
Handler == [pc : PCs, token : Tokens \union {None}, session : Session \union {None},
            target : Users \union {None}, seen : Row \union {None}, want : Row \union {None},
            members : SUBSET Tokens, at : Instant, after : Instant, late : BOOLEAN]

Go(h, pc) == hd' = [hd EXCEPT ![h].pc = pc]
End(h)    == hd' = [hd EXCEPT ![h] = Idle]

\* An instant later than any taken before.
Now == clock < MaxClock /\ clock' = clock + 1

\* SetAdminSession: one transaction of Redis; a session whose time is over is
\* deleted.
SetSession(t, s) ==
    \/ /\ s.until >= day
       /\ sessions' = [sessions EXCEPT ![t] = s]
       /\ index' = [index EXCEPT ![s.user] = @ \union {t}]
    \/ /\ s.until < day
       /\ sessions' = [sessions EXCEPT ![t] = None]
       /\ index' = index

-----------------------------------------------------------------------------
(* Setup and login                                                         *)

\* handleSetup and CreateInitialAdmin look whether there is any user ...
SetupRequired(h) ==
    /\ hd[h].pc = "idle"
    /\ \A u \in Users : users[u] = None
    /\ Go(h, "setup")
    /\ UNCHANGED <<users, redis, time, history>>

\* What createSession starts from: the user's row as it was read.
Issuing(u, row) ==
    [Idle EXCEPT !.pc = "issue", !.session = [user |-> u, row |-> row, issued |-> 0, until |-> 0]]

\* ... and insert the administrator, whoever else has done so meanwhile.
CreateInitialAdmin(h, u) ==
    /\ hd[h].pc = "setup"
    /\ users[u] = None
    /\ users' = [users EXCEPT ![u] = Root]
    /\ hd' = [hd EXCEPT ![h] = Issuing(u, Root)]
    /\ UNCHANGED <<redis, time, history>>

\* VerifyPassword reads the row; disabled users are turned away.
VerifyPassword(h, u) ==
    /\ hd[h].pc = "idle"
    /\ users[u] # None /\ users[u].valid
    /\ hd' = [hd EXCEPT ![h] = Issuing(u, users[u])]
    /\ UNCHANGED <<users, redis, time, history>>

\* createSession takes the time, and then stores the session under a token
\* that nobody knows.
Issue(h) ==
    /\ hd[h].pc = "issue"
    /\ Now
    /\ hd' = [hd EXCEPT ![h].pc = "store", ![h].session.issued = clock',
                        ![h].session.until = day + TTL]
    /\ UNCHANGED <<users, redis, day, history>>

Fresh(t) ==
    /\ sessions[t] = None
    /\ \A u \in Users : t \notin index[u]
    /\ \A h \in Handlers : t # hd[h].token /\ t \notin hd[h].members

StoreSession(h, t) ==
    /\ hd[h].pc = "store"
    /\ Fresh(t)
    /\ SetSession(t, hd[h].session)
    /\ born' = [born EXCEPT ![t] = hd[h].session.issued]
    /\ End(h)
    /\ UNCHANGED <<users, marker, time, revoked, crossed, straddled>>

-----------------------------------------------------------------------------
(* authenticateAdmin                                                       *)

\* RuntimeCache.AdminSession reads the session and then the user's marker.
GetSession(h, t) ==
    /\ hd[h].pc = "idle"
    /\ sessions[t] # None
    /\ hd' = [hd EXCEPT ![h] = [Idle EXCEPT !.pc = "marker", !.token = t, !.session = sessions[t],
                                            !.after = revoked[sessions[t].user]]]
    /\ UNCHANGED <<users, redis, time, history>>

Mine(h)    == marker[hd[h].session.user]
Refused(h) == Mine(h) # None /\ hd[h].session.issued <= Mine(h).at

RefuseRevoked(h) ==
    /\ hd[h].pc = "marker"
    /\ Refused(h)
    /\ sessions' = [sessions EXCEPT ![hd[h].token] = None]
    /\ End(h)
    /\ UNCHANGED <<users, index, marker, time, history>>

\* The session counts as revoked, whatever Redis still holds.
Revoked(s) == s.issued <= revoked[s.user]

\* What passes here though it is revoked has run out, and its marker with it,
\* after the session was read.
CheckMarker(h) ==
    LET s == hd[h].session IN
    /\ hd[h].pc = "marker"
    /\ ~Refused(h)
    /\ hd' = [hd EXCEPT ![h].pc = IF s.until - day > RenewBefore THEN "acting" ELSE "renew",
                        ![h].late = FALSE]
    /\ straddled' = (straddled \/ (Revoked(s) /\ s.until < day))
    /\ UNCHANGED <<users, redis, time, born, revoked, crossed>>

\* Mutant of Renewed: the session counts as issued again.
RenewedAfresh(s) == [s EXCEPT !.until = day + TTL, !.issued = clock + 1]

\* A renewal prolongs the session, which stays as old as it is.
Renewed(s) == [s EXCEPT !.until = day + TTL]

\* renewAdminSessionIfNeeded writes it back, whatever has become of the token.
\* One that was revoked since the check outlives its marker if a day has ended
\* since as well.
Renew(h) ==
    LET s == Renewed(hd[h].session) IN
    /\ hd[h].pc = "renew"
    /\ SetSession(hd[h].token, s)
    /\ hd' = [hd EXCEPT ![h].pc = "acting", ![h].session = s]
    /\ straddled' = (straddled \/ (Revoked(s) /\ hd[h].late))
    /\ UNCHANGED <<users, marker, time, born, revoked, crossed>>

RenewFails(h) ==
    /\ hd[h].pc = "renew"
    /\ Go(h, "acting")
    /\ UNCHANGED <<users, redis, time, history>>

-----------------------------------------------------------------------------
(* What an authenticated handler does                                      *)

Administers(h) == hd[h].pc = "acting" /\ hd[h].session.row.role = "admin"

Logout(h) ==
    /\ hd[h].pc = "acting"
    /\ sessions' = [sessions EXCEPT ![hd[h].token] = None]
    /\ End(h)
    /\ UNCHANGED <<users, index, marker, time, history>>

\* CreateAppUser for handleUsers.
CreateUser(h, u, role) ==
    /\ Administers(h)
    /\ users[u] = None
    /\ users' = [users EXCEPT ![u] = [role |-> role, valid |-> TRUE]]
    /\ End(h)
    /\ UNCHANGED <<redis, time, history>>

\* handleUserAdmin reads the row and lays the request over it: what the
\* request leaves out keeps the value that was read.
EditUser(h, u, want) ==
    /\ Administers(h)
    /\ users[u] # None
    /\ hd' = [hd EXCEPT ![h] = [Idle EXCEPT !.pc = "update", !.session = hd[h].session, !.target = u,
                                            !.seen = users[u], !.want = want]]
    /\ UNCHANGED <<users, redis, time, history>>

ActiveAdmins == {u \in Users : users[u] = Root}

\* Mutant of Allowed: disabled administrators are counted as well.
AllowedByRole(actor, u, row) ==
    /\ actor = u => row = users[u]
    /\ users[u] = Root /\ row # Root =>
         Cardinality({v \in Users : users[v] # None /\ users[v].role = "admin"}) > 1

\* UpdateAppUser, under a lock of the table: nobody changes himself, and the
\* last active administrator stays.
Allowed(actor, u, row) ==
    /\ actor = u => row = users[u]
    /\ users[u] = Root /\ row # Root => Cardinality(ActiveAdmins) > 1

\* What RevokeAdminSessions starts from: the user, and the row he was given, if
\* that is why.
Revoking(u, want) == [Idle EXCEPT !.pc = "members", !.target = u, !.want = want]

\* The row changes.  If it is not what the handler had read, the runtime is
\* reloaded and, if that does not fail (Leave), the user's sessions are revoked.
UpdateAppUser(h) ==
    /\ hd[h].pc = "update"
    /\ Allowed(hd[h].session.user, hd[h].target, hd[h].want)
    /\ users' = [users EXCEPT ![hd[h].target] = hd[h].want]
    /\ IF hd[h].want = hd[h].seen
       THEN End(h)
       ELSE hd' = [hd EXCEPT ![h] = Revoking(hd[h].target, hd[h].want)]
    /\ UNCHANGED <<redis, time, history>>

UpdateRefused(h) ==
    /\ hd[h].pc = "update"
    /\ ~Allowed(hd[h].session.user, hd[h].target, hd[h].want)
    /\ End(h)
    /\ UNCHANGED <<users, redis, time, history>>

\* handleRevokeUserSessionsAdmin
RevokeSessions(h, u) ==
    /\ Administers(h)
    /\ users[u] # None /\ u # hd[h].session.user
    /\ hd' = [hd EXCEPT ![h] = Revoking(u, None)]
    /\ UNCHANGED <<users, redis, time, history>>

\* RevokeAdminSessions reads the user's index, takes the time, and then
\* deletes the sessions and the index and sets the marker in one transaction.
ReadMembers(h) ==
    /\ hd[h].pc = "members"
    /\ hd' = [hd EXCEPT ![h].pc = "stamp", ![h].members = index[hd[h].target]]
    /\ UNCHANGED <<users, redis, time, history>>

Stamp(h) ==
    /\ hd[h].pc = "stamp"
    /\ Now
    /\ hd' = [hd EXCEPT ![h].pc = "wipe", ![h].at = clock']
    /\ UNCHANGED <<users, redis, day, history>>

Wipe(h) ==
    LET u == hd[h].target
        at == hd[h].at
    IN  /\ hd[h].pc = "wipe"
        /\ sessions' = [t \in Tokens |-> IF t \in hd[h].members THEN None ELSE sessions[t]]
        /\ index' = [index EXCEPT ![u] = {}]
        /\ marker' = [marker EXCEPT ![u] = [at |-> at, until |-> day + TTL]]
        /\ revoked' = [revoked EXCEPT ![u] = IF at > @ THEN at ELSE @]
        /\ crossed' = (crossed \/ revoked[u] > at)
        /\ End(h)
        /\ UNCHANGED <<users, time, born, straddled>>

\* The handler ends here: it changes nothing, or a query or a command to Redis
\* fails and it answers 401 or 500.
Leave(h) ==
    /\ hd[h].pc # "idle"
    /\ End(h)
    /\ UNCHANGED <<users, redis, time, history>>

-----------------------------------------------------------------------------
Live(x, today) == IF x # None /\ today > x.until THEN None ELSE x

\* What the end of a day is to a handler that has read Redis and goes by it.
Overtaken(q) == [q EXCEPT !.late = @ \/ q.pc \in {"marker", "renew"}]

\* Mutant of NextDay: a marker lives a day less than a session.
NextDayShort ==
    /\ day < MaxDay
    /\ day' = day + 1
    /\ sessions' = [t \in Tokens |-> Live(sessions[t], day')]
    /\ marker' = [u \in Users |-> Live(marker[u], day' + 1)]
    /\ hd' = [h \in Handlers |-> Overtaken(hd[h])]
    /\ UNCHANGED <<users, index, clock, history>>

\* A day passes, and what has outlived its time is gone.  (The index of a user
\* outlives the sessions it names.)
NextDay ==
    /\ day < MaxDay
    /\ day' = day + 1
    /\ sessions' = [t \in Tokens |-> Live(sessions[t], day')]
    /\ marker' = [u \in Users |-> Live(marker[u], day')]
    /\ hd' = [h \in Handlers |-> Overtaken(hd[h])]
    /\ UNCHANGED <<users, index, clock, history>>

Init ==
    /\ \E seed \in Seeds : users = [u \in Users |-> IF u \in seed THEN Root ELSE None]
    /\ sessions = [t \in Tokens |-> None]
    /\ index = [u \in Users |-> {}]
    /\ marker = [u \in Users |-> None]
    /\ clock = 0
    /\ day = 0
    /\ hd = [h \in Handlers |-> Idle]
    /\ born = [t \in Tokens |-> 0]
    /\ revoked = [u \in Users |-> 0]
    /\ crossed = FALSE
    /\ straddled = FALSE

Step(h) ==
    \/ SetupRequired(h)
    \/ \E u \in Users : CreateInitialAdmin(h, u) \/ VerifyPassword(h, u)
    \/ Issue(h)
    \/ \E t \in Tokens : StoreSession(h, t) \/ GetSession(h, t)
    \/ RefuseRevoked(h) \/ CheckMarker(h) \/ Renew(h) \/ RenewFails(h)
    \/ Logout(h)
    \/ \E u \in Users, role \in {"admin", "user"} : CreateUser(h, u, role)
    \/ \E u \in Users, want \in Wants : EditUser(h, u, want)
    \/ UpdateAppUser(h) \/ UpdateRefused(h)
    \/ \E u \in Users : RevokeSessions(h, u)
    \/ ReadMembers(h) \/ Stamp(h) \/ Wipe(h)
    \/ Leave(h)

Next == NextDay \/ \E h \in Handlers : Step(h)

Spec == Init /\ [][Next]_vars

-----------------------------------------------------------------------------
(* Properties                                                              *)

\* Every variable has its type: users, sessions with their indexes, markers,
\* and what a handler holds at each of its steps (handleUserAdmin,
\* RuntimeCache).
TypeOK ==
    /\ users \in [Users -> Row \union {None}]
    /\ sessions \in [Tokens -> Session \union {None}]
    /\ index \in [Users -> SUBSET Tokens]
    /\ marker \in [Users -> Marker \union {None}]
    /\ clock \in Instant
    /\ day \in 0..MaxDay
    /\ hd \in [Handlers -> Handler]
    /\ born \in [Tokens -> Instant]
    /\ revoked \in [Users -> Instant]
    /\ crossed \in BOOLEAN
    /\ straddled \in BOOLEAN

\* A session stays out once it is revoked: a request that begins after the
\* sessions of a user were revoked is not authenticated by one of them, though a
\* renewal, or a login that was under way, has written it back since, and though
\* marker and session run out.  Two orders are excepted, because the code lets a
\* revoked session in after them:
\*   - revocations of one user overlap, and the marker of the earlier one is
\*     written last (crossed);
\*   - a request is caught by the end of a day between two of its commands.  A
\*     renewal that has passed the check before the revocation, and takes its
\*     time of expiry after the marker was set, lives longer than the marker: in
\*     between it passes, and is renewed for a whole life.  Likewise one whose
\*     session and marker run out after it has read the one and before it reads
\*     the other (straddled).
RevokedStaysOut ==
    ~crossed /\ ~straddled =>
        \A h \in Handlers :
            hd[h].pc \in {"renew", "acting"} => born[hd[h].token] > hd[h].after

\* Whoever administers whom at the same time, with sessions however old, the
\* system is never left without an active administrator once it has one.
AdminRemains == (\A u \in Users : users[u] = None) \/ ActiveAdmins # {}

\* When the change of a user's role or status is answered with success, no
\* session is left that would be accepted and still has the old ones.
Confirms(h) ==
    /\ hd[h].want # None
    /\ \/ UpdateAppUser(h) /\ hd'[h] = Idle
       \/ Wipe(h) /\ users[hd[h].target] = hd[h].want

ConfirmedChangeHolds ==
    [][\A h \in Handlers : Confirms(h) =>
        \A t \in Tokens :
            LET s == sessions'[t]
                m == marker'[hd[h].target]
            IN  (s # None /\ s.user = hd[h].target /\ (m = None \/ s.issued > m.at))
                    => s.row = hd[h].want]_vars
=============================================================================
