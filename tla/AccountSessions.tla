---------------------------- MODULE AccountSessions ----------------------------
(***************************************************************************)
(* The sessions of one account: sign-in, the ways sessions are ended, and  *)
(* the validation every request goes through.                              *)
(*                                                                         *)
(* A session carries the versions of its account, its application and its  *)
(* grant.  It holds authority while all three still match, so whoever ends *)
(* sessions moves a version and never touches the sessions themselves.     *)
(*                                                                         *)
(* A sign-in is one unit of work of several statements and a validation is *)
(* several reads with no unit of work at all; both are modelled statement  *)
(* by statement.  Every other operation reads only rows that it also locks *)
(* or writes, so it takes effect in the one step in which it commits, and  *)
(* only when no sign-in has taken those rows (it is refused at once and    *)
(* run again otherwise).                                                   *)
(*                                                                         *)
(*   "postgres"  a sign-in takes the account's row lock with its first     *)
(*               read; every other read sees what is committed by then.    *)
(*   "mongo"     a sign-in reads from the snapshot of its first read and   *)
(*               takes the account and the grant when it writes them; the  *)
(*               write is refused when the document was written since.     *)
(***************************************************************************)
EXTENDS Integers, Sequences, FiniteSets

CONSTANTS
  Backend,                \* "postgres" or "mongo"
  Client,                 \* the registered browser applications
  AdminClient,            \* the one with a session cap of its own
  MaxSessions,            \* MAX_SESSIONS_PER_USER
  MaxAdminSessions,       \* MAX_ADMIN_SESSIONS_PER_USER
  AbsoluteLifetime,       \* absoluteLifetimeMs of an application's policy
  IdleLifetime,           \* idleLifetimeMs of an application's policy
  UpdateInterval,         \* SESSION_LAST_USED_UPDATE_INTERVAL_MS
  SignInWorker,           \* sign-ins that can be in progress at once
  Validation,             \* validations that can be in progress at once
  MaxClock, MaxIssued, MaxChanges   \* bounds

ASSUME PolicyAssumption ==
  /\ Backend \in {"postgres", "mongo"}
  /\ AdminClient \in Client /\ Client \cap {"account", "application"} = {}
  /\ {MaxSessions, MaxAdminSessions, MaxClock, MaxIssued, MaxChanges} \subseteq Nat
  /\ {AbsoluteLifetime, IdleLifetime, UpdateInterval} \subseteq Nat \ {0}

VARIABLES
  account,      \* [version, deleted]
  application,  \* [Client -> [enabled, version]]
  grant,        \* [Client -> [allowed, version], or NoGrant]
  sessions,     \* the session rows, in the order they were stored
  signIn,       \* the sign-ins in progress
  validation,   \* the validations in progress
  clock,
  changes,      \* versions moved so far: revocations, blocks, disablings
  outdated,     \* sessions whose sign-in judged on facts replaced meanwhile
  late          \* sessions whose idle deadline was moved after it had passed

avars == <<account, application, grant, sessions, signIn, validation, clock,
           changes, outdated, late>>

-----------------------------------------------------------------------------
(* Rows and the rule that decides authority. *)

NoGrant == [allowed |-> FALSE, version |-> -1]
FirstGrant == [allowed |-> TRUE, version |-> 0]
NoSignIn == [step |-> "none"]
NoView == [sessions |-> <<>>]
NoValidation == [step |-> "none"]

Earlier(a, b) == IF a <= b THEN a ELSE b

NewSession(client, versions, now) ==
  [client |-> client, valid |-> TRUE,
   userVersion |-> versions.user, clientVersion |-> versions.client,
   grantVersion |-> versions.grant,
   authenticatedAt |-> now, lastActivityAt |-> now,
   expiresAt     |-> now + AbsoluteLifetime,
   idleExpiresAt |-> Earlier(now + IdleLifetime, now + AbsoluteLifetime)]

AbsoluteDeadline(s) == Earlier(s.expiresAt, s.authenticatedAt + AbsoluteLifetime)
IdleDeadline(s) == Earlier(s.idleExpiresAt, s.lastActivityAt + IdleLifetime)
InsideDeadlines(s, now) == now < AbsoluteDeadline(s) /\ now < IdleDeadline(s)

\* Everything the rule asks of a session but its deadlines.
Stands(s, a, app, g) ==
  /\ s.valid
  /\ ~a.deleted /\ s.userVersion = a.version
  /\ app.enabled /\ s.clientVersion = app.version
  /\ g.allowed /\ s.grantVersion = g.version

StandsNow(i) ==
  Stands(sessions[i], account, application[sessions[i].client], grant[sessions[i].client])

HoldsAuthority(i) == StandsNow(i) /\ InsideDeadlines(sessions[i], clock)

-----------------------------------------------------------------------------
(* Sign-in: SessionIssuanceService.issue. *)

Committed == [account |-> account, application |-> application,
              grant |-> grant, sessions |-> sessions]

\* What a sign-in sees: its snapshot in MongoDB, what is committed in Postgres.
Seen(w) == IF Backend = "mongo" THEN signIn[w].view ELSE Committed

\* Rows a sign-in has taken.  Other writers of them are refused meanwhile.
TakenBy(w) ==
  CASE signIn[w].step = "none" -> {}
    [] signIn[w].step \in {"account", "application"} ->
         IF Backend = "postgres" THEN {"account"} ELSE {}
    [] signIn[w].step = "marked" -> {"account"}
    [] OTHER -> {"account", signIn[w].client}

Taken(row) == \E w \in SignInWorker : row \in TakenBy(w)

\* blockGrant takes the account in Postgres, the grant it writes in MongoDB.
GrantTaken(c) == Taken(IF Backend = "postgres" THEN "account" ELSE c)

\* The facts a sign-in has read so far, by the step it has reached.
HasRead(w, fact) ==
  /\ signIn[w].step # "none"
  /\ \/ Backend = "mongo" \/ fact = "account"
     \/ fact = "application" /\ signIn[w].step # "account"
     \/ signIn[w].step \in {"granted", "counted"}

\* A committed write of the row: a snapshot taken before it may no longer write
\* the row, and a sign-in that read the fact has judged on what is gone.
Overtake(fact, row, clients) ==
  signIn' = [w \in SignInWorker |->
    IF HasRead(w, fact) /\ signIn[w].client \in clients
    THEN [signIn[w] EXCEPT !.overtaken = TRUE, !.rewritten = @ \cup {row}]
    ELSE signIn[w]]

\* readAccountForIssuance: a missing or deleted account is refused.
ReadAccountForIssuance(w, c) ==
  /\ signIn[w] = NoSignIn /\ Len(sessions) < MaxIssued
  /\ Backend = "postgres" => ~Taken("account")
  /\ ~account.deleted
  /\ signIn' = [signIn EXCEPT ![w] =
       [step |-> "account", client |-> c, user |-> account.version,
        view |-> IF Backend = "mongo" THEN Committed ELSE NoView,
        application |-> 0, grant |-> NoGrant, now |-> 0,
        rewritten |-> {}, overtaken |-> FALSE]]
  /\ UNCHANGED <<account, application, grant, sessions, validation, clock,
                 changes, outdated, late>>

\* The sign-in ends and nothing it wrote is stored: a refusal or an abort.
EndSignIn(w) ==
  /\ signIn' = [signIn EXCEPT ![w] = NoSignIn]
  /\ UNCHANGED <<account, application, grant, sessions, validation, clock,
                 changes, outdated, late>>

Reach(w, step) ==
  /\ signIn' = [signIn EXCEPT ![w].step = step]
  /\ UNCHANGED <<account, application, grant, sessions, validation, clock,
                 changes, outdated, late>>

\* requireEnabled.
RequireEnabled(w) ==
  LET app == Seen(w).application[signIn[w].client] IN
  /\ signIn[w].step = "account"
  /\ \/ /\ app.enabled
        /\ signIn' = [signIn EXCEPT ![w].step = "application",
                                    ![w].application = app.version]
        /\ UNCHANGED <<account, application, grant, sessions, validation, clock,
                       changes, outdated, late>>
     \/ ~app.enabled /\ EndSignIn(w)

\* A write is refused when another sign-in holds the row or, in MongoDB, when
\* the row was written after the snapshot.
Refused(w, row) ==
  \/ \E v \in SignInWorker \ {w} : row \in TakenBy(v)
  \/ Backend = "mongo" /\ row \in signIn[w].rewritten

AccountRefused(w) == Refused(w, "account")

\* Fault: the account is not written before the sessions are counted.
MarkNothing(w) == signIn[w].step = "application" /\ Reach(w, "marked")

\* markAccountIssuance.
MarkAccountIssuance(w) ==
  /\ signIn[w].step = "application"
  /\ \/ ~AccountRefused(w) /\ Reach(w, "marked")
     \/ AccountRefused(w) /\ EndSignIn(w)

\* requireOrCreateGrant and markGrantIssuance: a blocked grant is refused.
RequireOrCreateGrant(w) ==
  LET g == Seen(w).grant[signIn[w].client] IN
  /\ signIn[w].step = "marked"
  /\ \/ /\ g = NoGrant \/ g.allowed
        /\ ~Refused(w, signIn[w].client)
        /\ signIn' = [signIn EXCEPT ![w].step = "granted",
                                    ![w].grant = IF g = NoGrant THEN FirstGrant ELSE g]
        /\ UNCHANGED <<account, application, grant, sessions, validation, clock,
                       changes, outdated, late>>
     \/ /\ (g # NoGrant /\ ~g.allowed) \/ Refused(w, signIn[w].client)
        /\ EndSignIn(w)

\* The sessions listSessionCapCandidates returns, kept when they hold authority.
ActiveSessions(facts, version, now) ==
  { i \in DOMAIN facts.sessions :
      LET s == facts.sessions[i] IN
      /\ s.userVersion = version
      /\ Stands(s, facts.account, facts.application[s.client], facts.grant[s.client])
      /\ InsideDeadlines(s, now) }

\* Fault: one session more than the cap is let in.
LimitPassed(active, rows, c) ==
  \/ Cardinality(active) > MaxSessions
  \/ /\ c = AdminClient
     /\ Cardinality({i \in active : rows[i].client = AdminClient}) > MaxAdminSessions

LimitReached(active, rows, c) ==
  \/ Cardinality(active) >= MaxSessions
  \/ /\ c = AdminClient
     /\ Cardinality({i \in active : rows[i].client = AdminClient}) >= MaxAdminSessions

\* assertSessionLimit.
AssertSessionLimit(w) ==
  LET facts == Seen(w)
      full == LimitReached(ActiveSessions(facts, signIn[w].user, clock),
                           facts.sessions, signIn[w].client)
  IN
  /\ signIn[w].step = "granted"
  /\ \/ /\ ~full
        /\ signIn' = [signIn EXCEPT ![w].step = "counted", ![w].now = clock]
        /\ UNCHANGED <<account, application, grant, sessions, validation, clock,
                       changes, outdated, late>>
     \/ full /\ EndSignIn(w)

\* Fault: the versions are read when the session is stored.
VersionsAtInsert(w) ==
  [user |-> account.version, client |-> application[signIn[w].client].version,
   grant |-> signIn[w].grant.version]

\* The versions the stored session carries: the ones read, never read again.
Versions(w) == [user |-> signIn[w].user, client |-> signIn[w].application,
                grant |-> signIn[w].grant.version]

\* insertBrowserSession and the commit of the unit of work.
InsertBrowserSession(w) ==
  LET c == signIn[w].client IN
  /\ signIn[w].step = "counted"
  /\ sessions' = Append(sessions, NewSession(c, Versions(w), signIn[w].now))
  /\ grant' = [grant EXCEPT ![c] = signIn[w].grant]
  /\ outdated' = IF signIn[w].overtaken THEN outdated \cup {Len(sessions) + 1}
                 ELSE outdated
  /\ signIn' = [v \in SignInWorker |->
       IF v = w \/ signIn[v] = NoSignIn THEN NoSignIn
       ELSE [signIn[v] EXCEPT !.rewritten = @ \cup {"account", c}]]
  /\ UNCHANGED <<account, application, validation, clock, changes, late>>

-----------------------------------------------------------------------------
(* Ending sessions: SessionRevoker, ApplicationAccess, account activation. *)

Change == changes < MaxChanges /\ changes' = changes + 1

\* revokeFound: sign-out and the device list end one session by its own row.
RevokeSession(i) ==
  /\ sessions[i].valid
  /\ sessions' = [sessions EXCEPT ![i].valid = FALSE]
  /\ UNCHANGED <<account, application, grant, signIn, validation, clock,
                 changes, outdated, late>>

AdvanceAccount(deleted) ==
  /\ Change /\ ~Taken("account")
  /\ account' = [version |-> account.version + 1, deleted |-> deleted]
  /\ Overtake("account", "account", Client)

\* revokeAllForUser and, with the same writes, revokeAllForUserFrom; a role
\* change or a deleted role advances the version of each holder the same way.
RevokeAllForUser ==
  /\ AdvanceAccount(account.deleted)
  /\ UNCHANGED <<application, grant, sessions, validation, clock, outdated, late>>

\* deactivateAccount, updateUserStatus(isActive: false) and deleteUser.
Deactivate ==
  /\ ~account.deleted
  /\ AdvanceAccount(TRUE)
  /\ UNCHANGED <<application, grant, sessions, validation, clock, outdated, late>>

\* updateUserStatus(isActive: true): no version moves.
Reactivate ==
  /\ ~Taken("account")
  /\ account' = [account EXCEPT !.deleted = FALSE]
  /\ Overtake("account", "account", Client)
  /\ UNCHANGED <<application, grant, sessions, validation, clock, changes,
                 outdated, late>>

\* promoteSurvivor.
Promoted(i) == [sessions EXCEPT ![i].userVersion = account.version + 1]

\* Fault: a kept session of an older version is moved along as well.
RevokeOthersOfAnyVersion(i) ==
  /\ sessions[i].valid
  /\ AdvanceAccount(account.deleted)
  /\ sessions' = Promoted(i)
  /\ UNCHANGED <<application, grant, validation, clock, outdated, late>>

\* revokeAllOthersExceptSession: refused unless the kept session is live and of
\* the account's version; account and kept session move together.
RevokeOthers(i) ==
  /\ sessions[i].valid /\ sessions[i].userVersion = account.version
  /\ AdvanceAccount(account.deleted)
  /\ sessions' = Promoted(i)
  /\ UNCHANGED <<application, grant, validation, clock, outdated, late>>

BlockedGrant(g) ==
  [allowed |-> FALSE, version |-> IF g = NoGrant THEN 1 ELSE g.version + 1]

\* blockGrant, on the grant or on a new one.
BlockGrant(c) ==
  /\ Change /\ ~GrantTaken(c)
  /\ grant' = [grant EXCEPT ![c] = BlockedGrant(grant[c])]
  /\ Overtake("grant", c, {c})
  /\ UNCHANGED <<account, application, sessions, validation, clock, outdated, late>>

\* Fault: switching off leaves the version in place.
DisabledSameVersion(app) == [enabled |-> FALSE, version |-> app.version]

Disabled(app) == [enabled |-> FALSE, version |-> app.version + 1]

\* disableApplication and enableApplication take no account and no grant.
DisableApplication(c) ==
  /\ Change
  /\ application' = [application EXCEPT ![c] = Disabled(application[c])]
  /\ Overtake("application", "application", {c})
  /\ UNCHANGED <<account, grant, sessions, validation, clock, outdated, late>>

EnableApplication(c) ==
  /\ application' = [application EXCEPT ![c].enabled = TRUE]
  /\ UNCHANGED <<account, grant, sessions, signIn, validation, clock, changes,
                 outdated, late>>

-----------------------------------------------------------------------------
(* Validation: SessionValidator.authorize, one committed read at a time. *)

Check(v, record) ==
  /\ validation' = [validation EXCEPT ![v] = record]
  /\ UNCHANGED <<account, application, grant, signIn, clock, changes, outdated>>

\* readCommittedSession.  held records whether the session has authority at the
\* moment the validation starts.
ReadSession(v, i) ==
  /\ validation[v] = NoValidation
  /\ sessions[i].valid
  /\ Check(v, [step |-> "session", id |-> i, session |-> sessions[i],
               held |-> HoldsAuthority(i), now |-> 0])
  /\ UNCHANGED <<sessions, late>>

AccountPasses(v) ==
  ~account.deleted /\ validation[v].session.userVersion = account.version

\* Fault: the session's application version is not compared.
ApplicationEnabled(v) == application[validation[v].session.client].enabled

ApplicationPasses(v) ==
  LET app == application[validation[v].session.client]
  IN app.enabled /\ validation[v].session.clientVersion = app.version

GrantPasses(v) ==
  LET g == grant[validation[v].session.client]
  IN /\ g.allowed /\ validation[v].session.grantVersion = g.version
     /\ InsideDeadlines(validation[v].session, clock)

\* One read and the early return behind it.
Read(v, from, to, passes) ==
  /\ validation[v].step = from
  /\ Check(v, IF passes THEN [validation[v] EXCEPT !.step = to, !.now = clock]
              ELSE NoValidation)
  /\ UNCHANGED <<sessions, late>>

ReadAccount(v) == Read(v, "session", "account", AccountPasses(v))
ReadApplication(v) == Read(v, "account", "application", ApplicationPasses(v))
ReadGrant(v) == Read(v, "application", "authorised", GrantPasses(v))

\* The answer, with no extension: the caller asked for none or none is due.
Answer(v) ==
  /\ validation[v].step = "authorised"
  /\ Check(v, NoValidation)
  /\ UNCHANGED <<sessions, late>>

ExtensionDue(s, now) ==
  \/ now - s.lastActivityAt > UpdateInterval
  \/ IdleDeadline(s) - now <= UpdateInterval

\* The guard of the store's write, with the time the validation decided at.
Extensible(s, now) == s.valid /\ s.idleExpiresAt > now /\ s.expiresAt > now

\* Fault: an extension ignores the absolute deadline.
ExtendedFreely(s, now) == now + IdleLifetime

ExtendedIdle(s, now) == Earlier(now + IdleLifetime, AbsoluteDeadline(s))

\* maybeExtendIdle: the write may land long after the decision.
ExtendIdle(v) ==
  LET now == validation[v].now
      i == validation[v].id
      read == validation[v].session
  IN
  /\ validation[v].step = "authorised" /\ ExtensionDue(read, now)
  /\ IF Extensible(sessions[i], now)
     THEN /\ sessions' = [sessions EXCEPT
                 ![i].lastActivityAt = now,
                 ![i].idleExpiresAt = ExtendedIdle(read, now)]
          /\ late' = IF InsideDeadlines(sessions[i], clock) THEN late ELSE late \cup {i}
     ELSE UNCHANGED <<sessions, late>>
  /\ Check(v, NoValidation)

-----------------------------------------------------------------------------
Tick ==
  /\ clock < MaxClock /\ clock' = clock + 1
  /\ UNCHANGED <<account, application, grant, sessions, signIn, validation,
                 changes, outdated, late>>

\* The bounds are used up and nothing is in progress.
Rest ==
  /\ clock = MaxClock /\ changes = MaxChanges
  /\ \A w \in SignInWorker : signIn[w] = NoSignIn
  /\ \A v \in Validation : validation[v] = NoValidation
  /\ UNCHANGED avars

AInit ==
  /\ account = [version |-> 0, deleted |-> FALSE]
  /\ application = [c \in Client |-> [enabled |-> TRUE, version |-> 0]]
  /\ grant = [c \in Client |-> NoGrant]
  /\ sessions = <<>>
  /\ signIn = [w \in SignInWorker |-> NoSignIn]
  /\ validation = [v \in Validation |-> NoValidation]
  /\ clock = 0 /\ changes = 0 /\ outdated = {} /\ late = {}

SignIn(w) ==
  \/ \E c \in Client : ReadAccountForIssuance(w, c)
  \/ RequireEnabled(w)
  \/ MarkAccountIssuance(w)
  \/ RequireOrCreateGrant(w)
  \/ AssertSessionLimit(w)
  \/ InsertBrowserSession(w)

EndSessions ==
  \/ \E i \in DOMAIN sessions : RevokeSession(i) \/ RevokeOthers(i)
  \/ RevokeAllForUser \/ Deactivate \/ Reactivate
  \/ \E c \in Client : BlockGrant(c) \/ DisableApplication(c) \/ EnableApplication(c)

Validate(v) ==
  \/ \E i \in DOMAIN sessions : ReadSession(v, i)
  \/ ReadAccount(v) \/ ReadApplication(v) \/ ReadGrant(v)
  \/ Answer(v) \/ ExtendIdle(v)

ANext ==
  \/ \E w \in SignInWorker : SignIn(w)
  \/ EndSessions
  \/ \E v \in Validation : Validate(v)
  \/ Tick
  \/ Rest

ASpec == AInit /\ [][ANext]_avars

-----------------------------------------------------------------------------
(* Properties. *)

SessionRow ==
  [client : Client, valid : BOOLEAN,
   userVersion : Nat, clientVersion : Nat, grantVersion : Nat,
   authenticatedAt : Nat, lastActivityAt : Nat, expiresAt : Nat, idleExpiresAt : Nat]

\* Every row has its columns' types; a session never outlives its absolute
\* deadline through its idle one, whatever extensions it received.
ATypeOK ==
  /\ account \in [version : Nat, deleted : BOOLEAN]
  /\ application \in [Client -> [enabled : BOOLEAN, version : Nat]]
  /\ \A c \in Client : grant[c] = NoGrant \/ grant[c] \in [allowed : BOOLEAN, version : Nat]
  /\ \A i \in DOMAIN sessions :
       sessions[i] \in SessionRow /\ sessions[i].idleExpiresAt <= sessions[i].expiresAt
  /\ outdated \cup late \subseteq DOMAIN sessions

Holding(clients) ==
  {i \in DOMAIN sessions \ late : HoldsAuthority(i) /\ sessions[i].client \in clients}

\* However sign-ins, extensions and revocations interleave, the account never
\* has more sessions with authority than the caps of assertSessionLimit.  A
\* session whose idle deadline was moved after it had passed is not counted:
\* see late.
SessionCap ==
  /\ Cardinality(Holding(Client)) <= MaxSessions
  /\ Cardinality(Holding({AdminClient})) <= MaxAdminSessions

\* A sign-in that judged on an account, application or grant which was changed
\* before its session was stored leaves a session without authority, also when
\* the application is enabled or the account activated again.
OutdatedHoldsNothing == \A i \in outdated : ~StandsNow(i)

\* A validation that says yes names a session that had authority when the
\* validation started: one that starts after a revocation was stored never says
\* yes, although it reads each fact at another moment.
AuthorisedHeldAuthority ==
  \A v \in Validation : validation[v].step = "authorised" => validation[v].held

\* A session that was ended never stands again: whatever ends one clears its
\* row or moves a version, and no version ever comes back.
EndedStaysEnded ==
  [][\A i \in DOMAIN sessions : ~StandsNow(i) => ~StandsNow(i)']_avars

\* A validation refuses only a session that has no authority.
RefusesOnlyTheEnded ==
  [][\A v \in Validation :
       (validation[v].step \in {"session", "account", "application"}
          /\ validation'[v] = NoValidation)
       => ~HoldsAuthority(validation[v].id)]_avars
=============================================================================
