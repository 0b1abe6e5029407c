----------------------- MODULE AccountSessionsProofs ------------------------
(***************************************************************************)
(* For any number of applications, sign-ins and validations at once, any   *)
(* lifetimes and any caps:                                                 *)
(*                                                                         *)
(*   - what ended stays so, a sign-in that was overtaken leaves nothing,   *)
(*     and a validation's yes is about a session that had authority when   *)
(*     it started, on both databases;                                      *)
(*   - on PostgreSQL the caps hold.                                        *)
(*                                                                         *)
(* All rest on versions.  No row is ahead of a fact, a row level with a    *)
(* fact was stored or moved while that fact was favourable, and every step *)
(* moves the facts on (FactsMoveOn).  A row that is behind stays behind.   *)
(***************************************************************************)
EXTENDS AccountSessions, FiniteSetTheorems, SequenceTheorems, TLAPS

AccountRow == [version : Nat, deleted : BOOLEAN]
ApplicationRow == [enabled : BOOLEAN, version : Nat]
GrantRow == [allowed : BOOLEAN, version : Nat] \cup {NoGrant}
Facts == [account : AccountRow, application : [Client -> ApplicationRow],
          grant : [Client -> GrantRow], sessions : Seq(SessionRow)]

SignInRow ==
  [step : {"account", "application", "marked", "granted", "counted"},
   client : Client, user : Nat,
   view : IF Backend = "mongo" THEN Facts ELSE {NoView},
   application : Nat, grant : GrantRow, now : Nat,
   rewritten : SUBSET (Client \cup {"account", "application"}), overtaken : BOOLEAN]

ValidationRow ==
  [step : {"session", "account", "application", "authorised"}, id : Nat \ {0},
   session : SessionRow, held : BOOLEAN, now : Nat]

Typed ==
  /\ account \in AccountRow
  /\ application \in [Client -> ApplicationRow]
  /\ grant \in [Client -> GrantRow]
  /\ sessions \in Seq(SessionRow)
  /\ \A i \in DOMAIN sessions : sessions[i].idleExpiresAt <= sessions[i].expiresAt
  /\ signIn \in [SignInWorker -> SignInRow \cup {NoSignIn}]
  /\ validation \in [Validation -> ValidationRow \cup {NoValidation}]
  /\ clock \in Nat /\ changes \in Nat
  /\ outdated \subseteq DOMAIN sessions /\ late \subseteq DOMAIN sessions

(* A version is not ahead of a fact, and level with it only if the fact is *)
(* favourable.                                                             *)
AccountPast(a, version) ==
  version <= a.version /\ (version = a.version => ~a.deleted)
ApplicationPast(app, version) ==
  version <= app.version /\ (version = app.version => app.enabled)
GrantPast(g, version) ==
  g # NoGrant /\ version <= g.version /\ (version = g.version => g.allowed)

Past(s) == /\ AccountPast(account, s.userVersion)
           /\ ApplicationPast(application[s.client], s.clientVersion)
           /\ GrantPast(grant[s.client], s.grantVersion)

RowsArePast == \A i \in DOMAIN sessions : Past(sessions[i])

(* Sign-ins.  Whoever has taken the account has it alone.                  *)
Exclusive ==
  \A v, w \in SignInWorker :
    ("account" \in TakenBy(v) /\ "account" \in TakenBy(w)) => v = w

Active(w) == signIn[w] # NoSignIn
HasGrant(w) == Active(w) /\ signIn[w].step \in {"granted", "counted"}
HasMark(w) == HasGrant(w) \/ (Active(w) /\ signIn[w].step = "marked")

(* What a sign-in has read is past, and the grant it will store is the     *)
(* grant there is, or the first one.                                       *)
ReadPast(w) == LET x == signIn[w] IN
  /\ Active(w) => AccountPast(account, x.user)
  /\ Active(w) /\ x.step # "account" => ApplicationPast(application[x.client], x.application)
  /\ HasGrant(w) => \/ grant[x.client] = NoGrant /\ x.grant = FirstGrant
                    \/ grant[x.client] = x.grant /\ x.grant # NoGrant /\ x.grant.allowed

(* A snapshot is not ahead of what is committed; where the grant was not   *)
(* rewritten it still is the grant.                                        *)
ViewPast(w) == LET x == signIn[w] IN
  (Backend = "mongo" /\ Active(w)) =>
    /\ x.view.application[x.client].enabled
         => ApplicationPast(application[x.client], x.view.application[x.client].version)
    /\ x.view.application[x.client].version <= application[x.client].version
    /\ x.step # "account" => x.application = x.view.application[x.client].version
    /\ x.client \notin x.rewritten => x.view.grant[x.client] = grant[x.client]

(* The rows a sign-in has taken were not rewritten.                        *)
TakenKept(w) == LET x == signIn[w] IN
  /\ HasMark(w) => "account" \notin x.rewritten
  /\ HasGrant(w) => x.client \notin x.rewritten
  /\ (Backend = "postgres" /\ Active(w)) =>
       x.rewritten \cap {"account", x.client} = {} /\ x.user = account.version

(* A sign-in that was overtaken will be refused, or its application's      *)
(* version has moved.                                                      *)
ApplicationMoved(w) == LET x == signIn[w] IN
  \/ x.step # "account" /\ x.application < application[x.client].version
  \/ /\ Backend = "mongo"
     /\ x.view.application[x.client].version < application[x.client].version

OvertakenBehind(w) == LET x == signIn[w] IN
  (Active(w) /\ x.overtaken) =>
    "account" \in x.rewritten \/ x.client \in x.rewritten \/ ApplicationMoved(w)

ReadsArePast == \A w \in SignInWorker : ReadPast(w)
ViewsArePast == \A w \in SignInWorker : ViewPast(w)
TakenNotRewritten == \A w \in SignInWorker : TakenKept(w)
OvertakenIsBehind == \A w \in SignInWorker : OvertakenBehind(w)

OutdatedIsBehind ==
  \A i \in outdated :
    sessions[i].clientVersion < application[sessions[i].client].version

(* Validations.  A session without authority at the start of a validation  *)
(* fails one of the checks that are still to come.                         *)
AccountBehind(s) == s.userVersion < account.version
ApplicationBehind(s) == s.clientVersion < application[s.client].version
GrantBehind(s) ==
  \/ s.grantVersion < grant[s.client].version
  \/ ~InsideDeadlines(s, clock)

WillFail(v) ==
  LET s == validation[v].session IN
  \/ validation[v].step = "session" /\ AccountBehind(s)
  \/ validation[v].step \in {"session", "account"} /\ ApplicationBehind(s)
  \/ validation[v].step # "authorised" /\ GrantBehind(s)

ValidationsSound ==
  \A v \in Validation : validation[v] # NoValidation =>
    /\ validation[v].id \in DOMAIN sessions
    /\ validation[v].session.expiresAt = sessions[validation[v].id].expiresAt
    /\ Past(validation[v].session)
    /\ validation[v].held \/ WillFail(v)

IInv ==
  /\ Typed /\ RowsArePast
  /\ Exclusive /\ ReadsArePast /\ ViewsArePast /\ TakenNotRewritten
  /\ OvertakenIsBehind /\ OutdatedIsBehind
  /\ ValidationsSound

(* What a sign-in that has counted leaves room for.                        *)
RoomLeft ==
  \A w \in SignInWorker : Active(w) /\ signIn[w].step = "counted" =>
    /\ Cardinality(Holding(Client)) < MaxSessions
    /\ signIn[w].client = AdminClient
         => Cardinality(Holding({AdminClient})) < MaxAdminSessions

-----------------------------------------------------------------------------
(* Types. *)


(* Changing one field of a sign-in.                                        *)
LEMMA SignInSet ==
  ASSUME Typed, NEW w \in SignInWorker, NEW x \in SignInRow \cup {NoSignIn},
         signIn' = [signIn EXCEPT ![w] = x],
         UNCHANGED <<account, application, grant, sessions, validation, clock,
                     changes, outdated, late>>
  PROVE  Typed'
BY DEF Typed

LEMMA SignInActive ==
  ASSUME Typed, NEW w \in SignInWorker
  PROVE  /\ Active(w) <=> signIn[w] \in SignInRow
         /\ Active(w) <=> signIn[w].step # "none"
<1>1. signIn[w] \in SignInRow => signIn[w].step # "none"
  BY DEF SignInRow
<1>2. NoSignIn.step = "none"
  BY DEF NoSignIn
<1> QED BY <1>1, <1>2 DEF Typed, Active

LEMMA ReachTyped ==
  ASSUME Typed, NEW w \in SignInWorker, Active(w), Reach(w, "marked")
  PROVE  Typed'
<1>1. [signIn[w] EXCEPT !.step = "marked"] \in SignInRow
  BY SignInActive DEF SignInRow
<1> QED BY <1>1, SignInSet DEF Reach

LEMMA EndTyped ==
  ASSUME Typed, NEW w \in SignInWorker, EndSignIn(w) PROVE Typed'
BY SignInSet DEF EndSignIn

LEMMA SeenTyped ==
  ASSUME Typed, NEW w \in SignInWorker, Active(w) PROVE Seen(w) \in Facts
<1>1. Committed \in Facts
  BY DEF Committed, Facts, Typed
<1>2. Backend = "mongo" => signIn[w].view \in Facts
  BY SignInActive DEF SignInRow
<1> QED BY <1>1, <1>2 DEF Seen

LEMMA StepsTyped ==
  ASSUME Typed, ReadsArePast, NEW w \in SignInWorker, SignIn(w) PROVE Typed'
<1>0. signIn[w].step # "none" => Active(w) /\ signIn[w] \in SignInRow /\ Seen(w) \in Facts
  BY SignInActive, SeenTyped
<1>1. ASSUME NEW c \in Client, ReadAccountForIssuance(w, c) PROVE Typed'
  <2>1. Committed \in Facts
    BY DEF Committed, Facts, Typed
  <2>2. [step |-> "account", client |-> c, user |-> account.version,
         view |-> IF Backend = "mongo" THEN Committed ELSE NoView,
         application |-> 0, grant |-> NoGrant, now |-> 0,
         rewritten |-> {}, overtaken |-> FALSE] \in SignInRow
    BY <2>1 DEF SignInRow, Typed, AccountRow, GrantRow
  <2> QED BY <1>1, <2>2, SignInSet DEF ReadAccountForIssuance
<1>4. ASSUME RequireEnabled(w) PROVE Typed'
  <2> DEFINE app == Seen(w).application[signIn[w].client]
             x == [signIn[w] EXCEPT !.step = "application", !.application = app.version]
  <2>1. app.version \in Nat
    BY <1>0, <1>4 DEF RequireEnabled, SignInRow, Facts, ApplicationRow
  <2>2. x \in SignInRow
    BY <1>0, <1>4, <2>1 DEF RequireEnabled, SignInRow
  <2>3. CASE signIn' = [signIn EXCEPT ![w] = x]
    BY <1>4, <2>2, <2>3, SignInSet, EndTyped DEF RequireEnabled
  <2> QED BY <1>4, <2>3, EndTyped DEF RequireEnabled
<1>5. ASSUME MarkAccountIssuance(w) PROVE Typed'
  BY <1>0, <1>5, ReachTyped, EndTyped DEF MarkAccountIssuance
<1>6. ASSUME RequireOrCreateGrant(w) PROVE Typed'
  <2> DEFINE g == Seen(w).grant[signIn[w].client]
             h == IF g = NoGrant THEN FirstGrant ELSE g
             x == [signIn[w] EXCEPT !.step = "granted", !.grant = h]
  <2>1. g \in GrantRow
    BY <1>0, <1>6 DEF RequireOrCreateGrant, SignInRow, Facts
  <2>2. h \in GrantRow
    BY <2>1 DEF GrantRow, FirstGrant
  <2>3. x \in SignInRow
    BY <1>0, <1>6, <2>2 DEF RequireOrCreateGrant, SignInRow
  <2>4. CASE signIn' = [signIn EXCEPT ![w] = x]
    BY <1>6, <2>3, <2>4, SignInSet, EndTyped DEF RequireOrCreateGrant
  <2> QED BY <1>6, <2>4, EndTyped DEF RequireOrCreateGrant
<1>7. ASSUME AssertSessionLimit(w) PROVE Typed'
  <2> DEFINE x == [signIn[w] EXCEPT !.step = "counted", !.now = clock]
  <2>1. x \in SignInRow
    BY <1>0, <1>7 DEF AssertSessionLimit, SignInRow, Typed
  <2>2. CASE signIn' = [signIn EXCEPT ![w] = x]
    BY <1>7, <2>1, <2>2, SignInSet, EndTyped DEF AssertSessionLimit
  <2> QED BY <1>7, <2>2, EndTyped DEF AssertSessionLimit
<1>8. ASSUME InsertBrowserSession(w) PROVE Typed'
  <2> DEFINE c == signIn[w].client
             row == NewSession(c, Versions(w), signIn[w].now)
             keep(v) == [signIn[v] EXCEPT !.rewritten = @ \cup {"account", c}]
  <2>1. Active(w) /\ signIn[w] \in SignInRow
    BY <1>0, <1>8 DEF InsertBrowserSession
  <2>2. row \in SessionRow /\ row.idleExpiresAt <= row.expiresAt
    <3>1. signIn[w].grant # NoGrant
      BY <1>8, <2>1 DEF InsertBrowserSession, ReadsArePast, ReadPast, HasGrant, FirstGrant, NoGrant
    <3>2. signIn[w].grant.version \in Nat
      BY <2>1, <3>1 DEF SignInRow, GrantRow
    <3>3. /\ c \in Client /\ signIn[w].user \in Nat /\ signIn[w].application \in Nat
          /\ signIn[w].now \in Nat
      BY <2>1 DEF SignInRow
    <3>4. AbsoluteLifetime \in Nat /\ IdleLifetime \in Nat
      BY PolicyAssumption
    <3> QED BY <3>2, <3>3, <3>4 DEF NewSession, Versions, SessionRow, Earlier
  <2>3. /\ sessions' = Append(sessions, row) /\ sessions' \in Seq(SessionRow)
        /\ DOMAIN sessions' = 1..Len(sessions)+1 /\ DOMAIN sessions = 1..Len(sessions)
        /\ Len(sessions) \in Nat
        /\ \A i \in DOMAIN sessions : sessions'[i] = sessions[i]
        /\ sessions'[Len(sessions)+1] = row
    BY <1>8, <2>2 DEF InsertBrowserSession, Typed
  <2>4. grant' \in [Client -> GrantRow]
    BY <1>8, <2>1 DEF InsertBrowserSession, Typed, SignInRow
  <2>5. ASSUME NEW v \in SignInWorker, Active(v) PROVE keep(v) \in SignInRow
    BY <2>1, <2>5, SignInActive DEF SignInRow
  <2>6. signIn' \in [SignInWorker -> SignInRow \cup {NoSignIn}]
    BY <1>8, <2>5 DEF InsertBrowserSession, Active
  <2>7. /\ \A i \in DOMAIN sessions' : sessions'[i].idleExpiresAt <= sessions'[i].expiresAt
        /\ outdated' \subseteq DOMAIN sessions' /\ late' \subseteq DOMAIN sessions'
    BY <1>8, <2>2, <2>3 DEF InsertBrowserSession, Typed
  <2> QED BY <1>8, <2>3, <2>4, <2>6, <2>7 DEF InsertBrowserSession, Typed
<1> QED BY <1>1, <1>4, <1>5, <1>6, <1>7, <1>8 DEF SignIn

(* A change of a row's idle fields, its validity or its account's version. *)
LEMMA RowTyped ==
  ASSUME Typed, NEW i \in DOMAIN sessions, NEW row \in SessionRow,
         row.idleExpiresAt <= row.expiresAt,
         sessions' = [sessions EXCEPT ![i] = row]
  PROVE  /\ sessions' \in Seq(SessionRow) /\ DOMAIN sessions' = DOMAIN sessions
         /\ \A j \in DOMAIN sessions' : sessions'[j].idleExpiresAt <= sessions'[j].expiresAt
         /\ sessions'[i] = row
         /\ \A j \in DOMAIN sessions : j # i => sessions'[j] = sessions[j]
         /\ sessions[i] \in SessionRow
BY DEF Typed

LEMMA OvertakeTyped ==
  ASSUME Typed, NEW fact, NEW row \in Client \cup {"account", "application"},
         NEW clients, Overtake(fact, row, clients)
  PROVE  signIn' \in [SignInWorker -> SignInRow \cup {NoSignIn}]
<1>1. ASSUME NEW w \in SignInWorker, HasRead(w, fact)
      PROVE  [signIn[w] EXCEPT !.overtaken = TRUE, !.rewritten = @ \cup {row}] \in SignInRow
  <2>1. signIn[w] \in SignInRow
    BY <1>1, SignInActive DEF HasRead
  <2> QED BY <2>1 DEF SignInRow
<1> QED BY <1>1 DEF Overtake, Typed

LEMMA AdvanceTyped ==
  ASSUME Typed, NEW deleted \in BOOLEAN, AdvanceAccount(deleted)
  PROVE  /\ account' \in AccountRow /\ changes' \in Nat
         /\ signIn' \in [SignInWorker -> SignInRow \cup {NoSignIn}]
<1>1. account.version + 1 \in Nat
  BY DEF Typed, AccountRow
<1>2. [version |-> account.version + 1, deleted |-> deleted] \in AccountRow
  BY <1>1 DEF AccountRow
<1>3. changes' \in Nat
  BY DEF AdvanceAccount, Change, Typed
<1> QED BY <1>2, <1>3, OvertakeTyped DEF AdvanceAccount

LEMMA EndsTyped ==
  ASSUME Typed, EndSessions PROVE Typed'
<1>1. ASSUME NEW i \in DOMAIN sessions, RevokeSession(i) PROVE Typed'
  <2> DEFINE row == [sessions[i] EXCEPT !.valid = FALSE]
  <2>1. sessions[i] \in SessionRow /\ sessions[i].idleExpiresAt <= sessions[i].expiresAt
    BY DEF Typed
  <2>2. row \in SessionRow /\ row.idleExpiresAt <= row.expiresAt
    BY <2>1 DEF SessionRow
  <2> QED BY <1>1, <2>2, RowTyped DEF RevokeSession, Typed
<1>2. ASSUME NEW i \in DOMAIN sessions, RevokeOthers(i) PROVE Typed'
  <2> DEFINE row == [sessions[i] EXCEPT !.userVersion = account.version + 1]
  <2>1. sessions[i] \in SessionRow /\ sessions[i].idleExpiresAt <= sessions[i].expiresAt
    BY DEF Typed
  <2>2. row \in SessionRow /\ row.idleExpiresAt <= row.expiresAt
    <3>1. account.version + 1 \in Nat
      BY DEF Typed, AccountRow
    <3> QED BY <2>1, <3>1 DEF SessionRow
  <2>3. sessions' = [sessions EXCEPT ![i] = row]
    BY <1>2 DEF RevokeOthers, Promoted
  <2>4. account.deleted \in BOOLEAN
    BY DEF Typed, AccountRow
  <2> QED BY <1>2, <2>2, <2>3, <2>4, AdvanceTyped, RowTyped DEF RevokeOthers, Typed
<1>3. ASSUME RevokeAllForUser \/ Deactivate PROVE Typed'
  <2>1. account.deleted \in BOOLEAN
    BY DEF Typed, AccountRow
  <2> QED BY <1>3, <2>1, AdvanceTyped DEF RevokeAllForUser, Deactivate, Typed
<1>4. ASSUME Reactivate PROVE Typed'
  <2>1. account' \in AccountRow
    BY <1>4 DEF Reactivate, Typed, AccountRow
  <2>2. signIn' \in [SignInWorker -> SignInRow \cup {NoSignIn}]
    BY <1>4, OvertakeTyped DEF Reactivate
  <2> QED BY <1>4, <2>1, <2>2 DEF Reactivate, Typed
<1>5. ASSUME NEW c \in Client, BlockGrant(c) PROVE Typed'
  <2>1. BlockedGrant(grant[c]) \in GrantRow
    BY DEF BlockedGrant, GrantRow, Typed
  <2>2. grant' \in [Client -> GrantRow] /\ changes' \in Nat
    BY <1>5, <2>1 DEF BlockGrant, Change, Typed
  <2>3. signIn' \in [SignInWorker -> SignInRow \cup {NoSignIn}]
    BY <1>5, OvertakeTyped DEF BlockGrant
  <2> QED BY <1>5, <2>2, <2>3 DEF BlockGrant, Typed
<1>6. ASSUME NEW c \in Client, DisableApplication(c) PROVE Typed'
  <2>1. Disabled(application[c]) \in ApplicationRow
    BY DEF Disabled, ApplicationRow, Typed
  <2>2. application' \in [Client -> ApplicationRow] /\ changes' \in Nat
    BY <1>6, <2>1 DEF DisableApplication, Change, Typed
  <2>3. signIn' \in [SignInWorker -> SignInRow \cup {NoSignIn}]
    BY <1>6, OvertakeTyped DEF DisableApplication
  <2> QED BY <1>6, <2>2, <2>3 DEF DisableApplication, Typed
<1>7. ASSUME NEW c \in Client, EnableApplication(c) PROVE Typed'
  <2>1. [application[c] EXCEPT !.enabled = TRUE] \in ApplicationRow
    BY DEF ApplicationRow, Typed
  <2> QED BY <1>7, <2>1 DEF EnableApplication, Typed
<1> QED BY <1>1, <1>2, <1>3, <1>4, <1>5, <1>6, <1>7 DEF EndSessions

LEMMA ValidationActive ==
  ASSUME Typed, NEW v \in Validation, validation[v].step # "none"
  PROVE  validation[v] \in ValidationRow
BY DEF Typed, NoValidation

LEMMA ChecksTyped ==
  ASSUME Typed, ValidationsSound, NEW v \in Validation, Validate(v) PROVE Typed'
<1>1. ASSUME NEW row \in ValidationRow \cup {NoValidation}, Check(v, row),
             UNCHANGED <<sessions, late>>
      PROVE  Typed'
  BY <1>1 DEF Check, Typed
<1>2. ASSUME NEW i \in DOMAIN sessions, ReadSession(v, i) PROVE Typed'
  <2>1. sessions[i] \in SessionRow /\ i \in Nat \ {0}
    BY DEF Typed
  <2>2. HoldsAuthority(i) \in BOOLEAN
    BY DEF HoldsAuthority, StandsNow, Stands
  <2>3. [step |-> "session", id |-> i, session |-> sessions[i],
               held |-> HoldsAuthority(i), now |-> 0] \in ValidationRow
    BY <2>1, <2>2 DEF ValidationRow
  <2> QED BY <1>1, <1>2, <2>3 DEF ReadSession
<1>3. ASSUME NEW from \in {"session", "account", "application"},
             NEW to \in {"account", "application", "authorised"},
             NEW passes \in BOOLEAN, Read(v, from, to, passes)
      PROVE  Typed'
  <2>1. validation[v] \in ValidationRow
    BY <1>3, ValidationActive DEF Read
  <2>2. [validation[v] EXCEPT !.step = to, !.now = clock] \in ValidationRow
    BY <2>1 DEF ValidationRow, Typed
  <2> QED BY <1>1, <1>3, <2>2 DEF Read
<1>4. ASSUME ReadAccount(v) PROVE Typed'
  <2>1. AccountPasses(v) \in BOOLEAN
    BY DEF AccountPasses
  <2> QED BY <1>3, <1>4, <2>1 DEF ReadAccount
<1>5. ASSUME ReadApplication(v) PROVE Typed'
  <2>1. ApplicationPasses(v) \in BOOLEAN
    BY DEF ApplicationPasses
  <2> QED BY <1>3, <1>5, <2>1 DEF ReadApplication
<1>6. ASSUME ReadGrant(v) PROVE Typed'
  <2>1. GrantPasses(v) \in BOOLEAN
    BY DEF GrantPasses
  <2> QED BY <1>3, <1>6, <2>1 DEF ReadGrant
<1>7. ASSUME Answer(v) PROVE Typed'
  BY <1>1, <1>7 DEF Answer
<1>8. ASSUME ExtendIdle(v) PROVE Typed'
  <2> DEFINE now == validation[v].now
             i == validation[v].id
             read == validation[v].session
             row == [sessions[i] EXCEPT !.lastActivityAt = now,
                                        !.idleExpiresAt = ExtendedIdle(read, now)]
  <2>1. validation[v] \in ValidationRow /\ i \in DOMAIN sessions /\ validation[v] # NoValidation
    BY <1>8, ValidationActive DEF ExtendIdle, ValidationsSound, NoValidation
  <2>2. now \in Nat /\ read \in SessionRow /\ sessions[i] \in SessionRow
    BY <2>1 DEF ValidationRow, Typed
  <2>3. CASE Extensible(sessions[i], now)
    <3>1. row \in SessionRow /\ row.idleExpiresAt <= row.expiresAt
      <4>1. ExtendedIdle(read, now) \in Nat /\ ExtendedIdle(read, now) <= read.expiresAt
        BY <2>2, PolicyAssumption
           DEF SessionRow, ExtendedIdle, AbsoluteDeadline, Earlier
      <4>2. read.expiresAt = sessions[i].expiresAt
        BY <2>1 DEF ValidationsSound
      <4> QED BY <2>2, <4>1, <4>2 DEF SessionRow
    <3>2. sessions' = [sessions EXCEPT ![i] = row]
      BY <1>8, <2>3 DEF ExtendIdle
    <3>3. late' \subseteq DOMAIN sessions
      BY <1>8, <2>1, <2>3 DEF ExtendIdle, Typed
    <3> QED BY <1>8, <2>1, <3>1, <3>2, <3>3, RowTyped DEF ExtendIdle, Check, Typed
  <2>4. CASE ~Extensible(sessions[i], now)
    BY <1>1, <1>8, <2>4 DEF ExtendIdle
  <2> QED BY <2>3, <2>4
<1> QED BY <1>2, <1>4, <1>5, <1>6, <1>7, <1>8 DEF Validate

(* Every step of the specification keeps the types.                        *)
LEMMA NextTyped ==
  ASSUME Typed, ReadsArePast, ValidationsSound, [ANext]_avars PROVE Typed'
<1>1. ASSUME Tick PROVE Typed'
  BY <1>1 DEF Tick, Typed
<1>2. ASSUME UNCHANGED avars PROVE Typed'
  BY <1>2 DEF avars, Typed
<1> QED BY <1>1, <1>2, StepsTyped, EndsTyped, ChecksTyped DEF ANext, Rest

-----------------------------------------------------------------------------
(* The facts move on. *)

AccountMovesOn ==
  /\ account.version <= account'.version
  /\ account'.version = account.version => (~account.deleted => ~account'.deleted)
ApplicationsMoveOn ==
  \A c \in Client :
    /\ application[c].version <= application'[c].version
    /\ application'[c].version = application[c].version
         => (application[c].enabled => application'[c].enabled)
GrantsMoveOn ==
  \A c \in Client : grant[c] # NoGrant =>
    /\ grant'[c] # NoGrant /\ grant[c].version <= grant'[c].version
    /\ grant'[c].version = grant[c].version => (grant[c].allowed => grant'[c].allowed)

FactsMoveOn ==
  AccountMovesOn /\ ApplicationsMoveOn /\ GrantsMoveOn /\ clock <= clock'

(* A row keeps all that authority depends on, but that it may be ended, or *)
(* moved together with the account it is level with.                       *)
MovedAlong(i) ==
  /\ sessions[i].userVersion = account.version
  /\ sessions'[i].userVersion = account'.version
  /\ account'.version = account.version + 1
  /\ account'.deleted = account.deleted

RowsMoveOn ==
  \A i \in DOMAIN sessions :
    /\ i \in DOMAIN sessions'
    /\ sessions'[i].client = sessions[i].client
    /\ sessions'[i].clientVersion = sessions[i].clientVersion
    /\ sessions'[i].grantVersion = sessions[i].grantVersion
    /\ sessions'[i].expiresAt = sessions[i].expiresAt
    /\ sessions'[i].valid => sessions[i].valid
    /\ sessions'[i].userVersion = sessions[i].userVersion \/ MovedAlong(i)

LEMMA FactsKept ==
  ASSUME Typed, UNCHANGED <<account, application, grant>>, clock <= clock'
  PROVE  FactsMoveOn
BY DEF Typed, AccountRow, ApplicationRow, GrantRow, FactsMoveOn, AccountMovesOn,
       ApplicationsMoveOn, GrantsMoveOn

LEMMA RowsKept ==
  ASSUME Typed, UNCHANGED sessions PROVE RowsMoveOn
BY DEF Typed, RowsMoveOn

LEMMA AdvanceMovesOn ==
  ASSUME Typed, NEW deleted \in BOOLEAN, AdvanceAccount(deleted)
  PROVE  account'.version = account.version + 1 /\ AccountMovesOn
BY DEF Typed, AccountRow, AdvanceAccount, AccountMovesOn

LEMMA ClockTyped ==
  ASSUME Typed, UNCHANGED clock PROVE clock <= clock'
BY DEF Typed

LEMMA OthersKept ==
  ASSUME Typed
  PROVE  /\ UNCHANGED application => ApplicationsMoveOn
         /\ UNCHANGED grant => GrantsMoveOn
         /\ UNCHANGED account => AccountMovesOn
BY DEF Typed, AccountRow, ApplicationRow, GrantRow, AccountMovesOn,
       ApplicationsMoveOn, GrantsMoveOn

LEMMA EndsMoveOn ==
  ASSUME Typed, EndSessions PROVE FactsMoveOn /\ RowsMoveOn
<1>1. ASSUME NEW i \in DOMAIN sessions, RevokeSession(i) PROVE FactsMoveOn /\ RowsMoveOn
  <2>1. sessions[i] \in SessionRow
    BY DEF Typed
  <2>2. RowsMoveOn
    BY <1>1, <2>1 DEF RevokeSession, RowsMoveOn, Typed, SessionRow
  <2> QED BY <1>1, <2>2, FactsKept, ClockTyped DEF RevokeSession
<1>2. ASSUME NEW i \in DOMAIN sessions, RevokeOthers(i) PROVE FactsMoveOn /\ RowsMoveOn
  <2>1. sessions[i] \in SessionRow /\ account.deleted \in BOOLEAN
    BY DEF Typed, AccountRow
  <2>2. account'.version = account.version + 1 /\ AccountMovesOn
    BY <1>2, <2>1, AdvanceMovesOn DEF RevokeOthers
  <2>3. account'.deleted = account.deleted
    BY <1>2 DEF RevokeOthers, AdvanceAccount
  <2>4. RowsMoveOn
    BY <1>2, <2>1, <2>2, <2>3
       DEF RevokeOthers, Promoted, RowsMoveOn, MovedAlong, Typed, SessionRow
  <2> QED BY <1>2, <2>2, <2>4, OthersKept, ClockTyped DEF RevokeOthers, FactsMoveOn
<1>3. ASSUME RevokeAllForUser \/ Deactivate PROVE FactsMoveOn /\ RowsMoveOn
  <2>1. account.deleted \in BOOLEAN
    BY DEF Typed, AccountRow
  <2> QED BY <1>3, <2>1, AdvanceMovesOn, OthersKept, RowsKept, ClockTyped
          DEF RevokeAllForUser, Deactivate, FactsMoveOn
<1>4. ASSUME Reactivate PROVE FactsMoveOn /\ RowsMoveOn
  <2>1. AccountMovesOn
    BY <1>4 DEF Reactivate, AccountMovesOn, Typed, AccountRow
  <2> QED BY <1>4, <2>1, OthersKept, RowsKept, ClockTyped DEF Reactivate, FactsMoveOn
<1>5. ASSUME NEW c \in Client, BlockGrant(c) PROVE FactsMoveOn /\ RowsMoveOn
  <2>1. GrantsMoveOn
    <3>1. ASSUME NEW d \in Client, grant[d] # NoGrant
          PROVE  /\ grant'[d] # NoGrant /\ grant[d].version <= grant'[d].version
                 /\ grant'[d].version = grant[d].version => (grant[d].allowed => grant'[d].allowed)
      <4>1. grant[d].version \in Nat
        BY <3>1 DEF Typed, GrantRow
      <4>2. CASE d = c
        <5>1. grant'[d] = [allowed |-> FALSE, version |-> grant[d].version + 1]
          BY <1>5, <3>1, <4>2 DEF BlockGrant, BlockedGrant, Typed
        <5> QED BY <4>1, <5>1 DEF NoGrant
      <4>3. CASE d # c
        BY <1>5, <3>1, <4>1, <4>3 DEF BlockGrant, Typed
      <4> QED BY <4>2, <4>3
    <3> QED BY <3>1 DEF GrantsMoveOn
  <2> QED BY <1>5, <2>1, OthersKept, RowsKept, ClockTyped DEF BlockGrant, FactsMoveOn
<1>6. ASSUME NEW c \in Client, DisableApplication(c) PROVE FactsMoveOn /\ RowsMoveOn
  <2>1. ApplicationsMoveOn
    BY <1>6 DEF DisableApplication, Disabled, ApplicationsMoveOn, Typed, ApplicationRow
  <2> QED BY <1>6, <2>1, OthersKept, RowsKept, ClockTyped DEF DisableApplication, FactsMoveOn
<1>7. ASSUME NEW c \in Client, EnableApplication(c) PROVE FactsMoveOn /\ RowsMoveOn
  <2>1. ApplicationsMoveOn
    BY <1>7 DEF EnableApplication, ApplicationsMoveOn, Typed, ApplicationRow
  <2> QED BY <1>7, <2>1, OthersKept, RowsKept, ClockTyped DEF EnableApplication, FactsMoveOn
<1> QED BY <1>1, <1>2, <1>3, <1>4, <1>5, <1>6, <1>7 DEF EndSessions

LEMMA ChecksMoveOn ==
  ASSUME Typed, ValidationsSound, NEW v \in Validation, Validate(v)
  PROVE  FactsMoveOn /\ RowsMoveOn
<1>1. FactsMoveOn
  <2>1. UNCHANGED <<account, application, grant, clock>>
    BY DEF Validate, ReadSession, ReadAccount, ReadApplication, ReadGrant, Read,
           Answer, ExtendIdle, Check
  <2> QED BY <2>1, FactsKept, ClockTyped
<1>2. CASE UNCHANGED sessions
  BY <1>1, <1>2, RowsKept
<1>3. CASE ExtendIdle(v) /\ ~UNCHANGED sessions
  <2> DEFINE i == validation[v].id
  <2>1. i \in DOMAIN sessions
    BY <1>3, ValidationActive DEF ExtendIdle, ValidationsSound, NoValidation
  <2>2. sessions[i] \in SessionRow
    BY <2>1 DEF Typed
  <2> DEFINE row == [sessions[i] EXCEPT
                       !.lastActivityAt = validation[v].now,
                       !.idleExpiresAt = ExtendedIdle(validation[v].session, validation[v].now)]
  <2>3. sessions' = [sessions EXCEPT ![i] = row]
    BY <1>3 DEF ExtendIdle
  <2>4. /\ row.client = sessions[i].client /\ row.clientVersion = sessions[i].clientVersion
        /\ row.grantVersion = sessions[i].grantVersion
        /\ row.expiresAt = sessions[i].expiresAt /\ row.valid = sessions[i].valid
        /\ row.userVersion = sessions[i].userVersion
    BY <2>2 DEF SessionRow
  <2>5. RowsMoveOn
    BY <2>1, <2>3, <2>4 DEF RowsMoveOn, Typed
  <2> QED BY <1>1, <2>5
<1> QED BY <1>2, <1>3 DEF Validate, ReadSession, ReadAccount, ReadApplication,
        ReadGrant, Read, Answer

(* The grant that a sign-in stores is the one there is, or the first one.  *)
LEMMA InsertMovesOn ==
  ASSUME Typed, ReadsArePast, NEW w \in SignInWorker, InsertBrowserSession(w)
  PROVE  FactsMoveOn /\ RowsMoveOn
<1> DEFINE c == signIn[w].client
<1>1. signIn[w] \in SignInRow /\ HasGrant(w) /\ c \in Client
  <2>1. signIn[w] \in SignInRow /\ Active(w)
    BY SignInActive DEF InsertBrowserSession
  <2> QED BY <2>1 DEF InsertBrowserSession, HasGrant, SignInRow
<1>2. grant' = [grant EXCEPT ![c] = signIn[w].grant]
  BY DEF InsertBrowserSession
<1>3. grant[c] # NoGrant => signIn[w].grant = grant[c]
  BY <1>1 DEF ReadsArePast, ReadPast
<1>4. GrantsMoveOn
  <2>1. ASSUME NEW d \in Client, grant[d] # NoGrant PROVE grant'[d] = grant[d]
    BY <1>1, <1>2, <1>3, <2>1 DEF Typed
  <2>2. ASSUME NEW d \in Client, grant[d] # NoGrant PROVE grant[d].version \in Nat
    BY <2>2 DEF Typed, GrantRow
  <2> QED BY <2>1, <2>2 DEF GrantsMoveOn
<1>5. RowsMoveOn
  <2>1. \A row : sessions' = Append(sessions, row) =>
            \A i \in DOMAIN sessions : i \in DOMAIN sessions' /\ sessions'[i] = sessions[i]
    BY DEF Typed
  <2>2. \A i \in DOMAIN sessions : i \in DOMAIN sessions' /\ sessions'[i] = sessions[i]
    BY <2>1 DEF InsertBrowserSession
  <2> QED BY <2>2 DEF RowsMoveOn
<1>6. FactsMoveOn
  BY <1>4, OthersKept, ClockTyped DEF InsertBrowserSession, FactsMoveOn
<1> QED BY <1>5, <1>6

LEMMA SignInsMoveOn ==
  ASSUME Typed, ReadsArePast, NEW w \in SignInWorker, SignIn(w)
  PROVE  FactsMoveOn /\ RowsMoveOn
<1>1. CASE InsertBrowserSession(w)
  BY <1>1, InsertMovesOn
<1>2. CASE ~InsertBrowserSession(w)
  <2>1. UNCHANGED <<account, application, grant, sessions, clock>>
    BY <1>2 DEF SignIn, ReadAccountForIssuance, RequireEnabled, MarkAccountIssuance,
       RequireOrCreateGrant, AssertSessionLimit, EndSignIn, Reach
  <2> QED BY <2>1, FactsKept, RowsKept, ClockTyped
<1> QED BY <1>1, <1>2

LEMMA NextMovesOn ==
  ASSUME Typed, ReadsArePast, ValidationsSound, [ANext]_avars
  PROVE  FactsMoveOn /\ RowsMoveOn
<1>1. ASSUME Tick PROVE FactsMoveOn /\ RowsMoveOn
  <2>1. clock <= clock'
    BY <1>1 DEF Tick, Typed
  <2> QED BY <1>1, <2>1, FactsKept, RowsKept DEF Tick
<1>2. ASSUME UNCHANGED avars PROVE FactsMoveOn /\ RowsMoveOn
  BY <1>2, FactsKept, RowsKept, ClockTyped DEF avars
<1> QED BY <1>1, <1>2, EndsMoveOn, ChecksMoveOn, SignInsMoveOn DEF ANext, Rest

(* What is past stays past. *)
LEMMA PastKept ==
  ASSUME Typed, Typed', FactsMoveOn
  PROVE  /\ \A n \in Nat : AccountPast(account, n) => AccountPast(account', n)
         /\ \A c \in Client, n \in Nat :
              ApplicationPast(application[c], n) => ApplicationPast(application'[c], n)
         /\ \A c \in Client, n \in Nat :
              GrantPast(grant[c], n) => GrantPast(grant'[c], n)
<1>1. \A n \in Nat : AccountPast(account, n) => AccountPast(account', n)
  BY DEF Typed, AccountRow, FactsMoveOn, AccountMovesOn, AccountPast
<1>2. \A c \in Client, n \in Nat :
        ApplicationPast(application[c], n) => ApplicationPast(application'[c], n)
  BY DEF Typed, ApplicationRow, FactsMoveOn, ApplicationsMoveOn, ApplicationPast
<1>3. ASSUME NEW c \in Client, NEW n \in Nat, GrantPast(grant[c], n)
      PROVE  GrantPast(grant'[c], n)
  <2>1. grant'[c] # NoGrant /\ grant[c].version \in Nat /\ grant'[c].version \in Nat
    BY <1>3 DEF Typed, GrantRow, GrantPast, FactsMoveOn, GrantsMoveOn
  <2> QED BY <1>3, <2>1 DEF GrantPast, FactsMoveOn, GrantsMoveOn
<1> QED BY <1>1, <1>2, <1>3

(* A row that stands after a step stood before it. *)
LEMMA EndedStep ==
  ASSUME Typed, Typed', RowsArePast, FactsMoveOn, RowsMoveOn,
         NEW i \in DOMAIN sessions, StandsNow(i)'
  PROVE  StandsNow(i)
<1> DEFINE s == sessions[i]
           t == sessions'[i]
           c == s.client
<1>1. /\ s \in SessionRow /\ t \in SessionRow /\ Past(s)
      /\ t.client = c /\ t.clientVersion = s.clientVersion
      /\ t.grantVersion = s.grantVersion /\ (t.valid => s.valid)
      /\ t.userVersion = s.userVersion \/ MovedAlong(i)
  BY DEF Typed, RowsArePast, RowsMoveOn
<1>2. c \in Client /\ s.userVersion \in Nat /\ s.clientVersion \in Nat /\ s.grantVersion \in Nat
  BY <1>1 DEF SessionRow
<1>3. /\ t.valid /\ ~account'.deleted /\ t.userVersion = account'.version
      /\ application'[c].enabled /\ s.clientVersion = application'[c].version
      /\ grant'[c].allowed /\ s.grantVersion = grant'[c].version
  BY <1>1 DEF StandsNow, Stands
<1>4. ~account.deleted /\ s.userVersion = account.version
  <2>1. account.version \in Nat /\ account'.version \in Nat
    BY DEF Typed, AccountRow
  <2>2. CASE t.userVersion = s.userVersion
    BY <1>1, <1>2, <1>3, <2>1, <2>2 DEF Past, AccountPast, FactsMoveOn, AccountMovesOn
  <2>3. CASE MovedAlong(i)
    BY <1>1, <1>3, <2>3 DEF Past, AccountPast, MovedAlong
  <2> QED BY <1>1, <2>2, <2>3
<1>5. application[c].enabled /\ s.clientVersion = application[c].version
  <2>1. application[c].version \in Nat
    BY <1>2 DEF Typed, ApplicationRow
  <2> QED BY <1>1, <1>2, <1>3, <2>1 DEF Past, ApplicationPast, FactsMoveOn, ApplicationsMoveOn
<1>6. grant[c].allowed /\ s.grantVersion = grant[c].version
  <2>1. grant[c] # NoGrant /\ grant[c].version \in Nat
    BY <1>1, <1>2 DEF Typed, GrantRow, Past, GrantPast
  <2> QED BY <1>1, <1>2, <1>3, <2>1 DEF Past, GrantPast, FactsMoveOn, GrantsMoveOn
<1> QED BY <1>1, <1>3, <1>4, <1>5, <1>6 DEF StandsNow, Stands

LEMMA RowStaysPast ==
  ASSUME Typed, Typed', RowsArePast, FactsMoveOn, RowsMoveOn,
         NEW i \in DOMAIN sessions
  PROVE  Past(sessions[i])'
<1> DEFINE s == sessions[i]
           t == sessions'[i]
<1>1. /\ s \in SessionRow /\ t \in SessionRow /\ Past(s)
      /\ t.client = s.client /\ t.clientVersion = s.clientVersion
      /\ t.grantVersion = s.grantVersion
      /\ t.userVersion = s.userVersion \/ MovedAlong(i)
  BY DEF Typed, RowsArePast, RowsMoveOn
<1>2. s.client \in Client /\ s.userVersion \in Nat /\ s.clientVersion \in Nat /\ s.grantVersion \in Nat
  BY <1>1 DEF SessionRow
<1>3. /\ ApplicationPast(application'[t.client], t.clientVersion)
      /\ GrantPast(grant'[t.client], t.grantVersion)
  BY <1>1, <1>2, PastKept DEF Past
<1>4. AccountPast(account', t.userVersion)
  <2>1. CASE t.userVersion = s.userVersion
    BY <1>1, <1>2, <2>1, PastKept DEF Past
  <2>2. CASE MovedAlong(i)
    <3>1. account'.version \in Nat
      BY DEF Typed, AccountRow
    <3> QED BY <1>1, <2>2, <3>1 DEF Past, AccountPast, MovedAlong
  <2> QED BY <1>1, <2>1, <2>2
<1> QED BY <1>3, <1>4 DEF Past

(* A stored session carries the versions that were read.                   *)
LEMMA InsertPast ==
  ASSUME Typed, Typed', ReadsArePast, RowsArePast, FactsMoveOn, RowsMoveOn,
         NEW w \in SignInWorker, InsertBrowserSession(w)
  PROVE  RowsArePast'
<1> DEFINE x == signIn[w]
           n == Len(sessions) + 1
           row == NewSession(x.client, Versions(w), x.now)
<1>1. x \in SignInRow /\ HasGrant(w) /\ x.step # "account"
  <2>1. signIn[w] \in SignInRow /\ Active(w)
    BY SignInActive DEF InsertBrowserSession
  <2> QED BY <2>1 DEF InsertBrowserSession, HasGrant
<1>2. DOMAIN sessions' = DOMAIN sessions \cup {n} /\ sessions'[n] = row
  <2>1. /\ sessions \in Seq(SessionRow)
        /\ sessions' = Append(sessions, row)
    BY DEF InsertBrowserSession, Typed
  <2> QED BY <2>1
<1>3. /\ row.client = x.client /\ row.userVersion = x.user
      /\ row.clientVersion = x.application /\ row.grantVersion = x.grant.version
  BY DEF NewSession, Versions
<1>4. x.client \in Client /\ x.user \in Nat /\ x.application \in Nat
  BY <1>1 DEF SignInRow
<1>5. AccountPast(account', x.user) /\ ApplicationPast(application'[x.client], x.application)
  BY <1>1, <1>4, PastKept DEF ReadsArePast, ReadPast, HasGrant
<1>6. GrantPast(grant'[x.client], x.grant.version)
  <2>1. grant'[x.client] = x.grant
    BY <1>4 DEF InsertBrowserSession, Typed
  <2>2. x.grant # NoGrant /\ x.grant.allowed
    BY <1>1 DEF ReadsArePast, ReadPast, FirstGrant, NoGrant
  <2>3. x.grant.version \in Nat
    BY <1>1, <2>2 DEF SignInRow, GrantRow
  <2> QED BY <2>1, <2>2, <2>3 DEF GrantPast
<1>7. ASSUME NEW i \in DOMAIN sessions', i = n PROVE Past(sessions[i])'
  BY <1>2, <1>3, <1>5, <1>6, <1>7 DEF Past
<1> QED BY <1>2, <1>7, RowStaysPast DEF RowsArePast

LEMMA NextRowsPast ==
  ASSUME Typed, Typed', ReadsArePast, ValidationsSound, RowsArePast, [ANext]_avars
  PROVE  RowsArePast'
<1>0. FactsMoveOn /\ RowsMoveOn
  BY NextMovesOn
<1>1. ASSUME DOMAIN sessions' = DOMAIN sessions PROVE RowsArePast'
  BY <1>0, <1>1, RowStaysPast DEF RowsArePast
<1>2. ASSUME NEW w \in SignInWorker, InsertBrowserSession(w) PROVE RowsArePast'
  BY <1>0, <1>2, InsertPast
<1>3. CASE \A w \in SignInWorker : ~InsertBrowserSession(w)
  <2>1. CASE UNCHANGED sessions
    BY <1>1, <2>1
  <2>2. CASE \E i \in DOMAIN sessions : RevokeSession(i) \/ RevokeOthers(i)
    BY <1>1, <2>2 DEF RevokeSession, RevokeOthers, Promoted
  <2>3. CASE \E v \in Validation : ExtendIdle(v)
    BY <1>1, <2>1, <2>3 DEF ExtendIdle
  <2> QED BY <1>3, <2>1, <2>2, <2>3
      DEF ANext, avars, SignIn, ReadAccountForIssuance, RequireEnabled, MarkAccountIssuance,
          RequireOrCreateGrant, AssertSessionLimit, EndSignIn, Reach,
          EndSessions, RevokeAllForUser, Deactivate, Reactivate, BlockGrant,
          DisableApplication, EnableApplication, Validate, ReadSession, ReadAccount,
          ReadApplication, ReadGrant, Read, Answer, Tick, Rest
<1> QED BY <1>2, <1>3

-----------------------------------------------------------------------------
(* Sign-ins. *)

LEMMA TakesAccount ==
  Typed => \A w \in SignInWorker :
    "account" \in TakenBy(w) <=> Active(w) /\ (Backend = "postgres" \/ HasMark(w))
<1> SUFFICES ASSUME Typed, NEW w \in SignInWorker
             PROVE  "account" \in TakenBy(w) <=> Active(w) /\ (Backend = "postgres" \/ HasMark(w))
  OBVIOUS
<1>1. CASE ~Active(w)
  BY <1>1 DEF TakenBy, Active, NoSignIn
<1>2. CASE Active(w)
  <2>1. signIn[w] \in SignInRow /\ signIn[w].client # "account"
    BY <1>2, SignInActive, PolicyAssumption DEF SignInRow
  <2> QED BY <1>2, <2>1 DEF TakenBy, SignInRow, HasMark, HasGrant, Active
<1> QED BY <1>1, <1>2

LEMMA TakesClient ==
  Typed => \A w \in SignInWorker, c \in Client :
    c \in TakenBy(w) <=> HasGrant(w) /\ signIn[w].client = c
<1> SUFFICES ASSUME Typed, NEW w \in SignInWorker, NEW c \in Client
             PROVE  c \in TakenBy(w) <=> HasGrant(w) /\ signIn[w].client = c
  OBVIOUS
<1>0. c # "account"
  BY PolicyAssumption
<1>1. CASE ~Active(w)
  BY <1>0, <1>1 DEF TakenBy, HasGrant, Active, NoSignIn
<1>2. CASE Active(w)
  <2>1. signIn[w] \in SignInRow
    BY <1>2, SignInActive
  <2> QED BY <1>0, <1>2, <2>1 DEF TakenBy, SignInRow, HasGrant, Active
<1> QED BY <1>1, <1>2

(* What a step that is not its own may do to a sign-in: tell it that a row *)
(* was rewritten, but not one that it has taken.                           *)
Carried(v) ==
  LET x == signIn[v]
      y == signIn'[v]
  IN
  /\ Active(v) <=> Active(v)'
  /\ Active(v) =>
       /\ y.step = x.step /\ y.client = x.client /\ y.user = x.user /\ y.view = x.view
       /\ y.application = x.application /\ y.grant = x.grant
       /\ x.rewritten \subseteq y.rewritten
       /\ HasMark(v) => ("account" \in y.rewritten => "account" \in x.rewritten)
       /\ HasGrant(v) => (x.client \in y.rewritten => x.client \in x.rewritten)
       /\ Backend = "postgres" =>
            y.rewritten \cap {"account", x.client} = {} /\ account'.version = account.version
       /\ HasGrant(v) \/ x.client \notin y.rewritten => grant'[x.client] = grant[x.client]
       /\ y.overtaken =>
            x.overtaken \/ "account" \in y.rewritten \/ x.client \in y.rewritten
              \/ ApplicationMoved(v)'

SignInSound(v) == ReadPast(v) /\ ViewPast(v) /\ TakenKept(v) /\ OvertakenBehind(v)

LEMMA CarriedSound ==
  ASSUME Typed, Typed', FactsMoveOn, NEW v \in SignInWorker, Carried(v), SignInSound(v)
  PROVE  SignInSound(v)'
<1>1. CASE ~Active(v)
  BY <1>1 DEF Carried, SignInSound, ReadPast, ViewPast, TakenKept, OvertakenBehind,
     HasGrant, HasMark
<1>2. CASE Active(v)
  <2> DEFINE x == signIn[v]
             y == signIn'[v]
  <2>1. x \in SignInRow /\ y \in SignInRow /\ Active(v)'
    BY <1>2, SignInActive DEF Carried, Typed, Active
  <2>2. /\ y.step = x.step /\ y.client = x.client /\ y.user = x.user /\ y.view = x.view
        /\ y.application = x.application /\ y.grant = x.grant
        /\ x.rewritten \subseteq y.rewritten
    BY <1>2 DEF Carried
  <2>3. (HasGrant(v)' <=> HasGrant(v)) /\ (HasMark(v)' <=> HasMark(v))
    BY <1>2, <2>1, <2>2 DEF HasGrant, HasMark
  <2>4. ReadPast(v)'
    <3>1. AccountPast(account', y.user)
      BY <1>2, <2>1, <2>2, PastKept DEF SignInSound, ReadPast, SignInRow
    <3>2. y.step # "account" => ApplicationPast(application'[y.client], y.application)
      BY <1>2, <2>1, <2>2, PastKept DEF SignInSound, ReadPast, SignInRow
    <3>3. HasGrant(v) => grant'[x.client] = grant[x.client]
      BY <1>2 DEF Carried
    <3> QED BY <2>2, <2>3, <3>1, <3>2, <3>3 DEF SignInSound, ReadPast
  <2>5. ViewPast(v)'
    <3> SUFFICES ASSUME Backend = "mongo" PROVE ViewPast(v)'
      BY DEF ViewPast
    <3> DEFINE app == x.view.application[x.client]
    <3>1. /\ x.client \in Client /\ app \in ApplicationRow
          /\ application[x.client] \in ApplicationRow /\ application'[x.client] \in ApplicationRow
      BY <2>1 DEF SignInRow, Facts, Typed
    <3>2. app.enabled => ApplicationPast(application'[x.client], app.version)
      BY <1>2, <3>1, PastKept DEF SignInSound, ViewPast, ApplicationRow
    <3>3. app.version <= application'[x.client].version
      BY <1>2, <3>1 DEF SignInSound, ViewPast, ApplicationRow, FactsMoveOn, ApplicationsMoveOn
    <3>4. x.client \notin y.rewritten => x.view.grant[x.client] = grant'[x.client]
      BY <1>2, <2>2 DEF Carried, SignInSound, ViewPast
    <3> QED BY <1>2, <2>2, <3>2, <3>3, <3>4 DEF SignInSound, ViewPast
  <2>6. TakenKept(v)'
    BY <1>2, <2>2, <2>3 DEF Carried, SignInSound, TakenKept
  <2>7. OvertakenBehind(v)'
    <3>1. ApplicationMoved(v) => ApplicationMoved(v)'
      <4>1. /\ application[x.client].version \in Nat /\ application'[x.client].version \in Nat
            /\ application[x.client].version <= application'[x.client].version
            /\ x.application \in Nat
        BY <2>1 DEF SignInRow, Typed, ApplicationRow, FactsMoveOn, ApplicationsMoveOn
      <4>2. Backend = "mongo" => x.view.application[x.client].version \in Nat
        BY <2>1 DEF SignInRow, Facts, ApplicationRow
      <4> QED BY <2>2, <4>1, <4>2 DEF ApplicationMoved
    <3> QED BY <1>2, <2>2, <3>1 DEF Carried, SignInSound, OvertakenBehind
  <2> QED BY <2>4, <2>5, <2>6, <2>7 DEF SignInSound
<1> QED BY <1>1, <1>2

LEMMA UntouchedCarried ==
  ASSUME Typed, NEW v \in SignInWorker, SignInSound(v), signIn'[v] = signIn[v],
         UNCHANGED <<account, grant>>
  PROVE  Carried(v)
BY DEF Carried, Active, SignInSound, TakenKept

(* A sign-in that has read a fact is told that it was replaced.            *)
LEMMA OvertakeRecord ==
  ASSUME Typed, NEW v \in SignInWorker, NEW fact,
         NEW row \in Client \cup {"account", "application"}, NEW clients,
         Overtake(fact, row, clients)
  PROVE  /\ Active(v) <=> Active(v)'
         /\ Active(v) =>
              /\ signIn'[v].step = signIn[v].step /\ signIn'[v].client = signIn[v].client
              /\ signIn'[v].user = signIn[v].user /\ signIn'[v].view = signIn[v].view
              /\ signIn'[v].application = signIn[v].application
              /\ signIn'[v].grant = signIn[v].grant
              /\ IF HasRead(v, fact) /\ signIn[v].client \in clients
                 THEN signIn'[v].rewritten = signIn[v].rewritten \cup {row}
                 ELSE /\ signIn'[v].rewritten = signIn[v].rewritten
                      /\ signIn'[v].overtaken = signIn[v].overtaken
<1> DEFINE told == HasRead(v, fact) /\ signIn[v].client \in clients
           y == [signIn[v] EXCEPT !.overtaken = TRUE, !.rewritten = @ \cup {row}]
<1>1. signIn'[v] = IF told THEN y ELSE signIn[v]
  BY DEF Overtake
<1>2. told => Active(v)
  BY DEF HasRead, Active, NoSignIn
<1>3. Active(v) => signIn[v] \in SignInRow
  BY SignInActive
<1>4. NoSignIn \notin SignInRow
  BY DEF NoSignIn, SignInRow
<1>5. CASE told
  <2>1. /\ y \in SignInRow /\ y.rewritten = signIn[v].rewritten \cup {row}
        /\ y.step = signIn[v].step /\ y.client = signIn[v].client
        /\ y.user = signIn[v].user /\ y.view = signIn[v].view
        /\ y.application = signIn[v].application /\ y.grant = signIn[v].grant
    BY <1>2, <1>3, <1>5 DEF SignInRow
  <2> QED BY <1>1, <1>2, <1>4, <1>5, <2>1 DEF Active
<1>6. CASE ~told
  BY <1>1, <1>6 DEF Active
<1> QED BY <1>5, <1>6

LEMMA AccountCarried ==
  ASSUME Typed, NEW v \in SignInWorker, SignInSound(v), ~Taken("account"),
         Overtake("account", "account", Client), UNCHANGED grant
  PROVE  Carried(v)
<1>1. CASE Active(v)
  <2>1. Backend # "postgres" /\ Backend = "mongo" /\ ~HasMark(v) /\ ~HasGrant(v)
    BY <1>1, TakesAccount, PolicyAssumption DEF Taken, HasMark
  <2>2. HasRead(v, "account") /\ signIn[v].client \in Client
    BY <1>1, <2>1, SignInActive DEF HasRead, SignInRow
  <2> QED BY ZenonT(60), <1>1, <2>1, <2>2, OvertakeRecord DEF Carried
<1>2. CASE ~Active(v)
  BY <1>2, OvertakeRecord DEF Carried
<1> QED BY <1>1, <1>2

LEMMA GrantCarried ==
  ASSUME Typed, NEW v \in SignInWorker, SignInSound(v), NEW c \in Client, BlockGrant(c)
  PROVE  Carried(v)
<1>1. /\ Overtake("grant", c, {c}) /\ ~GrantTaken(c) /\ account' = account
      /\ \A d \in Client : d # c => grant'[d] = grant[d]
  BY DEF BlockGrant, Typed
<1>2. CASE Active(v)
  <2>1. signIn[v] \in SignInRow /\ signIn[v].client \in Client
    BY <1>2, SignInActive DEF SignInRow
  <2>2. Backend # "postgres" /\ Backend = "mongo"
    BY <1>1, <1>2, TakesAccount, PolicyAssumption DEF GrantTaken, Taken
  <2>3. ~(HasGrant(v) /\ signIn[v].client = c)
    BY <1>1, <2>2, TakesClient DEF GrantTaken, Taken
  <2>4. HasRead(v, "grant")
    BY <1>2, <2>2, SignInActive DEF HasRead
  <2>5. c # "account"
    BY PolicyAssumption
  <2>6. CASE signIn[v].client = c
    BY <1>1, <1>2, <2>2, <2>3, <2>4, <2>5, <2>6, OvertakeRecord DEF Carried
  <2>7. CASE signIn[v].client # c
    BY SMTT(60), <1>1, <1>2, <2>1, <2>2, <2>5, <2>7, OvertakeRecord DEF Carried
  <2> QED BY <2>6, <2>7
<1>3. CASE ~Active(v)
  BY <1>1, <1>3, OvertakeRecord DEF Carried
<1> QED BY <1>2, <1>3

LEMMA ApplicationCarried ==
  ASSUME Typed, NEW v \in SignInWorker, SignInSound(v), NEW c \in Client,
         DisableApplication(c)
  PROVE  Carried(v)
<1>1. /\ Overtake("application", "application", {c}) /\ account' = account /\ grant' = grant
      /\ application'[c].version = application[c].version + 1
      /\ application[c].version \in Nat
  BY DEF DisableApplication, Disabled, Typed, ApplicationRow
<1>2. CASE Active(v)
  <2>1. /\ signIn[v] \in SignInRow /\ signIn[v].client # "application"
    BY <1>2, SignInActive, PolicyAssumption DEF SignInRow
  <2>2. ASSUME HasRead(v, "application"), signIn[v].client = c PROVE ApplicationMoved(v)'
    <3>0. /\ signIn'[v].client = c /\ signIn'[v].step = signIn[v].step
          /\ signIn'[v].application = signIn[v].application
          /\ signIn'[v].view = signIn[v].view
      BY <1>1, <1>2, <2>2, OvertakeRecord
    <3>1. CASE Backend = "mongo"
      <4>1. /\ signIn[v].view.application[c].version \in Nat
            /\ signIn[v].view.application[c].version <= application[c].version
        BY <1>2, <2>1, <2>2, <3>1 DEF SignInSound, ViewPast, SignInRow, Facts, ApplicationRow
      <4> QED BY <1>1, <3>0, <3>1, <4>1 DEF ApplicationMoved
    <3>2. CASE Backend # "mongo"
      <4>1. signIn[v].step # "account"
        BY <2>2, <3>2 DEF HasRead
      <4>2. signIn[v].application \in Nat /\ signIn[v].application <= application[c].version
        BY <1>2, <2>1, <2>2, <4>1 DEF SignInSound, ReadPast, SignInRow, ApplicationPast
      <4> QED BY <1>1, <3>0, <4>1, <4>2 DEF ApplicationMoved
    <3> QED BY <3>1, <3>2
  <2>3. /\ HasMark(v) => "account" \notin signIn[v].rewritten
        /\ Backend = "postgres" =>
             signIn[v].rewritten \cap {"account", signIn[v].client} = {}
    BY <1>2 DEF SignInSound, TakenKept
  <2>4. CASE HasRead(v, "application") /\ signIn[v].client = c
    <3>1. signIn'[v].rewritten = signIn[v].rewritten \cup {"application"}
      BY <1>1, <1>2, <2>4, OvertakeRecord
    <3> QED BY ZenonT(60), <1>1, <1>2, <2>1, <2>2, <2>3, <2>4, <3>1, OvertakeRecord DEF Carried
  <2>5. CASE ~(HasRead(v, "application") /\ signIn[v].client = c)
    <3>0. ~(HasRead(v, "application") /\ signIn[v].client \in {c})
      BY <2>5
    <3>1. /\ signIn'[v].rewritten = signIn[v].rewritten
          /\ signIn'[v].overtaken = signIn[v].overtaken
      BY <1>1, <1>2, <3>0, OvertakeRecord
    <3> QED BY <1>1, <1>2, <2>3, <3>1, OvertakeRecord DEF Carried
  <2> QED BY <2>4, <2>5
<1>3. CASE ~Active(v)
  BY <1>1, <1>3, OvertakeRecord DEF Carried
<1> QED BY <1>2, <1>3

(* Who stores a session has taken the account: the others had not marked   *)
(* it, and their snapshots are told.                                       *)
LEMMA InsertCarried ==
  ASSUME Typed, Exclusive, NEW v \in SignInWorker, SignInSound(v),
         NEW w \in SignInWorker, InsertBrowserSession(w), v # w
  PROVE  Carried(v)
<1> DEFINE c == signIn[w].client
           y == [signIn[v] EXCEPT !.rewritten = @ \cup {"account", c}]
<1>1. CASE Active(v)
  <2>1. signIn[v] \in SignInRow /\ signIn[w] \in SignInRow /\ Active(w)
    BY <1>1, SignInActive DEF InsertBrowserSession
  <2>2. Backend # "postgres" /\ ~HasMark(v) /\ ~HasGrant(v)
    <3>1. HasMark(w)
      BY <2>1 DEF InsertBrowserSession, HasMark, HasGrant
    <3> QED BY <1>1, <2>1, <3>1, TakesAccount DEF Exclusive, HasMark
  <2>3. signIn'[v] = y /\ account' = account
    BY <1>1 DEF InsertBrowserSession, Active
  <2>4. /\ y \in SignInRow /\ y.rewritten = signIn[v].rewritten \cup {"account", c}
        /\ y.step = signIn[v].step /\ y.client = signIn[v].client
        /\ y.user = signIn[v].user /\ y.view = signIn[v].view
        /\ y.application = signIn[v].application /\ y.grant = signIn[v].grant
    BY <2>1 DEF SignInRow
  <2>5. NoSignIn \notin SignInRow
    BY DEF NoSignIn, SignInRow
  <2>6. signIn[v].client # c => grant'[signIn[v].client] = grant[signIn[v].client]
    BY <2>1 DEF InsertBrowserSession, Typed, SignInRow
  <2> QED BY <1>1, <2>2, <2>3, <2>4, <2>5, <2>6 DEF Carried, Active
<1>2. CASE ~Active(v)
  BY <1>2 DEF InsertBrowserSession, Carried, Active
<1> QED BY <1>1, <1>2

(* A sign-in that is over is in order. *)
LEMMA OverSound ==
  ASSUME NEW w \in SignInWorker, signIn'[w] = NoSignIn
  PROVE  SignInSound(w)' /\ ~Active(w)'
BY DEF SignInSound, ReadPast, ViewPast, TakenKept, OvertakenBehind, Active,
       HasGrant, HasMark

LEMMA BeginSound ==
  ASSUME Typed, Typed', NEW w \in SignInWorker, NEW c \in Client,
         ReadAccountForIssuance(w, c)
  PROVE  SignInSound(w)'
<1> DEFINE y == [step |-> "account", client |-> c, user |-> account.version,
                 view |-> IF Backend = "mongo" THEN Committed ELSE NoView,
                 application |-> 0, grant |-> NoGrant, now |-> 0,
                 rewritten |-> {}, overtaken |-> FALSE]
<1>1. /\ signIn'[w] = y /\ ~account.deleted
      /\ account' = account /\ application' = application /\ grant' = grant
  BY DEF ReadAccountForIssuance, Typed
<1>2. ~HasMark(w)' /\ ~HasGrant(w)'
  BY <1>1 DEF HasMark, HasGrant
<1>3. ReadPast(w)'
  BY <1>1, <1>2 DEF ReadPast, AccountPast, Typed, AccountRow
<1>4. ViewPast(w)'
  <2>1. Backend = "mongo" => /\ y.view.application = application
                             /\ y.view.grant = grant
    BY DEF Committed
  <2>2. application[c].version \in Nat
    BY DEF Typed, ApplicationRow
  <2> QED BY <1>1, <2>1, <2>2 DEF ViewPast, ApplicationPast
<1>5. TakenKept(w)'
  BY <1>1, <1>2 DEF TakenKept
<1>6. OvertakenBehind(w)'
  BY <1>1 DEF OvertakenBehind
<1> QED BY <1>3, <1>4, <1>5, <1>6 DEF SignInSound

LEMMA EnabledSound ==
  ASSUME Typed, Typed', NEW w \in SignInWorker, SignInSound(w), RequireEnabled(w)
  PROVE  SignInSound(w)'
<1> DEFINE x == signIn[w]
           c == x.client
           app == Seen(w).application[c]
           y == [x EXCEPT !.step = "application", !.application = app.version]
<1>1. CASE EndSignIn(w)
  BY <1>1, OverSound DEF EndSignIn, Typed
<1>2. CASE ~EndSignIn(w)
  <2>1. /\ signIn' = [signIn EXCEPT ![w] = y] /\ app.enabled /\ x.step = "account"
        /\ account' = account /\ application' = application /\ grant' = grant
    BY <1>2 DEF RequireEnabled
  <2>2. x \in SignInRow /\ Active(w) /\ Seen(w) \in Facts
    BY <2>1, SignInActive, SeenTyped
  <2>3. c \in Client /\ app.version \in Nat
    BY <2>2 DEF SignInRow, Facts, ApplicationRow
  <2>4. /\ signIn'[w] = y
        /\ y.step = "application" /\ y.application = app.version
        /\ y.client = c /\ y.user = x.user /\ y.view = x.view /\ y.grant = x.grant
        /\ y.rewritten = x.rewritten /\ y.overtaken = x.overtaken
    BY <2>1, <2>2, <2>3 DEF SignInRow, Typed
  <2>5. ~HasMark(w)' /\ ~HasGrant(w)'
    BY <2>4 DEF HasMark, HasGrant
  <2>6. Backend = "mongo" => app = x.view.application[c]
    BY DEF Seen
  <2>7. Backend # "mongo" => app = application[c]
    BY DEF Seen, Committed
  <2>8. ApplicationPast(application[c], app.version)
    BY <2>1, <2>2, <2>3, <2>6, <2>7 DEF SignInSound, ViewPast, ApplicationPast
  <2>9. ReadPast(w)'
    BY <2>1, <2>2, <2>4, <2>5, <2>8 DEF SignInSound, ReadPast
  <2>10. ViewPast(w)'
    BY <2>1, <2>2, <2>4, <2>6 DEF SignInSound, ViewPast
  <2>11. TakenKept(w)'
    BY <2>1, <2>2, <2>4, <2>5 DEF SignInSound, TakenKept
  <2>12. OvertakenBehind(w)'
    BY <2>1, <2>2, <2>4 DEF SignInSound, OvertakenBehind, ApplicationMoved
  <2> QED BY <2>9, <2>10, <2>11, <2>12 DEF SignInSound
<1> QED BY <1>1, <1>2

LEMMA MarkSound ==
  ASSUME Typed, Typed', NEW w \in SignInWorker, SignInSound(w), MarkAccountIssuance(w)
  PROVE  SignInSound(w)'
<1> DEFINE x == signIn[w]
           y == [x EXCEPT !.step = "marked"]
<1>1. CASE EndSignIn(w)
  BY <1>1, OverSound DEF EndSignIn, Typed
<1>2. CASE ~EndSignIn(w)
  <2>1. /\ signIn' = [signIn EXCEPT ![w] = y] /\ x.step = "application"
        /\ ~AccountRefused(w)
        /\ account' = account /\ application' = application /\ grant' = grant
    BY <1>2 DEF MarkAccountIssuance, Reach
  <2>2. x \in SignInRow /\ Active(w)
    BY <2>1, SignInActive
  <2>3. /\ signIn'[w] = y /\ y.step = "marked" /\ y.application = x.application
        /\ y.client = x.client /\ y.user = x.user /\ y.view = x.view /\ y.grant = x.grant
        /\ y.rewritten = x.rewritten /\ y.overtaken = x.overtaken
    BY <2>1, <2>2 DEF SignInRow, Typed
  <2>4. ~HasGrant(w)'
    BY <2>3 DEF HasGrant
  <2>5. "account" \notin x.rewritten
    BY <2>1, <2>2, PolicyAssumption DEF SignInSound, TakenKept, AccountRefused, Refused
  <2>6. ReadPast(w)' /\ ViewPast(w)'
    BY <2>1, <2>2, <2>3, <2>4 DEF SignInSound, ReadPast, ViewPast
  <2>7. TakenKept(w)'
    BY <2>1, <2>2, <2>3, <2>4, <2>5 DEF SignInSound, TakenKept
  <2>8. OvertakenBehind(w)'
    BY <2>1, <2>2, <2>3 DEF SignInSound, OvertakenBehind, ApplicationMoved
  <2> QED BY <2>6, <2>7, <2>8 DEF SignInSound
<1> QED BY <1>1, <1>2

LEMMA GrantSound ==
  ASSUME Typed, Typed', NEW w \in SignInWorker, SignInSound(w), RequireOrCreateGrant(w)
  PROVE  SignInSound(w)'
<1> DEFINE x == signIn[w]
           c == x.client
           g == Seen(w).grant[c]
           h == IF g = NoGrant THEN FirstGrant ELSE g
           y == [x EXCEPT !.step = "granted", !.grant = h]
<1>1. CASE EndSignIn(w)
  BY <1>1, OverSound DEF EndSignIn, Typed
<1>2. CASE ~EndSignIn(w)
  <2>1. /\ signIn' = [signIn EXCEPT ![w] = y] /\ x.step = "marked"
        /\ ~Refused(w, c) /\ (g = NoGrant \/ g.allowed)
        /\ account' = account /\ application' = application /\ grant' = grant
    BY <1>2 DEF RequireOrCreateGrant
  <2>2. x \in SignInRow /\ Active(w) /\ Seen(w) \in Facts /\ HasMark(w)
    BY <2>1, SignInActive, SeenTyped DEF HasMark
  <2>3. /\ signIn'[w] = y
        /\ y.step = "granted" /\ y.application = x.application /\ y.grant = h
        /\ y.client = c /\ y.user = x.user /\ y.view = x.view
        /\ y.rewritten = x.rewritten /\ y.overtaken = x.overtaken
    BY <2>1, <2>2 DEF SignInRow, Typed
  <2>4. c \notin x.rewritten
    BY <2>1, <2>2, PolicyAssumption DEF SignInSound, TakenKept, Refused
  <2>5. g = grant[c]
    BY <2>2, <2>4 DEF Seen, Committed, SignInSound, ViewPast
  <2>6. ReadPast(w)'
    BY ZenonT(60), <2>1, <2>2, <2>3, <2>5 DEF SignInSound, ReadPast
  <2>7. ViewPast(w)' /\ TakenKept(w)'
    BY <2>1, <2>2, <2>3, <2>4 DEF SignInSound, ViewPast, TakenKept
  <2>8. OvertakenBehind(w)'
    BY <2>1, <2>2, <2>3 DEF SignInSound, OvertakenBehind, ApplicationMoved
  <2> QED BY <2>6, <2>7, <2>8 DEF SignInSound
<1> QED BY <1>1, <1>2

LEMMA CountSound ==
  ASSUME Typed, Typed', NEW w \in SignInWorker, SignInSound(w), AssertSessionLimit(w)
  PROVE  SignInSound(w)'
<1> DEFINE x == signIn[w]
           y == [x EXCEPT !.step = "counted", !.now = clock]
<1>1. CASE EndSignIn(w)
  BY <1>1, OverSound DEF EndSignIn, Typed
<1>2. CASE ~EndSignIn(w)
  <2>1. /\ signIn' = [signIn EXCEPT ![w] = y] /\ x.step = "granted"
        /\ account' = account /\ application' = application /\ grant' = grant
    BY <1>2 DEF AssertSessionLimit
  <2>2. x \in SignInRow /\ Active(w) /\ HasGrant(w) /\ HasMark(w)
    BY <2>1, SignInActive DEF HasMark, HasGrant
  <2>3. /\ signIn'[w] = y /\ y.step = "counted" /\ y.application = x.application
        /\ y.client = x.client /\ y.user = x.user /\ y.view = x.view /\ y.grant = x.grant
        /\ y.rewritten = x.rewritten /\ y.overtaken = x.overtaken
    BY <2>1, <2>2 DEF SignInRow, Typed
  <2>4. ReadPast(w)' /\ ViewPast(w)' /\ TakenKept(w)'
    BY <2>1, <2>2, <2>3 DEF SignInSound, ReadPast, ViewPast, TakenKept
  <2>5. OvertakenBehind(w)'
    BY <2>1, <2>2, <2>3 DEF SignInSound, OvertakenBehind, ApplicationMoved
  <2> QED BY <2>4, <2>5 DEF SignInSound
<1> QED BY <1>1, <1>2

SignInsSound == \A v \in SignInWorker : SignInSound(v)

(* A sign-in's own step keeps it in order and leaves the others as they    *)
(* were, but that storing a session tells them.                            *)
LEMMA SignInKeepsSignIns ==
  ASSUME Typed, Typed', Exclusive, SignInsSound, FactsMoveOn,
         NEW w \in SignInWorker, SignIn(w)
  PROVE  SignInsSound'
<1>1. SignInSound(w)'
  <2>1. InsertBrowserSession(w) => signIn'[w] = NoSignIn
    BY DEF InsertBrowserSession
  <2> QED BY <2>1, BeginSound, EnabledSound, MarkSound, GrantSound, CountSound, OverSound
          DEF SignIn, SignInsSound
<1>2. ASSUME NEW v \in SignInWorker, v # w PROVE SignInSound(v)'
  <2>1. CASE InsertBrowserSession(w)
    BY <1>2, <2>1, InsertCarried, CarriedSound DEF SignInsSound
  <2>2. CASE ~InsertBrowserSession(w)
    <3>1. signIn'[v] = signIn[v] /\ UNCHANGED <<account, grant>>
      BY <1>2, <2>2 DEF SignIn, ReadAccountForIssuance, RequireEnabled,
         MarkAccountIssuance, RequireOrCreateGrant, AssertSessionLimit, EndSignIn,
         Reach, Typed
    <3> QED BY <3>1, UntouchedCarried, CarriedSound DEF SignInsSound
  <2> QED BY <2>1, <2>2
<1> QED BY <1>1, <1>2 DEF SignInsSound

LEMMA EndsKeepSignIns ==
  ASSUME Typed, Typed', SignInsSound, FactsMoveOn, EndSessions
  PROVE  \A v \in SignInWorker : Carried(v)
<1> SUFFICES ASSUME NEW v \in SignInWorker PROVE Carried(v)
  OBVIOUS
<1>1. ASSUME NEW deleted, AdvanceAccount(deleted), UNCHANGED grant PROVE Carried(v)
  BY <1>1, AccountCarried DEF AdvanceAccount, SignInsSound
<1>2. CASE RevokeAllForUser \/ Deactivate
  BY <1>1, <1>2 DEF RevokeAllForUser, Deactivate
<1>3. CASE \E i \in DOMAIN sessions : RevokeOthers(i)
  BY <1>1, <1>3 DEF RevokeOthers
<1>4. CASE Reactivate
  BY <1>4, AccountCarried DEF Reactivate, SignInsSound
<1>5. CASE \E i \in DOMAIN sessions : RevokeSession(i)
  BY <1>5, UntouchedCarried DEF RevokeSession, SignInsSound
<1>6. CASE \E c \in Client : EnableApplication(c)
  BY <1>6, UntouchedCarried DEF EnableApplication, SignInsSound
<1>7. CASE \E c \in Client : BlockGrant(c) \/ DisableApplication(c)
  BY <1>7, GrantCarried, ApplicationCarried DEF SignInsSound
<1> QED BY <1>2, <1>3, <1>4, <1>5, <1>6, <1>7 DEF EndSessions

LEMMA OthersKeepSignIns ==
  ASSUME Typed, SignInsSound, UNCHANGED <<signIn, account, grant>>
  PROVE  \A v \in SignInWorker : Carried(v)
BY UntouchedCarried DEF SignInsSound

LEMMA ChecksKeep ==
  ASSUME NEW v \in Validation, Validate(v)
  PROVE  UNCHANGED <<signIn, account, application, grant, clock, outdated>>
BY DEF Validate, ReadSession, ReadAccount, ReadApplication, ReadGrant, Read,
       Answer, ExtendIdle, Check

LEMMA NextSignInsSound ==
  ASSUME Typed, Typed', Exclusive, SignInsSound, FactsMoveOn, [ANext]_avars
  PROVE  SignInsSound'
<1>1. CASE \E w \in SignInWorker : SignIn(w)
  BY <1>1, SignInKeepsSignIns
<1>2. ASSUME \A v \in SignInWorker : Carried(v) PROVE SignInsSound'
  BY <1>2, CarriedSound DEF SignInsSound
<1>3. CASE EndSessions
  BY <1>2, <1>3, EndsKeepSignIns
<1>4. CASE \E v \in Validation : Validate(v)
  BY <1>2, <1>4, ChecksKeep, OthersKeepSignIns
<1>5. CASE Tick \/ UNCHANGED avars
  BY <1>2, <1>5, OthersKeepSignIns DEF Tick, avars
<1> QED BY <1>1, <1>3, <1>4, <1>5 DEF ANext, Rest

(* Only a sign-in's own step makes it take the account, when nobody has.   *)
LEMMA TakesAccountNext ==
  (Typed => \A w \in SignInWorker :
    "account" \in TakenBy(w) <=> Active(w) /\ (Backend = "postgres" \/ HasMark(w)))'
BY TakesAccount, PTL

LEMMA CarriedTakesNoMore ==
  ASSUME Typed, Typed', NEW v \in SignInWorker, Carried(v), "account" \in TakenBy(v)'
  PROVE  "account" \in TakenBy(v)
<1>1. Active(v)' /\ HasMark(v)' => HasMark(v)
  BY DEF Carried, HasMark, HasGrant
<1> QED BY <1>1, TakesAccount, TakesAccountNext DEF Carried

LEMMA SignInExclusive ==
  ASSUME Typed, Typed', Exclusive, SignInsSound, NEW w \in SignInWorker, SignIn(w)
  PROVE  Exclusive'
<1>1. ASSUME NEW v \in SignInWorker, v # w, "account" \in TakenBy(v)'
      PROVE  "account" \in TakenBy(v)
  <2>1. CASE InsertBrowserSession(w)
    BY <1>1, <2>1, InsertCarried, CarriedTakesNoMore DEF SignInsSound
  <2>2. CASE ~InsertBrowserSession(w)
    <3>1. signIn'[v] = signIn[v] /\ UNCHANGED <<account, grant>>
      BY <1>1, <2>2 DEF SignIn, ReadAccountForIssuance, RequireEnabled,
         MarkAccountIssuance, RequireOrCreateGrant, AssertSessionLimit, EndSignIn,
         Reach, Typed
    <3> QED BY <1>1, <3>1, UntouchedCarried, CarriedTakesNoMore DEF SignInsSound
  <2> QED BY <2>1, <2>2
<1>2. ASSUME "account" \in TakenBy(w)', "account" \notin TakenBy(w)
      PROVE  \A v \in SignInWorker \ {w} : "account" \notin TakenBy(v)
  <2>1. Active(w)' /\ (Backend = "postgres" \/ HasMark(w)')
    BY <1>2, TakesAccountNext
  <2>2. ~(Active(w) /\ (Backend = "postgres" \/ HasMark(w)))
    BY <1>2, TakesAccount
  <2>3. signIn'[w] # NoSignIn
    BY <2>1 DEF Active
  <2>4. ~EndSignIn(w)
    BY <2>3 DEF EndSignIn, Typed
  <2>5. CASE \E c \in Client : ReadAccountForIssuance(w, c)
    <3>1. signIn'[w].step = "account"
      BY <2>5 DEF ReadAccountForIssuance, Typed
    <3>2. Backend = "postgres"
      BY <2>1, <3>1 DEF HasMark, HasGrant
    <3> QED BY <2>5, <3>2 DEF ReadAccountForIssuance, Taken
  <2>6. CASE MarkAccountIssuance(w)
    BY <2>4, <2>6 DEF MarkAccountIssuance, AccountRefused, Refused
  <2>7. CASE RequireEnabled(w)
    <3>1. Active(w) /\ signIn[w].step = "account" /\ signIn[w] \in SignInRow
      BY <2>7, SignInActive DEF RequireEnabled
    <3>2. signIn'[w].step = "application"
      BY <2>4, <2>7, <3>1 DEF RequireEnabled, Typed, SignInRow
    <3> QED BY <2>1, <2>2, <3>1, <3>2 DEF HasMark, HasGrant
  <2>8. CASE RequireOrCreateGrant(w) \/ AssertSessionLimit(w)
    <3>1. Active(w) /\ signIn[w].step \in {"marked", "granted"}
      BY <2>8, SignInActive DEF RequireOrCreateGrant, AssertSessionLimit
    <3> QED BY <2>2, <3>1 DEF HasMark, HasGrant
  <2>9. ~InsertBrowserSession(w)
    BY <2>3 DEF InsertBrowserSession
  <2> QED BY <2>5, <2>6, <2>7, <2>8, <2>9 DEF SignIn
<1> QED BY <1>1, <1>2 DEF Exclusive

LEMMA NextExclusive ==
  ASSUME Typed, Typed', Exclusive, SignInsSound, FactsMoveOn, [ANext]_avars
  PROVE  Exclusive'
<1>1. CASE \E w \in SignInWorker : SignIn(w)
  BY <1>1, SignInExclusive
<1>2. ASSUME \A v \in SignInWorker : Carried(v) PROVE Exclusive'
  BY <1>2, CarriedTakesNoMore DEF Exclusive
<1>3. CASE EndSessions
  BY <1>2, <1>3, EndsKeepSignIns
<1>4. CASE \E v \in Validation : Validate(v)
  BY <1>2, <1>4, ChecksKeep, OthersKeepSignIns
<1>5. CASE Tick \/ UNCHANGED avars
  BY <1>2, <1>5, OthersKeepSignIns DEF Tick, avars
<1> QED BY <1>1, <1>3, <1>4, <1>5 DEF ANext, Rest

-----------------------------------------------------------------------------
(* Overtaken sign-ins. *)

LEMMA NextOutdatedBehind ==
  ASSUME Typed, Typed', SignInsSound, ValidationsSound, OutdatedIsBehind,
         FactsMoveOn, RowsMoveOn, [ANext]_avars
  PROVE  OutdatedIsBehind'
<1>1. ASSUME NEW i \in outdated
      PROVE  sessions'[i].clientVersion < application'[sessions'[i].client].version
  <2>1. /\ i \in DOMAIN sessions /\ sessions[i] \in SessionRow
        /\ sessions'[i].clientVersion = sessions[i].clientVersion
        /\ sessions'[i].client = sessions[i].client
    BY DEF Typed, RowsMoveOn
  <2>2. /\ sessions[i].client \in Client /\ sessions[i].clientVersion \in Nat
    BY <2>1 DEF SessionRow
  <2>3. /\ application[sessions[i].client].version \in Nat
        /\ application'[sessions[i].client].version \in Nat
        /\ application[sessions[i].client].version <= application'[sessions[i].client].version
    BY <2>2 DEF Typed, ApplicationRow, FactsMoveOn, ApplicationsMoveOn
  <2> QED BY <2>1, <2>2, <2>3 DEF OutdatedIsBehind
<1>2. ASSUME NEW w \in SignInWorker, InsertBrowserSession(w), NEW i \in outdated', i \notin outdated
      PROVE  sessions'[i].clientVersion < application'[sessions'[i].client].version
  <2> DEFINE x == signIn[w]
             row == NewSession(x.client, Versions(w), x.now)
  <2>1. i = Len(sessions) + 1 /\ x.overtaken /\ application' = application
        /\ x.step = "counted" /\ sessions' = Append(sessions, row)
    BY <1>2 DEF InsertBrowserSession
  <2>2. sessions'[i] = row
    BY <2>1 DEF Typed
  <2>3. row.client = x.client /\ row.clientVersion = x.application
    BY DEF NewSession, Versions
  <2>4. x \in SignInRow /\ Active(w) /\ HasGrant(w) /\ HasMark(w)
    BY <2>1, SignInActive DEF HasGrant, HasMark
  <2>5. ApplicationMoved(w)
    BY <2>1, <2>4 DEF SignInsSound, SignInSound, TakenKept, OvertakenBehind
  <2>6. x.application < application[x.client].version
    BY <2>1, <2>4, <2>5 DEF ApplicationMoved, SignInsSound, SignInSound, ViewPast
  <2> QED BY <2>1, <2>2, <2>3, <2>6
<1>3. CASE outdated' = outdated
  BY <1>1, <1>3 DEF OutdatedIsBehind
<1>4. CASE \E w \in SignInWorker : InsertBrowserSession(w)
  BY <1>1, <1>2, <1>4 DEF OutdatedIsBehind
<1>5. CASE \E v \in Validation : Validate(v)
  BY <1>3, <1>5, ChecksKeep
<1> QED BY <1>3, <1>4, <1>5
    DEF ANext, avars, SignIn, ReadAccountForIssuance, RequireEnabled, MarkAccountIssuance,
        RequireOrCreateGrant, AssertSessionLimit, EndSignIn, Reach, EndSessions,
        RevokeSession, RevokeOthers, RevokeAllForUser, Deactivate, Reactivate, BlockGrant,
        DisableApplication, EnableApplication, Tick, Rest

-----------------------------------------------------------------------------
(* Validations. *)

ValidationSound(v) == validation[v] # NoValidation =>
  /\ validation[v].id \in DOMAIN sessions
  /\ validation[v].session.expiresAt = sessions[validation[v].id].expiresAt
  /\ Past(validation[v].session)
  /\ validation[v].held \/ WillFail(v)

LEMMA DeadlinesTyped ==
  ASSUME NEW s \in SessionRow
  PROVE  AbsoluteDeadline(s) \in Int /\ IdleDeadline(s) \in Int
BY PolicyAssumption DEF AbsoluteDeadline, IdleDeadline, Earlier, SessionRow

(* A validation that does not move stays in order: what is behind stays    *)
(* behind, and a deadline that has passed has passed.                      *)
LEMMA WaitingSound ==
  ASSUME Typed, Typed', FactsMoveOn, RowsMoveOn, NEW v \in Validation,
         ValidationSound(v), validation'[v] = validation[v]
  PROVE  ValidationSound(v)'
<1> SUFFICES ASSUME validation[v] # NoValidation PROVE ValidationSound(v)'
  BY DEF ValidationSound
<1> DEFINE x == validation[v]
           s == x.session
<1>1. x \in ValidationRow /\ s \in SessionRow
  BY DEF Typed, ValidationRow
<1>2. s.client \in Client /\ s.userVersion \in Nat /\ s.clientVersion \in Nat /\ s.grantVersion \in Nat
  BY <1>1 DEF SessionRow
<1>3. x.id \in DOMAIN sessions' /\ s.expiresAt = sessions'[x.id].expiresAt
  BY DEF ValidationSound, RowsMoveOn
<1>4. Past(s)'
  BY <1>2, PastKept DEF ValidationSound, Past
<1>5. AccountBehind(s) => AccountBehind(s)'
  BY <1>2 DEF AccountBehind, Typed, AccountRow, FactsMoveOn, AccountMovesOn
<1>6. ApplicationBehind(s) => ApplicationBehind(s)'
  BY <1>2 DEF ApplicationBehind, Typed, ApplicationRow, FactsMoveOn, ApplicationsMoveOn
<1>7. GrantBehind(s) => GrantBehind(s)'
  <2>1. grant[s.client].version \in Nat /\ grant'[s.client].version \in Nat
        /\ grant[s.client].version <= grant'[s.client].version
    BY <1>2 DEF ValidationSound, Past, GrantPast, Typed, GrantRow, FactsMoveOn, GrantsMoveOn
  <2>2. ~InsideDeadlines(s, clock) => ~InsideDeadlines(s, clock')
    <3>1. AbsoluteDeadline(s) \in Int /\ IdleDeadline(s) \in Int
      BY <1>1, DeadlinesTyped
    <3>2. clock \in Nat /\ clock' \in Nat /\ clock <= clock'
      BY DEF Typed, FactsMoveOn
    <3> QED BY <3>1, <3>2 DEF InsideDeadlines
  <2> QED BY <1>2, <2>1, <2>2 DEF GrantBehind
<1>8. WillFail(v) => WillFail(v)'
  BY <1>5, <1>6, <1>7 DEF WillFail
<1> QED BY <1>3, <1>4, <1>8 DEF ValidationSound

LEMMA OverCheck ==
  ASSUME NEW v \in Validation, validation'[v] = NoValidation
  PROVE  ValidationSound(v)'
BY DEF ValidationSound

(* At the start every fact is either as the row has it or already ahead.   *)
LEMMA StartSound ==
  ASSUME Typed, Typed', RowsArePast, NEW v \in Validation,
         NEW i \in DOMAIN sessions, ReadSession(v, i)
  PROVE  ValidationSound(v)'
<1> DEFINE s == sessions[i]
<1>1. /\ validation'[v] = [step |-> "session", id |-> i, session |-> s,
                           held |-> HoldsAuthority(i), now |-> 0]
      /\ UNCHANGED <<account, application, grant, sessions, clock>> /\ s.valid
  BY DEF ReadSession, Check, Typed
<1>2. s \in SessionRow /\ Past(s)
  BY DEF Typed, RowsArePast
<1>3. s.client \in Client /\ s.userVersion \in Nat /\ s.clientVersion \in Nat /\ s.grantVersion \in Nat
  BY <1>2 DEF SessionRow
<1>4. /\ account.version \in Nat /\ application[s.client].version \in Nat
      /\ grant[s.client].version \in Nat
  BY <1>2, <1>3 DEF Typed, AccountRow, ApplicationRow, GrantRow, Past, GrantPast
<1>5. AccountBehind(s) \/ (~account.deleted /\ s.userVersion = account.version)
  BY <1>2, <1>3, <1>4 DEF AccountBehind, Past, AccountPast
<1>6. ApplicationBehind(s) \/ (application[s.client].enabled /\ s.clientVersion = application[s.client].version)
  BY <1>2, <1>3, <1>4 DEF ApplicationBehind, Past, ApplicationPast
<1>7. \/ GrantBehind(s)
      \/ /\ grant[s.client].allowed /\ s.grantVersion = grant[s.client].version
         /\ InsideDeadlines(s, clock)
  BY <1>2, <1>3, <1>4 DEF GrantBehind, Past, GrantPast
<1>8. HoldsAuthority(i) \/ AccountBehind(s) \/ ApplicationBehind(s) \/ GrantBehind(s)
  BY <1>1, <1>5, <1>6, <1>7 DEF HoldsAuthority, StandsNow, Stands
<1>9. Past(s)' /\ (AccountBehind(s) => AccountBehind(s)')
      /\ (ApplicationBehind(s) => ApplicationBehind(s)')
      /\ (GrantBehind(s) => GrantBehind(s)')
  BY <1>1, <1>2 DEF Past, AccountBehind, ApplicationBehind, GrantBehind
<1> QED BY <1>1, <1>8, <1>9 DEF ValidationSound, WillFail

(* A check that passes was not the one to fail.                            *)
LEMMA ReadSound ==
  ASSUME Typed, Typed', NEW v \in Validation, ValidationSound(v),
         NEW from \in {"session", "account", "application"}, NEW to, NEW passes,
         Read(v, from, to, passes),
         passes => \/ /\ from = "session" /\ to = "account"
                      /\ ~AccountBehind(validation[v].session)
                   \/ /\ from = "account" /\ to = "application"
                      /\ ~ApplicationBehind(validation[v].session)
                   \/ /\ from = "application" /\ to = "authorised"
                      /\ ~GrantBehind(validation[v].session)
  PROVE  ValidationSound(v)'
<1> DEFINE x == validation[v]
           s == x.session
           y == [x EXCEPT !.step = to, !.now = clock]
<1>1. CASE ~passes
  BY <1>1, OverCheck DEF Read, Check, Typed
<1>2. CASE passes
  <2>1. x \in ValidationRow /\ x # NoValidation /\ x.step = from
    BY ValidationActive DEF Read, NoValidation
  <2>2. validation'[v] = y
        /\ UNCHANGED <<account, application, grant, sessions, clock>>
    BY <1>2 DEF Read, Check, Typed
  <2>3. y.step = to /\ y.session = s /\ y.id = x.id /\ y.held = x.held
    BY <2>1 DEF ValidationRow
  <2>4. \A q \in SessionRow : /\ Past(q)' <=> Past(q)
                              /\ AccountBehind(q)' <=> AccountBehind(q)
                              /\ ApplicationBehind(q)' <=> ApplicationBehind(q)
                              /\ GrantBehind(q)' <=> GrantBehind(q)
    BY <2>2 DEF Past, AccountBehind, ApplicationBehind, GrantBehind
  <2>4a. s \in SessionRow
    BY <2>1 DEF ValidationRow
  <2>4b. Past(validation[v].session)'
    BY <2>1, <2>2, <2>3, <2>4, <2>4a DEF ValidationSound
  <2>5. x.held \/ WillFail(v)'
    BY <1>2, <2>1, <2>2, <2>3, <2>4, <2>4a DEF ValidationSound, WillFail
  <2> QED BY <2>1, <2>2, <2>3, <2>4b, <2>5 DEF ValidationSound
<1> QED BY <1>1, <1>2

LEMMA CheckSound ==
  ASSUME Typed, Typed', RowsArePast, NEW v \in Validation, ValidationSound(v), Validate(v)
  PROVE  ValidationSound(v)'
<1> DEFINE s == validation[v].session
<1>0. validation[v].step # "none" => s \in SessionRow /\ s.client \in Client
  BY ValidationActive DEF ValidationRow, SessionRow
<1>1. ASSUME ReadAccount(v) PROVE ValidationSound(v)'
  <2>1. AccountPasses(v) => ~AccountBehind(s)
    <3>1. account.version \in Nat
      BY DEF Typed, AccountRow
    <3> QED BY <3>1 DEF AccountPasses, AccountBehind
  <2> QED BY <1>1, <2>1, ReadSound DEF ReadAccount
<1>2. ASSUME ReadApplication(v) PROVE ValidationSound(v)'
  <2>1. ApplicationPasses(v) => ~ApplicationBehind(s)
    <3>1. application[s.client].version \in Nat
      BY <1>0, <1>2 DEF ReadApplication, Read, Typed, ApplicationRow
    <3> QED BY <3>1 DEF ApplicationPasses, ApplicationBehind
  <2> QED BY <1>2, <2>1, ReadSound DEF ReadApplication
<1>3. ASSUME ReadGrant(v) PROVE ValidationSound(v)'
  <2>1. GrantPasses(v) => ~GrantBehind(s)
    <3>1. validation[v] # NoValidation /\ s.client \in Client
      BY <1>0, <1>3 DEF ReadGrant, Read, NoValidation
    <3>2. grant[s.client].version \in Nat
      BY <3>1 DEF ValidationSound, Past, GrantPast, Typed, GrantRow
    <3> QED BY <3>2 DEF GrantPasses, GrantBehind
  <2> QED BY <1>3, <2>1, ReadSound DEF ReadGrant
<1>4. ASSUME Answer(v) \/ ExtendIdle(v) PROVE ValidationSound(v)'
  <2>1. validation'[v] = NoValidation
    BY <1>4 DEF Answer, ExtendIdle, Check, Typed
  <2> QED BY <2>1, OverCheck
<1> QED BY <1>1, <1>2, <1>3, <1>4, StartSound DEF Validate

LEMMA NextValidationsSound ==
  ASSUME Typed, Typed', RowsArePast, ValidationsSound, FactsMoveOn, RowsMoveOn,
         [ANext]_avars
  PROVE  ValidationsSound'
<1> SUFFICES ASSUME NEW v \in Validation PROVE ValidationSound(v)'
  BY DEF ValidationsSound, ValidationSound
<1>0. ValidationSound(v)
  BY DEF ValidationsSound, ValidationSound
<1>1. CASE Validate(v)
  BY <1>0, <1>1, CheckSound
<1>2. CASE ~Validate(v)
  <2>1. ASSUME NEW u \in Validation, Validate(u) PROVE validation'[v] = validation[v]
    <3>1. u # v
      BY <1>2, <2>1
    <3>2. \E record : validation' = [validation EXCEPT ![u] = record]
      BY <2>1 DEF Validate, ReadSession, ReadAccount, ReadApplication, ReadGrant, Read,
         Answer, ExtendIdle, Check
    <3> QED BY <3>1, <3>2 DEF Typed
  <2>2. ASSUME NEW w \in SignInWorker, SignIn(w) PROVE validation' = validation
    BY <2>2 DEF SignIn, ReadAccountForIssuance, RequireEnabled, MarkAccountIssuance,
       RequireOrCreateGrant, AssertSessionLimit, InsertBrowserSession, EndSignIn, Reach
  <2>3. ASSUME EndSessions PROVE validation' = validation
    BY <2>3 DEF EndSessions, RevokeSession, RevokeOthers, RevokeAllForUser, Deactivate,
       Reactivate, BlockGrant, DisableApplication, EnableApplication
  <2>4. validation'[v] = validation[v]
    BY <2>1, <2>2, <2>3 DEF ANext, Tick, Rest, avars
  <2> QED BY <1>0, <2>4, WaitingSound
<1> QED BY <1>1, <1>2

-----------------------------------------------------------------------------
(* The invariant. *)

LEMMA InvSignIns == IInv => SignInsSound
BY DEF IInv, SignInsSound, SignInSound, ReadsArePast, ViewsArePast, TakenNotRewritten,
   OvertakenIsBehind

LEMMA InitIInv == AInit => IInv
<1> SUFFICES ASSUME AInit PROVE IInv
  OBVIOUS
<1>1. Typed
  <2>1. sessions = <<>> /\ sessions \in Seq(SessionRow) /\ DOMAIN sessions = {}
    BY DEF AInit
  <2>2. account \in AccountRow /\ application \in [Client -> ApplicationRow]
        /\ grant \in [Client -> GrantRow] /\ clock \in Nat /\ changes \in Nat
    BY DEF AInit, AccountRow, ApplicationRow, GrantRow
  <2> QED BY <2>1, <2>2 DEF AInit, Typed
<1>2. \A w \in SignInWorker : ~Active(w)
  BY DEF AInit, Active
<1>3. RowsArePast /\ OutdatedIsBehind /\ ValidationsSound
  BY DEF AInit, RowsArePast, OutdatedIsBehind, ValidationsSound
<1>4. SignInsSound
  BY <1>2 DEF SignInsSound, SignInSound, ReadPast, ViewPast, TakenKept, OvertakenBehind,
     HasMark, HasGrant
<1>5. Exclusive
  BY <1>1, <1>2, TakesAccount DEF Exclusive
<1> QED BY <1>1, <1>3, <1>4, <1>5
    DEF IInv, SignInsSound, SignInSound, ReadsArePast, ViewsArePast, TakenNotRewritten,
        OvertakenIsBehind

(* The facts, the rows and the invariant after any step.                   *)
LEMMA NextIInv ==
  IInv /\ [ANext]_avars => IInv' /\ FactsMoveOn /\ RowsMoveOn
<1> SUFFICES ASSUME IInv, [ANext]_avars PROVE IInv' /\ FactsMoveOn /\ RowsMoveOn
  OBVIOUS
<1>1. /\ Typed /\ RowsArePast /\ Exclusive /\ ReadsArePast /\ OutdatedIsBehind
      /\ ValidationsSound /\ SignInsSound
  BY InvSignIns DEF IInv
<1>2. Typed' /\ FactsMoveOn /\ RowsMoveOn
  BY <1>1, NextTyped, NextMovesOn
<1>3. RowsArePast' /\ OutdatedIsBehind'
  BY <1>1, <1>2, NextRowsPast, NextOutdatedBehind
<1>4. Exclusive' /\ SignInsSound' /\ ValidationsSound'
  BY <1>1, <1>2, NextExclusive, NextSignInsSound, NextValidationsSound
<1> QED BY <1>2, <1>3, <1>4
    DEF IInv, SignInsSound, SignInSound, ReadsArePast, ViewsArePast, TakenNotRewritten,
        OvertakenIsBehind

LEMMA Invariant == ASpec => []IInv
BY InitIInv, NextIInv, PTL DEF ASpec

-----------------------------------------------------------------------------
(* Theorems, for both databases. *)

(* The rows of sessions, accounts, applications and grants keep their      *)
(* columns' types, and no session outlives its absolute deadline through   *)
(* its idle one, whatever extensions it received (extendIdle).             *)
THEOREM RowsTyped == ASpec => []ATypeOK
<1>1. IInv => ATypeOK
  <2> SUFFICES ASSUME Typed PROVE ATypeOK
    BY DEF IInv
  <2>1. \A i \in DOMAIN sessions : sessions[i] \in SessionRow
    BY DEF Typed
  <2>2. \A c \in Client : grant[c] = NoGrant \/ grant[c] \in [allowed : BOOLEAN, version : Nat]
    BY DEF Typed, GrantRow
  <2> QED BY <2>1, <2>2 DEF Typed, ATypeOK, AccountRow, ApplicationRow
<1> QED BY <1>1, Invariant, PTL

(* A sign-in that judged on an account, an application or a grant which    *)
(* was changed before its session was stored leaves a session without      *)
(* authority (SessionIssuanceService.issue).                               *)
THEOREM OvertakenSignInHoldsNothing == ASpec => []OutdatedHoldsNothing
<1>1. IInv => OutdatedHoldsNothing
  <2> SUFFICES ASSUME IInv, NEW i \in outdated PROVE ~StandsNow(i)
    BY DEF OutdatedHoldsNothing
  <2>1. /\ sessions[i] \in SessionRow
        /\ sessions[i].clientVersion < application[sessions[i].client].version
    BY DEF IInv, Typed, OutdatedIsBehind
  <2>2. sessions[i].client \in Client /\ sessions[i].clientVersion \in Nat
    BY <2>1 DEF SessionRow
  <2>3. application[sessions[i].client].version \in Nat
    BY <2>2 DEF IInv, Typed, ApplicationRow
  <2> QED BY <2>1, <2>2, <2>3 DEF StandsNow, Stands
<1> QED BY <1>1, Invariant, PTL

(* A validation that says yes names a session that had authority when the  *)
(* validation started (SessionValidator.authorize).                        *)
THEOREM YesMeansHeld == ASpec => []AuthorisedHeldAuthority
<1>1. IInv => AuthorisedHeldAuthority
  <2> SUFFICES ASSUME IInv, NEW v \in Validation, validation[v].step = "authorised"
               PROVE  validation[v].held
    BY DEF AuthorisedHeldAuthority
  <2>1. validation[v] # NoValidation
    BY DEF NoValidation
  <2> QED BY <2>1 DEF IInv, ValidationsSound, WillFail
<1> QED BY <1>1, Invariant, PTL

(* No sign-in, extension, revocation, blocking, disabling, enabling,       *)
(* deactivation or activation makes a session stand again that was revoked *)
(* or fell behind a version.                                               *)
THEOREM EndedNeverReturns == ASpec => EndedStaysEnded
<1>1. IInv /\ IInv' /\ [ANext]_avars =>
        [\A i \in DOMAIN sessions : ~StandsNow(i) => ~StandsNow(i)']_avars
  <2> SUFFICES ASSUME IInv, IInv', [ANext]_avars, NEW i \in DOMAIN sessions,
                      StandsNow(i)'
               PROVE  StandsNow(i)
    OBVIOUS
  <2> QED BY NextIInv, EndedStep DEF IInv
<1> QED BY <1>1, Invariant, PTL DEF ASpec, EndedStaysEnded
-----------------------------------------------------------------------------
(* The caps, on PostgreSQL.                                                *)
(*                                                                         *)
(* Only a stored session adds to Holding, and it adds one.  A sign-in that *)
(* has counted under the account's row lock keeps its room until it stores *)
(* its session, because every other step can only take authority away and  *)
(* nobody else can have counted (Exclusive).                               *)

CapInv == IInv /\ SessionCap /\ RoomLeft

LEMMA HoldingFinite ==
  ASSUME Typed, NEW clients
  PROVE  IsFiniteSet(Holding(clients)) /\ Cardinality(Holding(clients)) \in Nat
<1>1. DOMAIN sessions = 1..Len(sessions) /\ Len(sessions) \in Int
  BY DEF Typed
<1>2. IsFiniteSet(DOMAIN sessions)
  BY <1>1, FS_Interval
<1>3. Holding(clients) \subseteq DOMAIN sessions
  BY DEF Holding
<1> QED BY <1>2, <1>3, FS_Subset, FS_CardinalityType

LEMMA HoldingsFinite ==
  Typed => /\ IsFiniteSet(Holding(Client)) /\ Cardinality(Holding(Client)) \in Nat
           /\ IsFiniteSet(Holding({AdminClient}))
           /\ Cardinality(Holding({AdminClient})) \in Nat
BY HoldingFinite

LEMMA HoldingsFiniteNext ==
  (Typed => /\ IsFiniteSet(Holding(Client)) /\ Cardinality(Holding(Client)) \in Nat
            /\ IsFiniteSet(Holding({AdminClient}))
            /\ Cardinality(Holding({AdminClient})) \in Nat)'
BY HoldingsFinite, PTL

LEMMA AddedOne ==
  ASSUME NEW S, IsFiniteSet(S), NEW x, NEW T \in SUBSET (S \cup {x})
  PROVE  Cardinality(T) <= Cardinality(S) + 1
<1>1. /\ IsFiniteSet(S \cup {x}) /\ Cardinality(S) \in Nat
      /\ Cardinality(S \cup {x}) = IF x \in S THEN Cardinality(S) ELSE Cardinality(S) + 1
  BY FS_AddElement, FS_CardinalityType
<1>2. Cardinality(T) <= Cardinality(S \cup {x}) /\ Cardinality(T) \in Nat
  BY <1>1, FS_Subset, FS_CardinalityType
<1> QED BY <1>1, <1>2

(* A row that is not stored in this step holds no new authority.           *)
LEMMA NothingGained ==
  ASSUME IInv, [ANext]_avars, NEW i \in DOMAIN sessions, i \notin late',
         HoldsAuthority(i)'
  PROVE  i \notin late /\ HoldsAuthority(i) /\ sessions'[i].client = sessions[i].client
<1> DEFINE s == sessions[i]
           t == sessions'[i]
<1>1. Typed /\ Typed' /\ RowsArePast /\ ValidationsSound /\ FactsMoveOn /\ RowsMoveOn
  BY NextIInv DEF IInv
<1>2. StandsNow(i) /\ t.client = s.client
  BY <1>1, EndedStep DEF HoldsAuthority, RowsMoveOn
<1>3. InsideDeadlines(t, clock')
  BY DEF HoldsAuthority
<1>4. late \subseteq late'
  BY DEF ANext, avars, SignIn, ReadAccountForIssuance, RequireEnabled, MarkAccountIssuance,
     RequireOrCreateGrant, AssertSessionLimit, InsertBrowserSession, EndSignIn, Reach,
     EndSessions, RevokeSession, RevokeOthers, RevokeAllForUser, Deactivate, Reactivate,
     BlockGrant, DisableApplication, EnableApplication, Validate, ReadSession, ReadAccount,
     ReadApplication, ReadGrant, Read, Answer, ExtendIdle, Tick, Rest
<1>5. /\ s \in SessionRow /\ t \in SessionRow
      /\ clock \in Nat /\ clock' \in Nat /\ clock <= clock'
  BY <1>1 DEF Typed, FactsMoveOn, RowsMoveOn
<1>6. ASSUME t.authenticatedAt = s.authenticatedAt, t.lastActivityAt = s.lastActivityAt,
             t.expiresAt = s.expiresAt, t.idleExpiresAt = s.idleExpiresAt
      PROVE  InsideDeadlines(s, clock)
  <2>1. AbsoluteDeadline(t) = AbsoluteDeadline(s) /\ IdleDeadline(t) = IdleDeadline(s)
    BY <1>6 DEF AbsoluteDeadline, IdleDeadline
  <2> QED BY <1>3, <1>5, <2>1, DeadlinesTyped DEF InsideDeadlines
<1>7. ASSUME t = s PROVE InsideDeadlines(s, clock)
  BY <1>6, <1>7
<1>8. ASSUME \E j \in DOMAIN sessions : RevokeSession(j) \/ RevokeOthers(j)
      PROVE  InsideDeadlines(s, clock)
  <2>1. PICK j \in DOMAIN sessions, row \in SessionRow :
          /\ sessions' = [sessions EXCEPT ![j] = row]
          /\ row.authenticatedAt = sessions[j].authenticatedAt
          /\ row.lastActivityAt = sessions[j].lastActivityAt
          /\ row.expiresAt = sessions[j].expiresAt
          /\ row.idleExpiresAt = sessions[j].idleExpiresAt
    <3>1. PICK j \in DOMAIN sessions : RevokeSession(j) \/ RevokeOthers(j)
      BY <1>8
    <3>2. sessions[j] \in SessionRow /\ account.version + 1 \in Nat
      BY <1>1 DEF Typed, AccountRow
    <3>3. CASE RevokeSession(j)
      <4> DEFINE row == [sessions[j] EXCEPT !.valid = FALSE]
      <4>1. row \in SessionRow /\ sessions' = [sessions EXCEPT ![j] = row]
        BY <3>2, <3>3 DEF RevokeSession, SessionRow
      <4> QED BY <3>2, <4>1 DEF SessionRow
    <3>4. CASE RevokeOthers(j)
      <4> DEFINE row == [sessions[j] EXCEPT !.userVersion = account.version + 1]
      <4>1. row \in SessionRow /\ sessions' = [sessions EXCEPT ![j] = row]
        BY <3>2, <3>4 DEF RevokeOthers, Promoted, SessionRow
      <4> QED BY <3>2, <4>1 DEF SessionRow
    <3> QED BY <3>1, <3>3, <3>4
  <2> QED BY <1>1, <1>6, <2>1 DEF Typed
<1>9. ASSUME \E v \in Validation : ExtendIdle(v) PROVE InsideDeadlines(s, clock)
  <2>1. PICK v \in Validation : ExtendIdle(v)
    BY <1>9
  <2> DEFINE j == validation[v].id
  <2>2. CASE i = j /\ Extensible(sessions[j], validation[v].now)
    <3>1. late' = IF InsideDeadlines(sessions[j], clock) THEN late ELSE late \cup {j}
      BY <2>1, <2>2 DEF ExtendIdle
    <3> QED BY <2>2, <3>1
  <2>3. CASE ~(i = j /\ Extensible(sessions[j], validation[v].now))
    BY <1>1, <1>7, <2>1, <2>3 DEF ExtendIdle, Typed
  <2> QED BY <2>2, <2>3
<1>10. ASSUME \E w \in SignInWorker : InsertBrowserSession(w)
       PROVE  InsideDeadlines(s, clock)
  BY <1>1, <1>7, <1>10 DEF InsertBrowserSession, Typed
<1>11. InsideDeadlines(s, clock)
  BY <1>7, <1>8, <1>9, <1>10
     DEF ANext, avars, SignIn, ReadAccountForIssuance, RequireEnabled, MarkAccountIssuance,
     RequireOrCreateGrant, AssertSessionLimit, EndSignIn, Reach,
     EndSessions, RevokeAllForUser, Deactivate, Reactivate,
     BlockGrant, DisableApplication, EnableApplication, Validate, ReadSession, ReadAccount,
     ReadApplication, ReadGrant, Read, Answer, Tick, Rest
<1> QED BY <1>2, <1>4, <1>11 DEF HoldsAuthority

LEMMA HoldingShrinks ==
  ASSUME IInv, [ANext]_avars, \A w \in SignInWorker : ~InsertBrowserSession(w)
  PROVE  /\ Holding(Client)' \subseteq Holding(Client)
         /\ Holding({AdminClient})' \subseteq Holding({AdminClient})
<1>1. Typed /\ Typed'
  BY NextIInv DEF IInv
<1>2. DOMAIN sessions' = DOMAIN sessions
  BY <1>1 DEF Typed, ANext, avars, SignIn, ReadAccountForIssuance, RequireEnabled,
     MarkAccountIssuance, RequireOrCreateGrant, AssertSessionLimit, EndSignIn, Reach,
     EndSessions, RevokeSession, RevokeOthers, Promoted, RevokeAllForUser, Deactivate,
     Reactivate, BlockGrant, DisableApplication, EnableApplication, Validate, ReadSession,
     ReadAccount, ReadApplication, ReadGrant, Read, Answer, ExtendIdle, Tick, Rest
<1>3. \A i \in DOMAIN sessions : i \notin late' /\ HoldsAuthority(i)' =>
        i \notin late /\ HoldsAuthority(i) /\ sessions'[i].client = sessions[i].client
  BY NothingGained
<1> QED BY <1>2, <1>3 DEF Holding

LEMMA InsertAddsOne ==
  ASSUME IInv, NEW w \in SignInWorker, InsertBrowserSession(w)
  PROVE  /\ Holding(Client)' \subseteq Holding(Client) \cup {Len(sessions) + 1}
         /\ Holding({AdminClient})' \subseteq Holding({AdminClient}) \cup {Len(sessions) + 1}
         /\ signIn[w].client # AdminClient
              => Holding({AdminClient})' \subseteq Holding({AdminClient})
<1> DEFINE n == Len(sessions) + 1
           row == NewSession(signIn[w].client, Versions(w), signIn[w].now)
<1>1. \E u \in SignInWorker : SignIn(u)
  BY DEF SignIn
<1>2. [ANext]_avars
  BY <1>1 DEF ANext
<1>3. DOMAIN sessions' = DOMAIN sessions \cup {n} /\ sessions'[n] = row
  <2>1. sessions \in Seq(SessionRow) /\ sessions' = Append(sessions, row)
    BY DEF InsertBrowserSession, Typed, IInv
  <2> QED BY <2>1
<1>4. sessions'[n].client = signIn[w].client
  BY <1>3 DEF NewSession
<1>5. \A i \in DOMAIN sessions : i \notin late' /\ HoldsAuthority(i)' =>
        i \notin late /\ HoldsAuthority(i) /\ sessions'[i].client = sessions[i].client
  BY <1>2, NothingGained
<1> QED BY <1>3, <1>4, <1>5 DEF Holding

(* Whoever finds room has counted every session there is.                  *)
LEMMA RoomFound ==
  ASSUME Backend = "postgres", IInv, NEW w \in SignInWorker,
         AssertSessionLimit(w), ~EndSignIn(w)
  PROVE  /\ Cardinality(Holding(Client)) < MaxSessions
         /\ signIn[w].client = AdminClient
              => Cardinality(Holding({AdminClient})) < MaxAdminSessions
<1> DEFINE active == ActiveSessions(Committed, signIn[w].user, clock)
           admin == {i \in active : sessions[i].client = AdminClient}
<1>1. Typed /\ Active(w) /\ signIn[w].user = account.version
  <2>1. Typed /\ Active(w)
    BY SignInActive DEF AssertSessionLimit, IInv
  <2> QED BY <2>1 DEF IInv, TakenNotRewritten, TakenKept
<1>2. Seen(w) = Committed
  BY DEF Seen
<1>3. ~LimitReached(active, sessions, signIn[w].client)
  BY <1>2 DEF AssertSessionLimit, Committed
<1>4. active = {i \in DOMAIN sessions : HoldsAuthority(i)}
  BY <1>1 DEF ActiveSessions, Committed, HoldsAuthority, StandsNow, Stands
<1>5. Holding(Client) \subseteq active /\ Holding({AdminClient}) \subseteq admin
  BY <1>4 DEF Holding
<1>6. IsFiniteSet(active) /\ IsFiniteSet(admin)
  <2>1. DOMAIN sessions = 1..Len(sessions) /\ Len(sessions) \in Int
    BY <1>1 DEF Typed
  <2>2. IsFiniteSet(DOMAIN sessions) /\ active \subseteq DOMAIN sessions
    BY <1>4, <2>1, FS_Interval
  <2>3. IsFiniteSet(active)
    BY <2>2, FS_Subset
  <2> QED BY <2>3, FS_Subset
<1>7. /\ Cardinality(active) \in Nat /\ Cardinality(admin) \in Nat
      /\ Cardinality(Holding(Client)) \in Nat /\ Cardinality(Holding({AdminClient})) \in Nat
      /\ Cardinality(Holding(Client)) <= Cardinality(active)
      /\ Cardinality(Holding({AdminClient})) <= Cardinality(admin)
  BY <1>1, <1>5, <1>6, FS_Subset, FS_CardinalityType, HoldingFinite
<1>8. MaxSessions \in Nat /\ MaxAdminSessions \in Nat
  BY PolicyAssumption
<1> QED BY <1>3, <1>7, <1>8 DEF LimitReached

(* Counting is a sign-in's own step: any other leaves it counted or not.   *)
LEMMA CountedBefore ==
  ASSUME IInv, [ANext]_avars, NEW w \in SignInWorker,
         Active(w)', signIn'[w].step = "counted"
  PROVE  \/ AssertSessionLimit(w) /\ ~EndSignIn(w) /\ signIn'[w].client = signIn[w].client
         \/ /\ Active(w) /\ signIn[w].step = "counted" /\ ~InsertBrowserSession(w)
            /\ signIn'[w].client = signIn[w].client
<1>1. Typed /\ Typed' /\ SignInsSound /\ Exclusive /\ FactsMoveOn
  BY InvSignIns, NextIInv DEF IInv
<1>2. ~EndSignIn(w) /\ ~InsertBrowserSession(w) /\ signIn'[w] # NoSignIn
  BY <1>1 DEF Active, EndSignIn, InsertBrowserSession, Typed
<1>3. ASSUME Carried(w) PROVE Active(w) /\ signIn[w].step = "counted"
                              /\ signIn'[w].client = signIn[w].client
  BY <1>3 DEF Carried
<1>4. CASE SignIn(w)
  <2>0. signIn[w].step # "none" => signIn[w] \in SignInRow
    BY <1>1, SignInActive
  <2>1. ~\E c \in Client : ReadAccountForIssuance(w, c)
    BY <1>1 DEF ReadAccountForIssuance, Typed
  <2>2. ~RequireEnabled(w)
    BY <1>1, <1>2, <2>0 DEF RequireEnabled, Typed, SignInRow
  <2>3. ~MarkAccountIssuance(w)
    BY <1>1, <1>2, <2>0 DEF MarkAccountIssuance, Reach, Typed, SignInRow
  <2>4. ~RequireOrCreateGrant(w)
    BY <1>1, <1>2, <2>0 DEF RequireOrCreateGrant, Typed, SignInRow
  <2>5. AssertSessionLimit(w)
    BY <1>2, <1>4, <2>1, <2>2, <2>3, <2>4 DEF SignIn
  <2>6. signIn'[w].client = signIn[w].client
    BY <1>1, <1>2, <2>0, <2>5 DEF AssertSessionLimit, Typed, SignInRow
  <2> QED BY <1>2, <2>5, <2>6
<1>5. ASSUME NEW u \in SignInWorker, SignIn(u), u # w PROVE Carried(w)
  <2>1. CASE InsertBrowserSession(u)
    BY <1>1, <1>5, <2>1, InsertCarried DEF SignInsSound
  <2>2. CASE ~InsertBrowserSession(u)
    <3>1. signIn'[w] = signIn[w] /\ UNCHANGED <<account, grant>>
      BY <1>1, <1>5, <2>2 DEF SignIn, ReadAccountForIssuance, RequireEnabled,
         MarkAccountIssuance, RequireOrCreateGrant, AssertSessionLimit, EndSignIn,
         Reach, Typed
    <3> QED BY <1>1, <3>1, UntouchedCarried DEF SignInsSound
  <2> QED BY <2>1, <2>2
<1>6. CASE EndSessions
  BY <1>1, <1>2, <1>3, <1>6, EndsKeepSignIns
<1>7. CASE \E v \in Validation : Validate(v)
  BY <1>1, <1>2, <1>3, <1>7, ChecksKeep, OthersKeepSignIns
<1>8. CASE Tick \/ UNCHANGED avars
  BY <1>1, <1>2, <1>3, <1>8, OthersKeepSignIns DEF Tick, avars
<1> QED BY <1>2, <1>3, <1>4, <1>5, <1>6, <1>7, <1>8 DEF ANext, Rest

LEMMA InsertKeepsCap ==
  ASSUME Backend = "postgres", CapInv, NEW w \in SignInWorker, InsertBrowserSession(w)
  PROVE  SessionCap' /\ RoomLeft'
<1>0. [ANext]_avars
  <2>1. \E u \in SignInWorker : SignIn(u)
    BY DEF SignIn
  <2> QED BY <2>1 DEF ANext
<1>1. Typed /\ Typed' /\ Exclusive /\ IInv
  BY <1>0, NextIInv DEF CapInv, IInv
<1>2. Active(w) /\ signIn[w].step = "counted"
  BY <1>1, SignInActive DEF InsertBrowserSession
<1>3. /\ Cardinality(Holding(Client)) < MaxSessions
      /\ signIn[w].client = AdminClient => Cardinality(Holding({AdminClient})) < MaxAdminSessions
      /\ Cardinality(Holding({AdminClient})) <= MaxAdminSessions
  BY <1>2 DEF CapInv, RoomLeft, SessionCap
<1>4. /\ Cardinality(Holding(Client)) \in Nat /\ IsFiniteSet(Holding(Client))
      /\ Cardinality(Holding({AdminClient})) \in Nat /\ IsFiniteSet(Holding({AdminClient}))
      /\ Cardinality(Holding(Client))' \in Nat /\ Cardinality(Holding({AdminClient}))' \in Nat
      /\ MaxSessions \in Nat /\ MaxAdminSessions \in Nat
  BY <1>1, HoldingsFinite, HoldingsFiniteNext, PolicyAssumption
<1>5. Cardinality(Holding(Client)') <= MaxSessions
  <2>1. Holding(Client)' \in SUBSET (Holding(Client) \cup {Len(sessions) + 1})
    BY <1>1, InsertAddsOne
  <2>2. Cardinality(Holding(Client)') <= Cardinality(Holding(Client)) + 1
    BY <1>4, <2>1, AddedOne
  <2> QED BY <1>3, <1>4, <2>2
<1>6. Cardinality(Holding({AdminClient})') <= MaxAdminSessions
  <2>1. CASE signIn[w].client = AdminClient
    <3>1. Holding({AdminClient})' \in SUBSET (Holding({AdminClient}) \cup {Len(sessions) + 1})
      BY <1>1, InsertAddsOne
    <3>2. Cardinality(Holding({AdminClient})') <= Cardinality(Holding({AdminClient})) + 1
      BY <1>4, <3>1, AddedOne
    <3> QED BY <1>3, <1>4, <2>1, <3>2
  <2>2. CASE signIn[w].client # AdminClient
    <3>1. Holding({AdminClient})' \in SUBSET Holding({AdminClient})
      BY <1>1, <2>2, InsertAddsOne
    <3>2. Cardinality(Holding({AdminClient})') <= Cardinality(Holding({AdminClient}))
      BY <1>4, <3>1, FS_Subset
    <3> QED BY <1>3, <1>4, <3>2
  <2> QED BY <2>1, <2>2
<1>7. RoomLeft'
  <2>1. ASSUME NEW u \in SignInWorker, Active(u)', signIn'[u].step = "counted" PROVE FALSE
    <3>1. u # w
      BY <2>1 DEF InsertBrowserSession, Active
    <3>2. Active(u)
      BY <2>1, <3>1 DEF InsertBrowserSession, Active
    <3> QED BY <1>1, <1>2, <3>1, <3>2, TakesAccount DEF Exclusive
  <2> QED BY <2>1 DEF RoomLeft
<1> QED BY <1>5, <1>6, <1>7 DEF SessionCap

LEMMA OthersKeepCap ==
  ASSUME Backend = "postgres", CapInv, [ANext]_avars,
         \A w \in SignInWorker : ~InsertBrowserSession(w)
  PROVE  SessionCap' /\ RoomLeft'
<1>1. IInv /\ Typed /\ Typed' /\ SessionCap /\ RoomLeft
  BY NextIInv DEF CapInv, IInv
<1>2. /\ Cardinality(Holding(Client)) \in Nat /\ IsFiniteSet(Holding(Client))
      /\ Cardinality(Holding({AdminClient})) \in Nat /\ IsFiniteSet(Holding({AdminClient}))
      /\ Cardinality(Holding(Client)') \in Nat /\ Cardinality(Holding({AdminClient})') \in Nat
      /\ MaxSessions \in Nat /\ MaxAdminSessions \in Nat
  BY <1>1, HoldingsFinite, HoldingsFiniteNext, PolicyAssumption
<1>3. /\ Holding(Client)' \in SUBSET Holding(Client)
      /\ Holding({AdminClient})' \in SUBSET Holding({AdminClient})
  BY <1>1, HoldingShrinks
<1>4. /\ Cardinality(Holding(Client)') <= Cardinality(Holding(Client))
      /\ Cardinality(Holding({AdminClient})') <= Cardinality(Holding({AdminClient}))
  BY <1>2, <1>3, FS_Subset
<1>5. SessionCap'
  BY <1>1, <1>2, <1>4 DEF SessionCap
<1>6. ASSUME NEW w \in SignInWorker, Active(w)', signIn'[w].step = "counted"
      PROVE  /\ Cardinality(Holding(Client)') < MaxSessions
             /\ signIn'[w].client = AdminClient
                  => Cardinality(Holding({AdminClient})') < MaxAdminSessions
  <2>1. CASE AssertSessionLimit(w) /\ ~EndSignIn(w) /\ signIn'[w].client = signIn[w].client
    BY <1>1, <1>2, <1>4, <2>1, RoomFound
  <2>2. CASE /\ Active(w) /\ signIn[w].step = "counted"
             /\ signIn'[w].client = signIn[w].client
    BY <1>1, <1>2, <1>4, <2>2 DEF RoomLeft
  <2> QED BY <1>1, <1>6, <2>1, <2>2, CountedBefore
<1> QED BY <1>5, <1>6 DEF RoomLeft

(* On PostgreSQL, however sign-ins, extensions and revocations interleave, *)
(* the account never has more sessions with authority than the caps of     *)
(* assertSessionLimit.  On MongoDB it may (MCMongoSessionCap).             *)
THEOREM CapsHoldOnPostgres ==
  ASSUME Backend = "postgres" PROVE ASpec => []SessionCap
<1>1. AInit => CapInv
  <2> SUFFICES ASSUME AInit PROVE CapInv
    OBVIOUS
  <2>1. IInv /\ \A w \in SignInWorker : ~Active(w)
    BY InitIInv DEF AInit, Active
  <2>2. Holding(Client) = {} /\ Holding({AdminClient}) = {}
    BY DEF Holding, AInit
  <2>3. Cardinality({}) = 0 /\ MaxSessions \in Nat /\ MaxAdminSessions \in Nat
    BY FS_EmptySet, PolicyAssumption
  <2> QED BY <2>1, <2>2, <2>3 DEF CapInv, SessionCap, RoomLeft
<1>2. CapInv /\ [ANext]_avars => CapInv'
  <2> SUFFICES ASSUME CapInv, [ANext]_avars PROVE CapInv'
    OBVIOUS
  <2>1. IInv'
    BY NextIInv DEF CapInv
  <2>2. SessionCap' /\ RoomLeft'
    BY InsertKeepsCap, OthersKeepCap
  <2> QED BY <2>1, <2>2 DEF CapInv
<1>3. CapInv => SessionCap
  BY DEF CapInv
<1> QED BY <1>1, <1>2, <1>3, PTL DEF ASpec
=============================================================================
