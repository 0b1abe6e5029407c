-------------------------- MODULE PasskeyCeremonies -------------------------
(***************************************************************************)
(* Passkeys on PostgreSQL: the challenges that are handed out and spent,   *)
(* the sign-in and the second factor by an assertion, and registration in  *)
(* a browser or a mobile app (PasskeyChallengeService,                     *)
(* PasskeyAssertionService, PasskeyLoginService,                           *)
(* PasskeySecondFactorVerifier, PasskeyRegistrationService,                *)
(* NativePasskeyRegistrationService, PasskeyRecorder and their stores).    *)
(*                                                                         *)
(* Every statement of a store is a step.  A challenge's cookie is signed,  *)
(* so it says what its row said, and it can be sent again and from another *)
(* session.  A request carries a signature that verifies; who signs is the *)
(* holder of the key or of a copy of it, so counters come in any order.    *)
(* The other ways to sign in only open held sign-ins here, which do not    *)
(* expire; SecondFactor has their life.                                    *)
(***************************************************************************)
EXTENDS Integers, Sequences, FiniteSets

CONSTANTS
  Work, Kind,      \* requests, and what they may ask for
  Chal,            \* passkey_challenges
  Held,            \* two_factor_challenges
  Key,             \* credential ids
  User,
  Session, OwnerOf, \* sessions that register passkeys, and their accounts
  Native,          \* the sessions that belong to a mobile app
  Registered,      \* keys of the web that are stored at first
  FirstOwner,      \* and the account they belong to
  WithFactor,      \* accounts whose second factor is on at first
  MaxCounter,      \* counters that are signed
  Verifies,        \* whether keys verify their user
  MaxAttempts,     \* TWO_FACTOR_MAX_CHALLENGE_ATTEMPTS
  ChallengeTtl,    \* PASSKEY_CHALLENGE_TTL_MS
  MaxTime, None

CeremonyAssumption ==
  /\ {MaxCounter, MaxAttempts, ChallengeTtl, MaxTime} \subseteq Nat
  /\ OwnerOf \in [Session -> User] /\ Native \subseteq Session
  /\ Registered \subseteq Key /\ FirstOwner \in User /\ WithFactor \subseteq User
  /\ Kind \subseteq {"login", "second", "register"} /\ Verifies \subseteq BOOLEAN
  /\ None \notin Work \cup User \cup Held \cup Chal \cup Session

VARIABLES
  now,
  chal,     \* the challenges, with what their cookie says
  key,      \* passkeys, by credential id
  held,     \* sign-ins that are held for a second factor
  active,   \* accounts that are not deactivated
  factor,   \* accounts whose second factor is on
  work,     \* the requests, with what they read
  uses,     \* assertions that were accepted, in their order
  made,     \* registrations that were stored
  sessions  \* requests that were given a session

vars == <<now, chal, key, held, active, factor, work, uses, made, sessions>>

NoChal == [state |-> "new", purpose |-> "none", user |-> None, session |-> None, exp |-> 0]
NoKey == [owner |-> None, counter |-> 0, web |-> TRUE, made |-> None]
NoHeld == [state |-> "new", user |-> None, first |-> "none", attempts |-> 0]
NoWork == [kind |-> "none", pc |-> "idle", chal |-> None, key |-> None, n |-> 0,
           uv |-> FALSE, session |-> None, held |-> None, read |-> NoKey, owed |-> FALSE]

Init ==
  /\ now = 0 /\ chal = [c \in Chal |-> NoChal] /\ held = [h \in Held |-> NoHeld]
  /\ key = [k \in Key |-> IF k \in Registered THEN [NoKey EXCEPT !.owner = FirstOwner]
                          ELSE NoKey]
  /\ active = User /\ factor = WithFactor
  /\ work = [w \in Work |-> NoWork]
  /\ uses = <<>> /\ made = {} /\ sessions = {}

Goto(w, pc) == work' = [work EXCEPT ![w].pc = pc]
store == <<now, chal, key, held, active, factor>>
ghosts == <<uses, made, sessions>>

(***************************************************************************)
(* Challenges.                                                             *)
(***************************************************************************)

Issued(purpose, u, s) ==
  [state |-> "open", purpose |-> purpose, user |-> u, session |-> s,
   exp |-> now + ChallengeTtl]

(* createOptions of a sign-in: anybody may ask. *)
LoginOptions(c) ==
  /\ Kind \cap {"login", "second"} # {} /\ chal[c].state = "new"
  /\ chal' = [chal EXCEPT ![c] = Issued("login", None, None)]
  /\ UNCHANGED <<now, key, held, active, factor, work, ghosts>>

(* createOptions of a registration, for a session that proved itself again. *)
RegistrationOptions(c, s) ==
  /\ "register" \in Kind /\ chal[c].state = "new" /\ OwnerOf[s] \in active
  /\ chal' = [chal EXCEPT ![c] = Issued(IF s \in Native THEN "nativeRegister"
                                         ELSE "register", OwnerOf[s], s)]
  /\ UNCHANGED <<now, key, held, active, factor, work, ghosts>>

(* Fault: a challenge is looked up and not removed. *)
ChallengeLeft(c) == UNCHANGED chal

SpendChallenge(c) == chal' = [chal EXCEPT ![c].state = "gone"]

(* The purpose a request asks for; a mobile app's challenge is found by a  *)
(* digest that names the session and the account too.                      *)
PurposeOf(w) == IF work[w].kind # "register" THEN "login"
                ELSE IF work[w].session \in Native THEN "nativeRegister" ELSE "register"

Found(w) ==
  LET c == chal[work[w].chal] IN
  /\ c.purpose = PurposeOf(w)
  /\ c.purpose = "nativeRegister" => c.session = work[w].session

(* consume: the row is deleted while it has not expired.                   *)
Consume(w) ==
  LET c == work[w].chal IN
  /\ work[w].pc = "consume"
  /\ IF chal[c].state = "open" /\ Found(w) /\ chal[c].exp > now
     THEN SpendChallenge(c) /\ Goto(w, IF work[w].kind = "register" THEN "compare" ELSE "find")
     ELSE Goto(w, "failed") /\ UNCHANGED chal
  /\ UNCHANGED <<now, key, held, active, factor, ghosts>>

(***************************************************************************)
(* An assertion: PasskeyAssertionService.verify.                           *)
(***************************************************************************)

(* A cookie's own word is checked before its row is looked for.            *)
Cookie(c, purpose) == chal[c].purpose = purpose /\ chal[c].exp > now

(* A sign-in arrives with a signature of challenge c by key k. *)
Present(w, c, k, n, uv) ==
  /\ "login" \in Kind /\ work[w].pc = "idle" /\ Cookie(c, "login")
  /\ work' = [work EXCEPT ![w] = [@ EXCEPT !.kind = "login", !.pc = "consume",
                !.chal = c, !.key = k, !.n = n, !.uv = uv]]
  /\ UNCHANGED <<store, ghosts>>

(* Fault: a sign-in another request is working on is claimed again. *)
ClaimableTwice(h) == held[h].state # "new" /\ held[h].attempts < MaxAttempts

Claimable(h) == held[h].state = "open" /\ held[h].attempts < MaxAttempts

(* The answer to a held sign-in claims it first ... *)
Answer(w, h, c, k, n, uv) ==
  /\ "second" \in Kind /\ work[w].pc = "idle" /\ chal[c].purpose = "login"
  /\ Claimable(h)
  /\ held' = [held EXCEPT ![h].state = "claimed"]
  /\ work' = [work EXCEPT ![w] = [@ EXCEPT !.kind = "second", !.pc = "account",
                !.chal = c, !.key = k, !.n = n, !.uv = uv, !.held = h]]
  /\ UNCHANGED <<now, chal, key, active, factor, ghosts>>

(* ... and finds its account, still active and with a second factor.       *)
FindChallengedAccount(w) ==
  LET h == work[w].held IN
  /\ work[w].pc = "account"
  /\ IF held[h].user \in active \cap factor
     THEN /\ Goto(w, IF Cookie(work[w].chal, "login") THEN "consume" ELSE "failed")
          /\ UNCHANGED held
     ELSE held' = [held EXCEPT ![h].state = "gone"] /\ Goto(w, "refused")
  /\ UNCHANGED <<now, chal, key, active, factor, ghosts>>

(* assertCounterMovedForward. *)
MovedForward(stored, n) == ~(stored > 0 /\ n <= stored)

(* findByCredentialId: of the web's relying party, and the signed counter  *)
(* has moved on from the one that is read.                                 *)
FindByCredentialId(w) ==
  LET k == key[work[w].key] IN
  /\ work[w].pc = "find"
  /\ work' = [work EXCEPT ![w].read = k,
       ![w].pc = IF k.owner # None /\ k.web /\ MovedForward(k.counter, work[w].n)
                 THEN "advance" ELSE "failed"]
  /\ UNCHANGED <<store, ghosts>>

(* Fault: the counter is stored whatever it is by now. *)
CounterAnyway(w) == TRUE

(* advanceCounter: the stored counter is still the one that was read.      *)
CounterStands(w) ==
  LET k == key[work[w].key] IN
  k.owner # None /\ k.made = work[w].read.made /\ k.counter = work[w].read.counter

Counts(w) == work[w].read.counter > 0 \/ work[w].n > 0

(* Fault: a key that verified nobody answers for a sign-in it opened. *)
OwnKeyAnswers(w) == work[w].read.owner = held[work[w].held].user

(* PasskeySecondFactorVerifier: the account's own key, and one that        *)
(* verified its user when the first step was a passkey.                    *)
AnswersHeld(w) ==
  /\ work[w].read.owner = held[work[w].held].user
  /\ work[w].uv \/ held[work[w].held].first # "passkey"

(* A key that counts has its counter moved on; one that does not is only   *)
(* marked as used.                                                         *)
Advance(w) ==
  LET x == work[w] IN
  /\ x.pc = "advance"
  /\ IF Counts(w) /\ ~CounterStands(w)
     THEN Goto(w, "failed") /\ UNCHANGED <<key, uses>>
     ELSE /\ key' = IF Counts(w) THEN [key EXCEPT ![x.key].counter = x.n] ELSE key
          /\ uses' = Append(uses, [by |-> w, chal |-> x.chal, key |-> x.key,
                                   made |-> x.read.made, n |-> x.n])
          /\ Goto(w, IF x.kind = "login" THEN "load"
                     ELSE IF AnswersHeld(w) THEN "discard" ELSE "failed")
  /\ UNCHANGED <<now, chal, held, active, factor, made, sessions>>

(***************************************************************************)
(* The end of a sign-in.                                                   *)
(***************************************************************************)

(* findAccount: with user verification there is a session; without, an     *)
(* account with a second factor still owes it.                             *)
FindAccount(w) ==
  LET u == work[w].read.owner IN
  /\ work[w].pc = "load"
  /\ work' = [work EXCEPT ![w].owed = (u \in factor),
       ![w].pc = IF u \notin active THEN "refused"
                 ELSE IF work[w].uv \/ u \notin factor THEN "issue" ELSE "hold"]
  /\ UNCHANGED <<store, ghosts>>

(* completeSignIn holds the sign-in; another way to sign in may as well.   *)
Hold(w, h) ==
  /\ work[w].pc = "hold" /\ held[h].state = "new"
  /\ held' = [held EXCEPT ![h] = [NoHeld EXCEPT !.state = "open", !.first = "passkey",
                                                !.user = work[w].read.owner]]
  /\ Goto(w, "held") /\ UNCHANGED <<now, chal, key, active, factor, ghosts>>

HoldOther(h, u) ==
  /\ "second" \in Kind /\ held[h].state = "new" /\ u \in active \cap factor
  /\ held' = [held EXCEPT ![h] = [NoHeld EXCEPT !.state = "open", !.first = "password",
                                                !.user = u]]
  /\ UNCHANGED <<now, chal, key, active, factor, work, ghosts>>

(* The held sign-in is removed, and then there is a session. *)
Discard(w) ==
  /\ work[w].pc = "discard"
  /\ held' = [held EXCEPT ![work[w].held].state = "gone"]
  /\ Goto(w, "issue") /\ UNCHANGED <<now, chal, key, active, factor, ghosts>>

AccountOf(w) == IF work[w].kind = "second" THEN held[work[w].held].user
                ELSE work[w].read.owner

(* issueSession, which refuses a deactivated account. *)
IssueSession(w) ==
  /\ work[w].pc = "issue"
  /\ IF AccountOf(w) \in active
     THEN sessions' = sessions \cup {w} /\ Goto(w, "done")
     ELSE UNCHANGED sessions /\ Goto(w, "refused")
  /\ UNCHANGED <<store, uses, made>>

(* A refused answer is counted and the held sign-in given back; one that   *)
(* is out of attempts goes.                                                *)
RegisterFailure(w) ==
  LET h == work[w].held IN
  /\ work[w].pc = "failed" /\ Goto(w, "refused")
  /\ held' = IF work[w].kind = "second" /\ held[h].state # "gone"
             THEN [held EXCEPT ![h].attempts = @ + 1,
                     ![h].state = IF held[h].attempts + 1 >= MaxAttempts THEN "gone" ELSE "open"]
             ELSE held
  /\ UNCHANGED <<now, chal, key, active, factor, ghosts>>

(***************************************************************************)
(* Registration.                                                           *)
(***************************************************************************)

(* A session sends a new credential, signed for challenge c.  In a browser *)
(* the cookie's own word is checked first.                                 *)
Attest(w, s, c, k, n) ==
  /\ "register" \in Kind /\ work[w].pc = "idle" /\ chal[c].state # "new"
  /\ s \notin Native => Cookie(c, "register")
  /\ work' = [work EXCEPT ![w] = [@ EXCEPT !.kind = "register", !.pc = "consume",
                !.chal = c, !.key = k, !.n = n, !.session = s]]
  /\ UNCHANGED <<store, ghosts>>

(* Fault: the session that sends the cookie is not compared. *)
OwnAccount(w) == chal[work[w].chal].user = OwnerOf[work[w].session]

(* A browser's cookie names the account and the session. *)
HandedTo(w) == /\ chal[work[w].chal].user = OwnerOf[work[w].session]
               /\ chal[work[w].chal].session = work[w].session

(* After the challenge is spent; the attestation verifies, and nobody has  *)
(* the credential yet.                                                     *)
Compare(w) ==
  /\ work[w].pc = "compare"
  /\ Goto(w, IF (work[w].session \in Native \/ HandedTo(w)) /\ key[work[w].key].owner = None
             THEN "record" ELSE "refused")
  /\ UNCHANGED <<store, ghosts>>

(* Fault: the account is not read again. *)
StandingUnread(w) == TRUE

(* readStanding shares the account's row to the end. *)
Stands(w) == OwnerOf[work[w].session] \in active

(* PasskeyRecorder.record: standing, unique credential, insert, commit.    *)
Record(w) ==
  LET x == work[w] IN
  /\ x.pc = "record"
  /\ IF Stands(w) /\ key[x.key].owner = None
     THEN /\ key' = [key EXCEPT ![x.key] = [owner |-> OwnerOf[x.session], counter |-> x.n,
                                            web |-> x.session \notin Native, made |-> w]]
          /\ made' = made \cup {w} /\ Goto(w, "done")
     ELSE Goto(w, "refused") /\ UNCHANGED <<key, made>>
  /\ UNCHANGED <<now, chal, held, active, factor, uses, sessions>>

(***************************************************************************)
(* What else happens.                                                      *)
(***************************************************************************)

(* A passkey is removed; whether it may be is in SignInMethods.            *)
Remove(k) ==
  /\ key[k].owner # None /\ key' = [key EXCEPT ![k] = NoKey]
  /\ UNCHANGED <<now, chal, held, active, factor, work, ghosts>>

Deactivate(u) ==
  /\ u \in active /\ active' = active \ {u}
  /\ UNCHANGED <<now, chal, key, held, factor, work, ghosts>>

(* confirmWithSession, which ends the account's other sessions. *)
TurnFactorOn(u) ==
  /\ u \in active \ factor /\ factor' = factor \cup {u}
  /\ UNCHANGED <<now, chal, key, held, active, work, ghosts>>

(* A process stops: what its request did so far stays. *)
Stop(w) ==
  /\ work[w].pc \notin {"idle", "done", "refused", "held", "stopped"}
  /\ Goto(w, "stopped") /\ UNCHANGED <<store, ghosts>>

Tick == /\ now < MaxTime /\ now' = now + 1
        /\ UNCHANGED <<chal, key, held, active, factor, work, ghosts>>

Next ==
  \/ \E w \in Work :
       \/ Consume(w) \/ FindChallengedAccount(w) \/ FindByCredentialId(w) \/ Advance(w)
       \/ FindAccount(w) \/ Discard(w) \/ IssueSession(w) \/ RegisterFailure(w)
       \/ Compare(w) \/ Record(w) \/ Stop(w)
       \/ \E h \in Held : Hold(w, h)
       \/ \E c \in Chal, k \in Key, n \in 0..MaxCounter :
            \/ \E uv \in Verifies : \/ Present(w, c, k, n, uv)
                                    \/ \E h \in Held : Answer(w, h, c, k, n, uv)
            \/ \E s \in Session : Attest(w, s, c, k, n)
  \/ \E c \in Chal : LoginOptions(c) \/ \E s \in Session : RegistrationOptions(c, s)
  \/ \E h \in Held, u \in User : HoldOther(h, u)
  \/ \E k \in Key : Remove(k)
  \/ \E u \in User : Deactivate(u) \/ TurnFactorOn(u)
  \/ Tick

Spec == Init /\ [][Next]_vars

(***************************************************************************)
(* Properties.                                                             *)
(***************************************************************************)

(* Types; a held sign-in is worked on by one request at most, and counts   *)
(* no more refused answers than it may.                                    *)
TypeOK ==
  /\ now \in 0..MaxTime /\ active \subseteq User /\ factor \subseteq User
  /\ \A k \in Key : key[k].owner \in User \cup {None} /\ key[k].counter \in 0..MaxCounter
  /\ \A h \in Held :
       /\ held[h].attempts \in 0..MaxAttempts
       /\ Cardinality({w \in Work : work[w].held = h /\ work[w].pc \in
            {"account", "consume", "find", "advance", "discard"}}) <= 1

(* A challenge is good for one ceremony: one accepted assertion or one     *)
(* stored key, however many requests send a copy of its cookie (consume).  *)
OneUsePerChallenge ==
  /\ \A i, j \in DOMAIN uses : uses[i].chal = uses[j].chal => i = j
  /\ \A v, w \in made : work[v].chal = work[w].chal => v = w
  /\ \A i \in DOMAIN uses, w \in made : uses[i].chal # work[w].chal

SameKey(i, j) == uses[i].key = uses[j].key /\ uses[i].made = uses[j].made

(* Of a key and its copy that count, no two signatures with one counter    *)
(* are accepted, and none behind one that was accepted before              *)
(* (assertCounterMovedForward, advanceCounter).                            *)
CountersIncrease ==
  \A i, j \in DOMAIN uses :
    i < j /\ SameKey(i, j) /\ uses[i].n > 0 /\ uses[j].n > 0 => uses[i].n < uses[j].n

(* A session of an account that owed a second factor had one: the key      *)
(* verified its user, or a key of the account answered for a first step    *)
(* that was none (PasskeyLoginService, PasskeySecondFactorVerifier).  And  *)
(* each held sign-in gives one session.                                    *)
TwoFactorsShown ==
  \A w \in sessions :
    /\ \E i \in DOMAIN uses : uses[i].by = w
    /\ work[w].kind = "login" => (work[w].owed => work[w].uv)
    /\ work[w].kind = "second" =>
         /\ work[w].read.owner = held[work[w].held].user
         /\ work[w].uv \/ held[work[w].held].first = "password"
         /\ \A v \in sessions : work[v].held = work[w].held => v = w

(* A passkey is stored for the session that proved itself for its          *)
(* challenge, and for no other session or account.                         *)
RegisteredWhereProved ==
  \A w \in made :
    LET c == chal[work[w].chal] IN
    c.session = work[w].session /\ c.user = OwnerOf[work[w].session]

(* An account deactivated after its options were handed out gets no        *)
(* passkey (PasskeyRecorder).                                              *)
StandingGetsKey ==
  \A k \in Key : key[k].owner = None /\ key'[k].owner # None =>
    key'[k].owner \in active

(* An account with a confirmed second factor gets no session by a first    *)
(* step alone (SignInCompletion.completeSignIn): the confirmation ended    *)
(* the sessions there were, and the next one has both.                     *)
SecondFactorOwed ==
  \A w \in sessions' \ sessions :
    work[w].kind = "login" /\ ~work[w].uv => AccountOf(w) \notin factor
=============================================================================
