---------------------------- MODULE NativeAttempts --------------------------
(***************************************************************************)
(* One attempt of a native application at a sign-in, a registration or a   *)
(* password recovery on PostgreSQL: NativeAttemptService, its store, the   *)
(* password, the mailed code and link, the second factor and the consent.  *)
(*                                                                         *)
(* Many requests may work on the attempt at once.  Its row has a revision  *)
(* and names the operation that has claimed it; every change asks for the  *)
(* revision the request has read.  Some requests claim in a statement of   *)
(* their own, others inside their unit of work, where the row then stays   *)
(* locked.  Reads in a row that only refuse are one step, and so are the   *)
(* last writes of a unit of work and its commit.                           *)
(*                                                                         *)
(* An account stands for its mail address too.  A mailed code is named by  *)
(* the request that stored it; the link in the same mail has the same      *)
(* name.  How wrong second factors are counted is in SecondFactor, how     *)
(* codes of a registration or a recovery are limited in PendingCodes.      *)
(***************************************************************************)
EXTENDS Integers, FiniteSets

CONSTANTS
  Work, Kind,   \* requests, and what they may ask for
  User,
  Registered, WithFactor, \* accounts that exist at first; that have a second factor
  Flow,         \* NATIVE_ATTEMPT_FLOW
  Lifetime,     \* ATTEMPT_LIFETIME_MS
  MailLifetime, \* emailCode.expiresIn
  ReplyLifetime,\* AUTHORIZATION_CODE_LIFETIME_MS
  GuessLimit,   \* EMAIL_CODE_GUESS_LIMIT
  Passes,       \* END_ATTEMPT_PASSES
  MaxTime, MaxChanges,  \* bounds
  None

AttemptAssumption ==
  /\ {Lifetime, MailLifetime, ReplyLifetime, GuessLimit, Passes,
      MaxTime, MaxChanges} \subseteq Nat
  /\ WithFactor \subseteq Registered /\ Registered \subseteq User
  /\ Flow \in {"signIn", "registration", "recovery"}
  /\ Kind \subseteq {"password", "mail", "code", "link", "factor", "consent", "cancel"}
  /\ None \notin Work \cup User

VARIABLES
  now,
  att,       \* the row of native_attempts
  mailed,    \* the row of email_codes (or of the pending code): its code
  acct,      \* [User -> [exists, live, version, two]]
  recovery,  \* accounts whose recovery code is not used
  app,       \* [enabled, version]
  grant,     \* [User -> [allowed, version] or NoGrant]
  work,      \* the requests, with what they have read
  codes,     \* authorization codes that were stored
  changes,   \* versions moved so far
  withdrawn, \* was the authority of the verified account withdrawn since
  resets     \* passwords that were replaced

vars == <<now, att, mailed, acct, recovery, app, grant, work, codes, changes,
          withdrawn, resets>>
rows == <<att, mailed, acct, recovery, app, grant, codes, changes, withdrawn, resets>>

NoGrant == [allowed |-> FALSE, version |-> -1]
FirstGrant == [allowed |-> TRUE, version |-> 0]
NotVerified == [user |-> None, uv |-> 0, cv |-> 0, gv |-> 0, second |-> "none", by |-> None]
NewAttempt == [phase |-> "firstFactorRequired", rev |-> 0, op |-> None,
               verified |-> NotVerified, address |-> None, gen |-> None,
               link |-> None, reply |-> 0]
NoMailed == [code |-> None, spent |-> TRUE, guesses |-> 0, exp |-> 0]
NoWork == [kind |-> "none", pc |-> "idle", user |-> None, uv |-> 0, cv |-> 0, two |-> FALSE,
           seen |-> NewAttempt, stored |-> NoMailed, pass |-> 0, code |-> None]

Init ==
  /\ now = 0 /\ att = NewAttempt /\ mailed = NoMailed
  /\ acct = [u \in User |-> [exists |-> u \in Registered, live |-> u \in Registered,
                             version |-> 0, two |-> u \in WithFactor]]
  /\ recovery = WithFactor /\ app = [enabled |-> TRUE, version |-> 0]
  /\ grant = [u \in User |-> NoGrant]
  /\ work = [w \in Work |-> NoWork]
  /\ codes = {} /\ changes = 0 /\ withdrawn = FALSE /\ resets = {}

(***************************************************************************)
(* The row of the attempt.                                                 *)
(***************************************************************************)

Terminal == {"denied", "codeReady", "recoveryComplete"}
SentPhase == IF Flow = "signIn" THEN "emailLinkSent"
             ELSE IF Flow = "registration" THEN "registrationCodeRequired"
             ELSE "recoveryCodeRequired"

(* Units of work that have claimed the row and not ended. *)
HoldsAttempt(w) == work[w].kind \in {"code", "link", "consent"}
                   /\ work[w].pc \in {"judge", "finish"}
RowFree(w) == ~\E v \in Work \ {w} : HoldsAttempt(v)

(* guarded: not expired, not ended, and not changed since it was read. *)
Guarded(w) == now < Lifetime /\ att.phase \notin Terminal /\ att.rev = work[w].seen.rev

Authenticated == now < Lifetime

Goto(w, pc) == work' = [work EXCEPT ![w].pc = pc]
Only(w, pc) == Goto(w, pc) /\ UNCHANGED <<rows, now>>

(* NativeAttemptService.claim: read, and claimed in one statement. *)
Claim(w, kind, phases) ==
  /\ kind \in Kind /\ work[w].pc = "idle" /\ Authenticated
  /\ att.phase \in phases /\ att.op = None /\ RowFree(w)
  /\ att' = [att EXCEPT !.op = w, !.rev = @ + 1]
  /\ work' = [work EXCEPT ![w].kind = kind, ![w].pc = "claimed", ![w].seen = att']
  /\ UNCHANGED <<now, mailed, acct, recovery, app, grant, codes, changes, withdrawn,
                 resets>>

(* Fault: the claim is given up whoever has it. *)
ReleaseAnyway(w) ==
  /\ work[w].pc = "release" /\ RowFree(w)
  /\ att' = [work[w].seen EXCEPT !.op = None, !.rev = @ + 1]
  /\ Goto(w, "refused")
  /\ UNCHANGED <<now, mailed, acct, recovery, app, grant, codes, changes, withdrawn,
                 resets>>

(* release, after any failure. *)
Release(w) ==
  /\ work[w].pc = "release" /\ RowFree(w)
  /\ att' = IF Guarded(w) /\ att.op = w THEN [att EXCEPT !.op = None, !.rev = @ + 1]
            ELSE att
  /\ Goto(w, "refused")
  /\ UNCHANGED <<now, mailed, acct, recovery, app, grant, codes, changes, withdrawn,
                 resets>>

(* Fault: only the time is asked for. *)
MovesAnyway(w) == now < Lifetime

(* transition, with the operation that has claimed the row. *)
Moves(w) == IF HoldsAttempt(w) THEN now < Lifetime ELSE Guarded(w) /\ att.op = w
Moved(w, next) == [next EXCEPT !.op = None, !.rev = work[w].seen.rev + 1]

(* The request is answered, which may fail and then releases. *)
View(w) == /\ work[w].pc = "view"
           /\ \/ Only(w, "done")
              \/ work[w].kind \in {"password", "factor"} /\ Only(w, "release")

(***************************************************************************)
(* Mail with a code, and a link in a sign-in.                              *)
(***************************************************************************)

(* issue stores the code; one that is not mailed is stored as spent. *)
Put(w, u, sent) ==
  /\ work[w].pc = "claimed" /\ work[w].kind = "mail"
  /\ mailed' = [mailed EXCEPT !.code = w, !.spent = ~sent, !.exp =
       IF now + MailLifetime < Lifetime THEN now + MailLifetime ELSE Lifetime]
  /\ work' = [work EXCEPT ![w].pc = "commit", ![w].user = u, ![w].stored = mailed']
  /\ UNCHANGED <<now, att, acct, recovery, app, grant, codes, changes, withdrawn,
                 resets>>

Sent(w) ==
  /\ work[w].pc = "commit" /\ RowFree(w)
  /\ IF Moves(w)
     THEN /\ att' = Moved(w, [work[w].seen EXCEPT !.phase = SentPhase, !.gen = w,
                       !.address = work[w].user,
                       !.link = IF Flow = "signIn" THEN w ELSE None])
          /\ Goto(w, "done")
     ELSE Goto(w, "release") /\ UNCHANGED att
  /\ UNCHANGED <<now, mailed, acct, recovery, app, grant, codes, changes, withdrawn,
                 resets>>

(* Another request for the address stores its own code.  (The code of a    *)
(* sign-in belongs to the attempt.)                                        *)
Elsewhere(w) ==
  /\ Flow # "signIn" /\ "mail" \in Kind /\ work[w].pc = "idle"
  /\ mailed' = [mailed EXCEPT !.code = w, !.spent = FALSE, !.exp = now + MailLifetime]
  /\ Goto(w, "done")
  /\ UNCHANGED <<now, att, acct, recovery, app, grant, codes, changes, withdrawn,
                 resets>>

(* Fault: a code is good whatever the attempt was promised. *)
CommittedToAny(a, stored) == stored.code # None

(* The attempt commits to this code. *)
Committed(a, stored) == a.gen # None /\ a.gen = stored.code

(* verify, activate, confirm: the attempt and the code are read ... *)
FindCode(w) ==
  /\ "code" \in Kind /\ work[w].pc = "idle" /\ Authenticated
  /\ att.phase = SentPhase /\ Committed(att, mailed)
  /\ work' = [work EXCEPT ![w].kind = "code", ![w].pc = "guess", ![w].seen = att,
                          ![w].stored = mailed]
  /\ UNCHANGED <<rows, now>>

Live(stored) == ~stored.spent /\ stored.guesses < GuessLimit /\ stored.exp > now

(* ... and a right one goes on. *)
RightGuess(w) ==
  /\ work[w].pc = "guess"
  /\ Only(w, IF Live(work[w].stored) THEN "account" ELSE "refused")

(* countWrongGuess: a wrong one is counted; the last one spends the code   *)
(* and ends the attempt.  (In the other flows PendingCodes counts it.)     *)
WrongGuess(w) ==
  /\ work[w].pc = "guess"
  /\ IF Flow # "signIn" THEN Goto(w, "refused") /\ UNCHANGED mailed
     ELSE /\ ~\E v \in Work : work[v].kind = "code" /\ work[v].pc = "finish"
          /\ mailed' = [mailed EXCEPT !.guesses = @ + 1,
                                      !.spent = @ \/ mailed.guesses + 1 >= GuessLimit]
          /\ work' = [work EXCEPT ![w].pc =
               IF mailed.guesses + 1 >= GuessLimit THEN "ask" ELSE "refused"]
  /\ UNCHANGED <<now, att, acct, recovery, app, grant, codes, changes, withdrawn,
                 resets>>

(* cancel reads the attempt ... *)
Ask(w) ==
  /\ \/ work[w].pc = "ask"
     \/ "cancel" \in Kind /\ work[w].pc = "idle"
  /\ IF Authenticated
     THEN work' = [work EXCEPT ![w].kind = IF @ = "none" THEN "cancel" ELSE @,
                               ![w].pc = "cancel", ![w].seen = att]
     ELSE Goto(w, "refused")
  /\ UNCHANGED <<rows, now>>

(* ... and ends it, claimed or not.  One that ran out of guesses asks once *)
(* more when something has moved it.                                       *)
Cancel(w) ==
  LET x == work[w] IN
  /\ x.pc = "cancel" /\ RowFree(w)
  /\ IF Guarded(w)
     THEN /\ att' = [att EXCEPT !.phase = "denied", !.op = None, !.rev = @ + 1]
          /\ Goto(w, "cancelled")
     ELSE /\ work' = [work EXCEPT ![w].pass = @ + 1, ![w].pc =
               IF x.kind = "code" /\ x.pass + 1 < Passes THEN "ask" ELSE "refused"]
          /\ UNCHANGED att
  /\ UNCHANGED <<now, mailed, acct, recovery, app, grant, codes, changes, withdrawn,
                 resets>>

(* The link is read with the attempt. *)
FindLink(w) ==
  /\ "link" \in Kind /\ work[w].pc = "idle" /\ Authenticated
  /\ att.phase = "emailLinkSent" /\ att.link # None
  /\ work' = [work EXCEPT ![w].kind = "link", ![w].pc = "account", ![w].seen = att]
  /\ UNCHANGED <<rows, now>>

(* A recovery reads the account before its unit of work. *)
FindActive(w) ==
  LET u == work[w].seen.address IN
  /\ work[w].pc = "account"
  /\ IF Flow = "recovery" /\ ~acct[u].live THEN Only(w, "refused")
     ELSE /\ work' = [work EXCEPT ![w].pc = "claimIn", ![w].user = u,
                                  ![w].uv = acct[u].version]
          /\ UNCHANGED <<rows, now>>

(***************************************************************************)
(* Units of work.                                                          *)
(***************************************************************************)

(* The proof still holds for the attempt as it is claimed now. *)
ProofHolds(w) ==
  /\ att.phase = SentPhase /\ att.op = None /\ att.address = work[w].seen.address
  /\ work[w].kind = "code" => Committed(att, work[w].stored)
  /\ work[w].kind = "link" => att.link # None /\ att.link = work[w].seen.link

(* claimIn, with the row as it is now for a proof and as it was read for a *)
(* consent.                                                                *)
ClaimIn(w) ==
  /\ work[w].pc = "claimIn" /\ RowFree(w)
  /\ IF /\ Authenticated
        /\ IF work[w].kind = "consent" THEN Guarded(w) /\ att.op = None ELSE ProofHolds(w)
     THEN /\ work' = [work EXCEPT ![w].pc = "judge",
                        ![w].seen = [att EXCEPT !.op = w, !.rev = @ + 1]]
          /\ UNCHANGED <<rows, now>>
     ELSE Only(w, "refused")

(* The account row is taken to the end of the unit of work. *)
HoldsAcct(w, u) == work[w].pc = "finish" /\ work[w].user = u
AcctFree(u) == ~\E w \in Work : HoldsAcct(w, u)

(* Fault: a refused unit of work keeps its claim. *)
RefusalKeeps(w) == "refused"

Refusal(w) == IF work[w].kind \in {"password", "factor"} THEN "release" ELSE "refused"

(* spendIn: the code is the one that was read, and not used. *)
Spendable(w) ==
  work[w].kind = "code" => mailed.code = work[w].stored.code /\ Live(mailed)

VersionStands(w, u) == acct[u].version = work[w].uv

(* resolveAccountIn: a mailed proof may create the account. *)
Creates(w) == work[w].kind \in {"code", "link"} /\ ~acct[work[w].user].exists

(* completeFactorIn: the account is the one that was verified, and may use *)
(* the application.  A mailed proof reads it here.                         *)
MayComplete(w) ==
  LET u == work[w].user IN
  /\ acct[u].live \/ Creates(w)
  /\ Flow = "registration" => Creates(w)
  /\ work[w].kind = "password" => VersionStands(w, u)
  /\ app.enabled /\ (grant[u] = NoGrant \/ grant[u].allowed)

(* confirmIn: the password is replaced in the version that was read. *)
MayReset(w) == acct[work[w].user].live /\ VersionStands(w, work[w].user)

(* verify of the second factor: the account is the verified one.  (Its     *)
(* code fits and is not used.)                                             *)
MaySecond(w) ==
  LET u == work[w].user IN
  /\ acct[u].live /\ acct[u].two /\ acct[u].version = work[w].seen.verified.uv
  /\ work[w].code = "recovery" => u \in recovery

(* assertVerifiedCurrentIn. *)
StillVerified(w) ==
  LET u == work[w].user v == work[w].seen.verified IN
  /\ acct[u].live /\ acct[u].version = v.uv
  /\ app.enabled /\ app.version = v.cv
  /\ grant[u].version = v.gv /\ (grant[u] = NoGrant \/ grant[u].allowed)

MayGoOn(w) ==
  IF work[w].kind = "consent" THEN StillVerified(w)
  ELSE IF work[w].kind = "factor" THEN MaySecond(w)
  ELSE IF Flow = "recovery" THEN MayReset(w) ELSE MayComplete(w)

Judged(w) ==
  work' = [work EXCEPT ![w].pc = "finish", ![w].cv = app.version,
    ![w].two = acct[work[w].user].two,
    ![w].uv = IF work[w].kind = "password" THEN @ ELSE acct[work[w].user].version]

(* Fault: codes are spent ahead of the unit of work. *)
JudgeSpends(w) ==
  /\ work[w].pc = "judge" /\ AcctFree(work[w].user)
  /\ IF MayGoOn(w) /\ Spendable(w)
     THEN /\ Judged(w)
          /\ mailed' = IF work[w].kind = "code" THEN [mailed EXCEPT !.spent = TRUE]
                       ELSE mailed
          /\ recovery' = IF work[w].code = "recovery" THEN recovery \ {work[w].user}
                         ELSE recovery
          /\ UNCHANGED <<now, att, acct, app, grant, codes, changes, withdrawn, resets>>
     ELSE Only(w, Refusal(w))

(* The reads of a unit of work.  An account another one holds is refused   *)
(* at once, and the unit of work runs again, with the claim it made rolled *)
(* back.                                                                   *)
Judge(w) ==
  /\ work[w].pc = "judge"
  /\ IF AcctFree(work[w].user)
     THEN IF MayGoOn(w) /\ Spendable(w)
          THEN Judged(w) /\ UNCHANGED <<rows, now>>
          ELSE Only(w, Refusal(w))
     ELSE /\ HoldsAttempt(w)
          /\ work' = [work EXCEPT ![w].pc = "claimIn", ![w].seen = att]
          /\ UNCHANGED <<rows, now>>

(* The password, or the second factor, is checked before the unit of work. *)
CheckPassword(w, u) ==
  /\ work[w].pc = "claimed" /\ work[w].kind = "password"
  /\ \/ Only(w, "release")
     \/ /\ Flow = "signIn" /\ acct[u].live
        /\ work' = [work EXCEPT ![w].pc = "judge", ![w].user = u,
                                ![w].uv = acct[u].version]
        /\ withdrawn' = FALSE
        /\ UNCHANGED <<now, att, mailed, acct, recovery, app, grant, codes, changes,
                       resets>>

Reserve(w, code) ==
  LET v == work[w].seen.verified IN
  /\ work[w].pc = "claimed" /\ work[w].kind = "factor"
  /\ IF acct[v.user].live /\ acct[v.user].two /\ acct[v.user].version = v.uv
     THEN /\ work' = [work EXCEPT ![w].pc = "judge", ![w].user = v.user,
                                  ![w].code = code]
          /\ UNCHANGED <<rows, now>>
     ELSE Only(w, "release")

(* Fault: a passed first factor is enough. *)
OwesNone(w) == FALSE

OwesMfa(w) == work[w].two

Verified(w) ==
  [user |-> work[w].user, uv |-> work[w].uv, cv |-> work[w].cv,
   gv |-> grant[work[w].user].version,
   second |-> IF work[w].two THEN "owed" ELSE "none", by |-> w]

(* The last writes and the commit of a first factor ... *)
CompleteFactor(w) ==
  LET x == work[w] IN
  /\ x.pc = "finish" /\ x.kind \in {"password", "code", "link"} /\ Flow # "recovery"
  /\ RowFree(w)
  /\ IF Moves(w)
     THEN /\ att' = Moved(w, [x.seen EXCEPT !.verified = Verified(w),
                !.phase = IF OwesMfa(w) THEN "secondFactorRequired" ELSE "consentRequired",
                !.gen = IF x.kind = "password" THEN @ ELSE None,
                !.link = IF x.kind = "password" THEN @ ELSE None])
          /\ mailed' = IF x.kind = "code" THEN [mailed EXCEPT !.spent = TRUE] ELSE mailed
          /\ acct' = IF acct[x.user].exists THEN acct
                     ELSE [acct EXCEPT ![x.user].exists = TRUE, ![x.user].live = TRUE]
          /\ withdrawn' = (withdrawn /\ x.kind = "password") /\ Goto(w, "view")
     ELSE Goto(w, Refusal(w)) /\ UNCHANGED <<att, mailed, acct, withdrawn>>
  /\ UNCHANGED <<now, recovery, app, grant, codes, changes, resets>>

(* ... of a second factor ... *)
CompleteSecond(w) ==
  LET x == work[w] IN
  /\ x.pc = "finish" /\ x.kind = "factor" /\ RowFree(w)
  /\ IF Moves(w)
     THEN /\ att' = Moved(w, [x.seen EXCEPT !.phase = "consentRequired",
                                            !.verified.second = "passed"])
          /\ recovery' = IF x.code = "recovery" THEN recovery \ {x.user} ELSE recovery
          /\ Goto(w, "view")
     ELSE Goto(w, "release") /\ UNCHANGED <<att, recovery>>
  /\ UNCHANGED <<now, mailed, acct, app, grant, codes, changes, withdrawn, resets>>

(* ... of a recovery: the new password ends every session ... *)
CompleteRecovery(w) ==
  LET x == work[w] IN
  /\ x.pc = "finish" /\ x.kind = "code" /\ Flow = "recovery"
  /\ IF Moves(w)
     THEN /\ att' = Moved(w, [x.seen EXCEPT !.phase = "recoveryComplete",
                                            !.gen = None, !.link = None])
          /\ mailed' = [mailed EXCEPT !.spent = TRUE]
          /\ acct' = [acct EXCEPT ![x.user].version = @ + 1]
          /\ resets' = resets \cup {w} /\ Goto(w, "view")
     ELSE Goto(w, "refused") /\ UNCHANGED <<att, mailed, acct, resets>>
  /\ UNCHANGED <<now, recovery, app, grant, codes, changes, withdrawn>>

(* ... and of a consent: the authorization code is stored and kept for a   *)
(* repeated answer.                                                        *)
Consent(w) ==
  /\ "consent" \in Kind /\ work[w].pc = "idle" /\ Authenticated
  /\ att.phase = "consentRequired"
  /\ work' = [work EXCEPT ![w].kind = "consent", ![w].pc = "claimIn",
                          ![w].seen = att, ![w].user = att.verified.user]
  /\ UNCHANGED <<rows, now>>

ApproveVerified(w) ==
  LET x == work[w]
      g == IF grant[x.user] = NoGrant THEN FirstGrant ELSE grant[x.user]
  IN
  /\ x.pc = "finish" /\ x.kind = "consent"
  /\ IF Moves(w) /\ app.enabled /\ app.version = x.seen.verified.cv
     THEN /\ att' = Moved(w, [x.seen EXCEPT !.phase = "codeReady",
                       !.reply = now + ReplyLifetime, !.verified.gv = g.version])
          /\ grant' = [grant EXCEPT ![x.user] = g]
          /\ codes' = codes \cup {[by |-> w, user |-> x.user, uv |-> x.uv,
               second |-> x.seen.verified.second, stale |-> withdrawn]}
          /\ work' = [work EXCEPT ![w].pc = "view", ![w].code = w]
     ELSE Goto(w, "refused") /\ UNCHANGED <<att, grant, codes>>
  /\ UNCHANGED <<now, mailed, acct, recovery, app, changes, withdrawn, resets>>

(* replay, of a consent or of resume: the same code, while it stands. *)
Replay(w) ==
  LET v == att.verified IN
  /\ "consent" \in Kind /\ work[w].pc = "idle" /\ Authenticated
  /\ att.phase = "codeReady" /\ att.reply > now /\ AcctFree(v.user)
  /\ acct[v.user].live /\ acct[v.user].version = v.uv
  /\ app.enabled /\ app.version = v.cv
  /\ grant[v.user].version = v.gv /\ grant[v.user].allowed
  /\ work' = [work EXCEPT ![w].kind = "consent", ![w].pc = "done",
       ![w].user = v.user, ![w].code = CHOOSE c \in {d.by : d \in codes} : TRUE]
  /\ UNCHANGED <<rows, now>>

(* A registration or a recovery that does not hear of its commit, stored   *)
(* or not, looks for what it would have stored.                            *)
LoseOutcome(w) ==
  /\ Flow # "signIn" /\ work[w].kind = "code" /\ work[w].pc \in {"finish", "view"}
  /\ Only(w, "unknown")

(* Fault: the account is taken for the request's own. *)
ResolvedByAddress(w) ==
  Authenticated /\ acct[work[w].user].live /\ att.address = work[w].user

Resolved(w) ==
  LET u == work[w].user IN
  /\ Authenticated /\ acct[u].live /\ att.address = u
  /\ IF Flow = "recovery"
     THEN att.phase = "recoveryComplete" /\ acct[u].version > work[w].uv
     ELSE att.verified.by = w

ResolveUnknown(w) ==
  /\ work[w].pc = "unknown" /\ Only(w, IF Resolved(w) THEN "done" ELSE "unavailable")

(* A process stops, or a unit of work is lost.  One that claimed in a      *)
(* statement of its own leaves the claim.                                  *)
Stop(w) ==
  /\ work[w].pc \notin {"idle", "done", "refused", "cancelled", "unavailable", "stopped"}
  /\ Only(w, "stopped")

(***************************************************************************)
(* What others do.                                                         *)
(***************************************************************************)

Change == changes < MaxChanges /\ changes' = changes + 1

(* Was the account verified, or its password checked. *)
Withdraw(u) ==
  withdrawn' = \/ withdrawn \/ att.verified.user = u
               \/ \E w \in Work : /\ work[w].kind = "password" /\ work[w].user = u
                                  /\ work[w].pc \in {"judge", "finish"}

AdvanceAccount(u, live) ==
  /\ Change /\ AcctFree(u) /\ acct[u].live
  /\ acct' = [acct EXCEPT ![u].live = live, ![u].version = @ + 1] /\ Withdraw(u)
  /\ UNCHANGED <<now, att, mailed, recovery, app, grant, work, codes, resets>>

BlockGrant(u) ==
  /\ Change /\ AcctFree(u) /\ acct[u].exists
  /\ grant' = [grant EXCEPT ![u] = [allowed |-> FALSE,
       version |-> IF @ = NoGrant THEN 1 ELSE @.version + 1]]
  /\ Withdraw(u)
  /\ UNCHANGED <<now, att, mailed, acct, recovery, app, work, codes, resets>>

DisableApplication ==
  /\ Change /\ app' = [enabled |-> FALSE, version |-> app.version + 1]
  /\ UNCHANGED <<now, att, mailed, acct, recovery, grant, work, codes, withdrawn, resets>>

EnableApplication ==
  /\ ~app.enabled /\ app' = [app EXCEPT !.enabled = TRUE]
  /\ UNCHANGED <<now, att, mailed, acct, recovery, grant, work, codes, changes,
                 withdrawn, resets>>

(* The second factor is confirmed, or turned off. *)
TurnFactor(u) ==
  /\ Change /\ acct[u].live
  /\ acct' = [acct EXCEPT ![u].two = ~@]
  /\ UNCHANGED <<now, att, mailed, recovery, app, grant, work, codes, withdrawn, resets>>

Tick == now < MaxTime /\ now' = now + 1 /\ UNCHANGED <<rows, work>>

Next ==
  \/ \E w \in Work :
       \/ Release(w) \/ View(w) \/ Sent(w) \/ Elsewhere(w) \/ FindCode(w)
       \/ RightGuess(w) \/ WrongGuess(w) \/ Ask(w) \/ Cancel(w) \/ FindLink(w)
       \/ FindActive(w) \/ ClaimIn(w) \/ Judge(w) \/ CompleteFactor(w)
       \/ CompleteSecond(w) \/ CompleteRecovery(w) \/ Consent(w)
       \/ ApproveVerified(w) \/ Replay(w) \/ LoseOutcome(w) \/ ResolveUnknown(w) \/ Stop(w)
       \/ Claim(w, "password", {"firstFactorRequired"})
       \/ Claim(w, "mail", {"firstFactorRequired", SentPhase})
       \/ Claim(w, "factor", {"secondFactorRequired"})
       \/ \E u \in User : CheckPassword(w, u)
       \/ \E u \in User, sent \in BOOLEAN : Put(w, u, sent)
       \/ \E code \in {"totp", "recovery"} : Reserve(w, code)
  \/ \E u \in User : BlockGrant(u) \/ TurnFactor(u)
                     \/ \E live \in BOOLEAN : AdvanceAccount(u, live)
  \/ DisableApplication \/ EnableApplication \/ Tick

Spec == Init /\ [][Next]_vars

(***************************************************************************)
(* Properties.                                                             *)
(***************************************************************************)

(* Types; a claim on the attempt belongs to a request that still runs, or  *)
(* that stopped: every failure gives the claim back.                       *)
TypeOK ==
  /\ now \in 0..MaxTime /\ changes \in 0..MaxChanges
  /\ att.phase \in Terminal \cup {"firstFactorRequired", SentPhase,
                                  "secondFactorRequired", "consentRequired"}
  /\ att.op # None /\ Authenticated => work[att.op].pc \in
       {"claimed", "commit", "judge", "finish", "release", "stopped"}

(* The attempt goes forward: what ended stays as it is, and the account    *)
(* that was verified stays the one, whatever a late failure of the request *)
(* that verified it, or a request that read an older attempt, still does.  *)
Forward ==
  /\ att.phase \in Terminal => att' = att
  /\ att.verified.user # None =>
       /\ att'.verified.user = att.verified.user
       /\ att'.verified.uv = att.verified.uv
       /\ att'.phase \in Terminal \cup {"consentRequired", att.phase}

(* An attempt gives one authorization code, to every request that is       *)
(* answered with one; for the account that was verified, with the second   *)
(* factor it owed, and with no withdrawal of the account or of its grant   *)
(* since its credentials were checked.                                     *)
OneEarnedCode ==
  /\ Cardinality(codes) <= 1
  /\ \A c \in codes :
       /\ c.user = att.verified.user /\ c.second # "owed" /\ ~c.stale
       /\ \A w \in Work : work[w].kind = "consent" /\ work[w].pc = "done" =>
                         work[w].code = c.by

(* Once a cancellation is answered the attempt gives no code and changes   *)
(* no password, whatever was on its way.                                   *)
CancelledGivesNothing ==
  (\E w \in Work : work[w].pc = "cancelled") =>
    att.phase = "denied" /\ codes = {} /\ resets = {}

(* A recovery code and a mailed code are used up by what they were used    *)
(* for: a request that fails after its check leaves them usable.           *)
SpentForProgress ==
  /\ \A u \in WithFactor \ recovery :
       att.verified.user = u /\ att.verified.second = "passed"
  /\ /\ att.gen # None /\ att.gen = mailed.code /\ mailed.guesses < GuessLimit
     /\ ~work[att.gen].stored.spent
     => ~mailed.spent

(* The code that verifies an account or replaces a password was stored by  *)
(* a request of this attempt, for this account: not by another request for *)
(* the address, nor by one for another address.                            *)
OwnCode ==
  \A w \in Work : work[w].kind = "code" /\ (w \in resets \/ att.verified.by = w) =>
    LET c == work[w].stored.code IN work[c].kind = "mail" /\ work[c].user = work[w].user

(* A registration or a recovery that is answered as done was stored, also  *)
(* when its commit was not heard of; and a registration is the request's   *)
(* own.                                                                    *)
AnsweredIsStored ==
  \A w \in Work : work[w].kind = "code" /\ work[w].pc = "done" =>
    /\ Flow = "recovery" => att.phase = "recoveryComplete" /\ resets # {}
    /\ Flow = "registration" => att.verified.by = w
=============================================================================
