----------------------------- MODULE SecondFactor ---------------------------
(***************************************************************************)
(* The second factor of one account on PostgreSQL: setting it up and       *)
(* confirming it, turning it off, new recovery codes, and the answers that *)
(* finish a sign-in (TwoFactorService, TwoFactorVerificationService,       *)
(* TwoFactorLoginService, TwoFactorChallengeService and their stores).     *)
(*                                                                         *)
(* A request reads the account in one statement and then works on what it  *)
(* read: every later statement is one of its own, so anything may come     *)
(* between.  A request is named by a member of Work and runs once.         *)
(*                                                                         *)
(* Time is counted in TOTP steps.  An authenticator code is the pair of    *)
(* the secret it comes from and a step; a batch of recovery codes is one   *)
(* code, named by the request that made it.                                *)
(***************************************************************************)
EXTENDS Integers, FiniteSets

CONSTANTS
  Work, Kind,     \* requests, and what they may ask for
  Challenge,      \* two_factor_challenges
  Confirmed,      \* is the factor on at first
  Steps,          \* offsets of the steps whose codes are sent
  Window,         \* TWO_FACTOR_WINDOW
  Threshold,      \* TWO_FACTOR_LOCK_THRESHOLD
  LockBase, LockMax, \* TWO_FACTOR_LOCK_BASE_MS and _MAX_MS
  MaxAttempts,    \* TWO_FACTOR_MAX_CHALLENGE_ATTEMPTS
  ChallengeTtl,   \* TWO_FACTOR_CHALLENGE_TTL_MS
  MaxTime, None

FactorAssumption ==
  /\ {Window, LockBase, LockMax, MaxAttempts, ChallengeTtl, MaxTime} \subseteq Nat
  /\ Threshold \in Nat \ {0} /\ Steps \subseteq Int /\ Confirmed \in BOOLEAN
  /\ Kind \subseteq {"login", "setup", "confirm", "disable", "regenerate"}
  /\ IsFiniteSet(Work) /\ None \notin Work \cup Challenge \cup Int

VARIABLES
  now,
  row,      \* user_two_factor, or NoRow
  codes,    \* user_recovery_codes that are not used
  chal,     \* the challenges
  work,     \* the requests, with what they read
  secrets,  \* secrets made so far
  accepted, \* answers that were accepted, with the request
  sessions, \* requests that were given a session
  right,    \* right answers so far, each starts the count again
  checked,  \* answers looked at since
  since,    \* when the count was started again last
  stale     \* an answer read before that was counted after it

vars == <<now, row, codes, chal, work, secrets, accepted, sessions, right,
          checked, since, stale>>

NoRow == [enabled |-> FALSE, secret |-> 0, last |-> None, failed |-> 0, locked |-> 0]
FirstRow == [NoRow EXCEPT !.enabled = Confirmed, !.secret = 1]
Open == [state |-> "open", attempts |-> 0, exp |-> ChallengeTtl]
NoWork == [kind |-> "none", pc |-> "idle", chal |-> None, answer |-> None,
           read |-> NoRow, codes |-> {}, right |-> 0, doomed |-> {}]

Init ==
  /\ now = 0 /\ row = FirstRow /\ codes = IF Confirmed THEN {None} ELSE {}
  /\ chal = [c \in Challenge |-> Open]
  /\ work = [w \in Work |-> NoWork]
  /\ secrets = 1 /\ accepted = {} /\ sessions = {}
  /\ right = 0 /\ checked = 0 /\ since = 0 /\ stale = FALSE

(***************************************************************************)
(* How long a lock holds.                                                  *)
(***************************************************************************)

LockDuration(failed) ==
  IF failed = 0 \/ failed % Threshold # 0 THEN 0
  ELSE LET lock == LockBase * 2^((failed \div Threshold) - 1)
       IN IF lock < LockMax THEN lock ELSE LockMax

(***************************************************************************)
(* Reading.                                                                *)
(***************************************************************************)

Goto(w, pc) == work' = [work EXCEPT ![w].pc = pc]
ghosts == <<secrets, accepted, sessions, right, checked, since, stale>>

(* Fault: a claimed challenge is claimed again. *)
ClaimableTwice(c) == /\ chal[c].state # "gone" /\ chal[c].exp > now
                     /\ chal[c].attempts < MaxAttempts

Claimable(c) == /\ chal[c].state = "open" /\ chal[c].exp > now
                /\ chal[c].attempts < MaxAttempts

(* verify: the claim comes first. *)
Claim(w, c) ==
  /\ "login" \in Kind /\ work[w].pc = "idle" /\ Claimable(c)
  /\ chal' = [chal EXCEPT ![c].state = "claimed"]
  /\ work' = [work EXCEPT ![w].kind = "login", ![w].pc = "load", ![w].chal = c]
  /\ UNCHANGED <<now, row, codes, ghosts>>

(* A settings request starts. *)
Ask(w, kind) ==
  /\ kind \in Kind \ {"login"} /\ work[w].pc = "idle"
  /\ work' = [work EXCEPT ![w].kind = kind, ![w].pc = "load"]
  /\ UNCHANGED <<now, row, codes, chal, ghosts>>

(* May the request go on with what it reads: assertNotEnabled, a secret to *)
(* confirm, assertEnabled.                                                 *)
Proceeds(kind) ==
  CASE kind = "setup" -> ~row.enabled
    [] kind = "confirm" -> ~row.enabled /\ row.secret # 0
    [] OTHER -> row.enabled

(* loadUser and findChallengedAccount: state and codes of one snapshot.    *)
(* The password, where one is asked for, fits.                             *)
Load(w) ==
  /\ work[w].pc = "load"
  /\ work' = [work EXCEPT ![w].read = row, ![w].codes = codes, ![w].right = right,
       ![w].pc = IF Proceeds(work[w].kind)
                 THEN IF work[w].kind = "setup" THEN "save" ELSE "reserve"
                 ELSE IF work[w].kind = "login" THEN "drop" ELSE "refused"]
  /\ UNCHANGED <<now, row, codes, chal, ghosts>>

(* A challenge of an account whose factor is off goes. *)
Drop(w) ==
  /\ work[w].pc = "drop"
  /\ chal' = [chal EXCEPT ![work[w].chal].state = "gone"]
  /\ Goto(w, "refused") /\ UNCHANGED <<now, row, codes, ghosts>>

(***************************************************************************)
(* Answers.                                                                *)
(***************************************************************************)

(* Fault: the count is stored whatever it was meanwhile. *)
CountedBlindly(w) == row # NoRow

(* Is the count still the one that was read. *)
CountStands(w) == row # NoRow /\ row.failed = work[w].read.failed

CountedTo(failed) ==
  [row EXCEPT !.failed = failed,
              !.locked = IF LockDuration(failed) > 0 THEN now + LockDuration(failed)
                         ELSE 0]

(* reserve: refused while the lock that was read holds, or when another    *)
(* answer was counted; else this one is counted before it is looked at.    *)
Reserve(w) ==
  LET x == work[w] IN
  /\ x.pc = "reserve"
  /\ IF x.read.locked > now \/ ~CountStands(w)
     THEN Goto(w, "failed") /\ UNCHANGED <<row, checked, stale>>
     ELSE /\ row' = CountedTo(x.read.failed + 1)
          /\ stale' = (stale \/ x.right # right) /\ checked' = checked + 1
          /\ Goto(w, "check")
  /\ UNCHANGED <<now, codes, chal, secrets, accepted, sessions, right, since>>

(* Fault: the step is compared with the one that was read only. *)
StepFreeAsRead(w) == row # NoRow

(* The step that was used last is still the one that was read. *)
StepFree(w) == row # NoRow /\ row.last = work[w].read.last

Accept(w, answer) ==
  /\ accepted' = accepted \cup {[by |-> w, answer |-> answer]}
  /\ work' = [work EXCEPT ![w].pc = "clear", ![w].answer = answer]
  /\ UNCHANGED <<now, chal, secrets, sessions, right, checked, since, stale>>

(* spendCode: an authenticator code of the secret that was read, or of an  *)
(* older one, which does not match.                                        *)
SpendCode(w, secret, step) ==
  LET x == work[w]
      fits == /\ secret = x.read.secret /\ step - now \in -Window..Window
              /\ x.read.last = None \/ step > x.read.last
              /\ StepFree(w)
  IN /\ x.pc = "check"
     /\ IF fits THEN /\ row' = [row EXCEPT !.last = step]
                     /\ Accept(w, [secret |-> secret, step |-> step])
                     /\ UNCHANGED codes
        ELSE Goto(w, "failed") /\ UNCHANGED <<now, row, codes, chal, ghosts>>

(* spendRecovery.  Setup and new recovery codes take no recovery code. *)
SpendRecovery(w, code) ==
  LET x == work[w] IN
  /\ x.pc = "check" /\ x.kind \in {"login", "disable"}
  /\ IF code \in x.codes \cap codes
     THEN codes' = codes \ {code} /\ Accept(w, [recovery |-> code]) /\ UNCHANGED row
     ELSE Goto(w, "failed") /\ UNCHANGED <<now, row, codes, chal, ghosts>>

(* A wrong answer. *)
Wrong(w) ==
  /\ work[w].pc = "check" /\ Goto(w, "failed")
  /\ UNCHANGED <<now, row, codes, chal, ghosts>>

(* clearFailedAttempts. *)
ClearFailedAttempts(w) ==
  /\ work[w].pc = "clear"
  /\ row' = IF row = NoRow THEN row ELSE [row EXCEPT !.failed = 0, !.locked = 0]
  /\ right' = right + 1 /\ since' = now /\ checked' = 0 /\ stale' = FALSE
  /\ Goto(w, CASE work[w].kind = "login" -> "consume"
               [] work[w].kind = "confirm" -> "save"
               [] OTHER -> "delete")
  /\ UNCHANGED <<now, codes, chal, secrets, accepted, sessions>>

(***************************************************************************)
(* The end of a sign-in.                                                   *)
(***************************************************************************)

(* registerFailure counts and gives the challenge back; one that is full   *)
(* goes in a statement of its own.  A settings request just fails.         *)
RegisterFailure(w) ==
  LET c == work[w].chal IN
  /\ work[w].pc = "failed"
  /\ IF work[w].kind = "login" /\ chal[c].state # "gone"
     THEN /\ chal' = [chal EXCEPT ![c].state = "open", ![c].attempts = @ + 1]
          /\ Goto(w, IF chal[c].attempts + 1 >= MaxAttempts THEN "drop" ELSE "refused")
     ELSE Goto(w, "refused") /\ UNCHANGED chal
  /\ UNCHANGED <<now, row, codes, ghosts>>

(* consume, and then the session. *)
Consume(w) ==
  /\ work[w].pc = "consume"
  /\ chal' = [chal EXCEPT ![work[w].chal].state = "gone"]
  /\ Goto(w, "issue") /\ UNCHANGED <<now, row, codes, ghosts>>

IssueSession(w) ==
  /\ work[w].pc = "issue" /\ Goto(w, "done")
  /\ sessions' = sessions \cup {w}
  /\ UNCHANGED <<now, row, codes, chal, secrets, accepted, right, checked, since, stale>>

(***************************************************************************)
(* Settings.                                                               *)
(***************************************************************************)

(* savePendingSecret. *)
SavePendingSecret(w) ==
  /\ work[w].pc = "save" /\ work[w].kind = "setup"
  /\ row' = [NoRow EXCEPT !.secret = secrets + 1] /\ codes' = {}
  /\ secrets' = secrets + 1
  /\ right' = right + 1 /\ since' = now /\ checked' = 0 /\ stale' = FALSE
  /\ Goto(w, "done") /\ UNCHANGED <<now, chal, accepted, sessions>>

(* Fault: the secret that is confirmed may be another one. *)
ConfirmsAny(w) == ~row.enabled /\ row # NoRow

(* The pending secret is the one the code was checked with. *)
Confirms(w) == ~row.enabled /\ row.secret = work[w].read.secret

(* confirmWithSession.  (Its commit also ends the account's other         *)
(* sessions: the revocation of AccountSessions.)                          *)
SaveConfirmation(w) ==
  /\ work[w].pc = "save" /\ work[w].kind = "confirm"
  /\ IF Confirms(w)
     THEN /\ row' = [row EXCEPT !.enabled = TRUE] /\ codes' = {w} /\ Goto(w, "done")
     ELSE Goto(w, "refused") /\ UNCHANGED <<row, codes>>
  /\ UNCHANGED <<now, chal, ghosts>>

(* replaceCodes deletes the codes the statement sees ... *)
DeleteCodes(w) ==
  /\ work[w].pc = "delete"
  /\ work' = [work EXCEPT ![w].pc = "write", ![w].doomed = codes]
  /\ UNCHANGED <<now, row, codes, chal, ghosts>>

(* ... and the insert of new ones, or the delete of the row, commits.      *)
ReplaceCodes(w) ==
  /\ work[w].pc = "write" /\ work[w].kind = "regenerate"
  /\ codes' = (codes \ work[w].doomed) \cup {w}
  /\ Goto(w, "done") /\ UNCHANGED <<now, row, chal, ghosts>>

Clear(w) ==
  /\ work[w].pc = "write" /\ work[w].kind = "disable"
  /\ codes' = codes \ work[w].doomed /\ row' = NoRow
  /\ Goto(w, "done") /\ UNCHANGED <<now, chal, ghosts>>

(* A process stops, or a statement fails: what it did so far stays.        *)
Stop(w) ==
  /\ work[w].pc \notin {"idle", "done", "refused", "stopped"}
  /\ Goto(w, "stopped") /\ UNCHANGED <<now, row, codes, chal, ghosts>>

Tick == now < MaxTime /\ now' = now + 1 /\ UNCHANGED <<row, codes, chal, work, ghosts>>

Next ==
  \/ \E w \in Work :
       \/ Load(w) \/ Drop(w) \/ Reserve(w) \/ Wrong(w) \/ ClearFailedAttempts(w)
       \/ RegisterFailure(w) \/ Consume(w) \/ IssueSession(w)
       \/ SavePendingSecret(w) \/ SaveConfirmation(w) \/ DeleteCodes(w)
       \/ ReplaceCodes(w) \/ Clear(w) \/ Stop(w)
       \/ \E c \in Challenge : Claim(w, c)
       \/ \E kind \in Kind : Ask(w, kind)
       \/ \E secret \in 1..secrets, d \in Steps : SpendCode(w, secret, now + d)
       \/ \E code \in work[w].codes : SpendRecovery(w, code)
  \/ Tick

Spec == Init /\ [][Next]_vars

(***************************************************************************)
(* Properties.                                                             *)
(***************************************************************************)

(* Types; a challenge is held by one request at most, and counts no more   *)
(* wrong answers than it may.                                              *)
TypeOK ==
  /\ now \in 0..MaxTime /\ row.failed \in 0..Cardinality(Work)
  /\ \A c \in Challenge :
       /\ chal[c].attempts \in 0..MaxAttempts
       /\ Cardinality({w \in Work : work[w].chal = c /\ work[w].pc \notin
            {"refused", "done", "stopped", "drop", "issue"}}) <= 1

(* An authenticator code of a step, and a recovery code, is accepted once: *)
(* for all requests together, whatever they read before.                   *)
AcceptedOnce ==
  \A a, b \in accepted : a.answer = b.answer => a = b

(* A challenge gives one session, to a request whose answer was accepted.  *)
OneSessionPerChallenge ==
  \A v, w \in sessions :
    /\ work[v].chal = work[w].chal => v = w
    /\ \E a \in accepted : a.by = v

(* All of it: what answers a challenge does so once.                       *)
AnsweredOnce == TypeOK /\ AcceptedOnce /\ OneSessionPerChallenge

(* Looking at answers costs time: past each threshold the account has     *)
(* waited for every lock before it, however many answers are on their way  *)
(* at once.  (Left out: an answer that was read before the count started   *)
(* again and is counted after; see LockHolds.)                             *)
GuessesCostTime ==
  stale \/ checked <= Threshold
    \/ now >= since + (IF checked <= 2 * Threshold THEN LockDuration(Threshold)
                       ELSE LockDuration(Threshold) + LockDuration(2 * Threshold))

(* A factor that is on was confirmed with a code of its own secret.        *)
ConfirmedWithItsCode ==
  row.enabled => \/ Confirmed /\ row.secret = 1
                 \/ \E a \in accepted : /\ work[a.by].kind = "confirm"
                                        /\ a.answer.secret = row.secret

(* While the lock holds no answer is counted, and so none is looked at.    *)
LockHolds == row'.failed > row.failed => row.locked <= now

(* A setup changes nothing about how the account signs in: the factor goes *)
(* off by a request that turns it off.                                     *)
SetupKeepsTheFactor ==
  row.enabled /\ ~row'.enabled =>
    \E w \in Work : work[w].kind = "disable" /\ work'[w] # work[w]

(* New recovery codes end the ones before.                                 *)
OneBatch == Cardinality(codes) <= 1
=============================================================================
