---------------------------- MODULE FactorProofs ----------------------------
(***************************************************************************)
(* The second factor of an account (SecondFactor), for any requests at     *)
(* once, any challenges, lifetimes and limits: a challenge gives one       *)
(* session, to an answer that was accepted, no answer is accepted twice,   *)
(* and a wrong code costs the next one time.                               *)
(*                                                                         *)
(* The invariant says what the method, a challenge and a request owe one   *)
(* another at every step of two requests that answer the same challenge.   *)
(***************************************************************************)
EXTENDS FactorPromises, Integers, FiniteSetTheorems, TLAPS

FactorRow ==
  [enabled : BOOLEAN, secret : Nat, last : Int \cup {None}, failed : Nat, locked : Int]
ChallengeRow ==
  [state : {"open", "claimed", "gone"}, attempts : 0..MaxAttempts, exp : Nat]
TotpAnswer == [secret : Nat \ {0}, step : Int]
RecoveryAnswer == [recovery : Work \cup {None}]
AcceptedRow == [by : Work, answer : TotpAnswer \cup RecoveryAnswer]
FactorPc ==
  {"idle", "load", "save", "reserve", "drop", "refused", "failed", "check", "clear",
   "consume", "issue", "done", "delete", "write", "stopped"}
AnswerRow ==
  [kind : {"none", "login", "setup", "confirm", "disable", "regenerate"}, pc : FactorPc,
   chal : Challenge \cup {None}, answer : TotpAnswer \cup RecoveryAnswer \cup {None},
   read : FactorRow, codes : SUBSET (Work \cup {None}), right : Nat,
   doomed : SUBSET (Work \cup {None})]

FTyped ==
  /\ now \in 0..MaxTime
  /\ row \in FactorRow
  /\ codes \subseteq Work \cup {None}
  /\ chal \in [Challenge -> ChallengeRow]
  /\ work \in [Work -> AnswerRow]
  /\ secrets \in Nat /\ right \in Nat /\ checked \in Nat
  /\ since \in Nat /\ since <= now /\ stale \in BOOLEAN
  /\ accepted \subseteq AcceptedRow /\ sessions \subseteq Work

Finished == {"done", "refused", "stopped"}
Answering == {"load", "reserve", "check", "clear", "failed", "consume"}
BeforeCount == {"idle", "load", "reserve"}

(* Where a request of a kind may be.                                       *)
KindSound(w) == LET x == work[w] IN
  /\ x.kind \in Kind \cup {"none"}
  /\ x.kind = "none" <=> x.pc = "idle"
  /\ x.kind = "none" => x = Factor!NoWork
  /\ IF x.kind = "login" THEN x.chal \in Challenge ELSE x.chal = None
  /\ x.kind = "login" => x.pc \in Answering \cup Finished \cup {"drop", "issue"}
  /\ x.kind = "setup" => x.pc \in {"load", "save"} \cup Finished
  /\ x.kind = "confirm" =>
       x.pc \in {"load", "reserve", "check", "clear", "failed", "save"} \cup Finished
  /\ x.kind \in {"disable", "regenerate"} =>
       x.pc \in {"load", "reserve", "check", "clear", "failed", "delete", "write"}
                  \cup Finished

ClaimedChallenge(c) == chal[c].state = "claimed" => chal[c].attempts < MaxAttempts

(* A request that answers a challenge has claimed it, alone; who drops one *)
(* that was given back leaves none behind that could be claimed again.     *)
ChallengeHeld(w) == LET x == work[w] IN
  x.kind = "login" =>
    /\ x.pc \in Answering =>
         /\ chal[x.chal].state = "claimed"
         /\ \A v \in Work : v # w /\ work[v].kind = "login" /\ work[v].pc \in Answering
              => work[v].chal # x.chal
    /\ x.pc = "drop" =>
         /\ \/ chal[x.chal].state # "open"
            \/ chal[x.chal].attempts = MaxAttempts
         /\ \A v \in Work : v # w /\ work[v].kind = "login" /\ work[v].pc \in Answering
              => work[v].chal # x.chal
    /\ x.pc = "issue" \/ w \in sessions =>
         /\ chal[x.chal].state = "gone"
         /\ \A v \in Work : v # w /\ work[v].kind = "login"
                            /\ (work[v].pc = "issue" \/ v \in sessions)
              => work[v].chal # x.chal

SessionsOfLogins == \A w \in sessions : work[w].kind = "login" /\ work[w].pc = "done"

(* What goes on after an answer had one accepted; a confirmation, one of   *)
(* the secret that it read.                                                *)
AcceptedFor(w) == \E a \in accepted : a.by = w
AcceptedOf(w, s) ==
  \E a \in accepted : a.by = w /\ a.answer \in TotpAnswer /\ a.answer.secret = s
AnswerTaken(w) == LET x == work[w] IN
  /\ x.pc \in {"clear", "consume", "issue"} \/ w \in sessions => AcceptedFor(w)
  /\ x.pc \in {"clear", "save"} /\ x.kind = "confirm" => AcceptedOf(w, x.read.secret)

AcceptedByAsked == \A a \in accepted : work[a.by].kind # "none"

(* A factor that is on has an accepted code behind it.                     *)
ConfirmedSound ==
  row.enabled => \/ Confirmed /\ row.secret = 1
                 \/ \E a \in accepted : /\ work[a.by].kind = "confirm"
                                        /\ a.answer \in TotpAnswer
                                        /\ a.answer.secret = row.secret

(* A batch of recovery codes is made once, by a request that is done.      *)
Issued(c) == c = None \/ (c \in Work /\ work[c].pc = "done")
RecoverySound ==
  /\ \A c \in codes : Issued(c)
  /\ \A a \in accepted : a.answer \in RecoveryAnswer =>
       Issued(a.answer.recovery) /\ a.answer.recovery \notin codes
  /\ \A a, b \in accepted :
       a.answer \in RecoveryAnswer /\ a.answer = b.answer => a = b

(* Where the factor is never set up again, the last step goes on only.     *)
StepsSound ==
  "setup" \notin Kind =>
    /\ row = Factor!NoRow \/ \A a \in accepted : a.answer \in TotpAnswer =>
                               row.last # None /\ a.answer.step <= row.last
    /\ \A a, b \in accepted : a.answer \in TotpAnswer /\ a.answer = b.answer => a = b

(* Every wrong answer that counts is of a request of its own.              *)
Counting == {w \in Work : work[w].pc \notin BeforeCount}
FailedSound == row.failed <= Cardinality(Counting)

(* Who reads the lock since the count started again reads the lock that    *)
(* stands, unless an answer was counted meanwhile.                         *)
LockRead(w) == LET x == work[w] IN
  /\ x.right <= right
  /\ x.pc = "reserve" /\ x.right = right /\ row # Factor!NoRow =>
       /\ x.read.failed <= row.failed
       /\ x.read.failed = row.failed => x.read.locked = row.locked

FirstLock == Factor!LockDuration(Threshold)
SecondLock == Factor!LockDuration(2 * Threshold)
LockDatesSound == stale \/
  /\ row # Factor!NoRow =>
       /\ checked = row.failed
       /\ row.failed = Threshold /\ FirstLock > 0 => row.locked >= since + FirstLock
       /\ row.failed = 2 * Threshold /\ SecondLock > 0 =>
            row.locked >= since + FirstLock + SecondLock
  /\ checked > Threshold => now >= since + FirstLock
  /\ checked > 2 * Threshold => now >= since + FirstLock + SecondLock

KindsSound == \A w \in Work : KindSound(w)
ClaimsCounted == \A c \in Challenge : ClaimedChallenge(c)
ChallengesHeld == \A w \in Work : ChallengeHeld(w)
AnswersTaken == \A w \in Work : AnswerTaken(w)
LocksRead == \A w \in Work : LockRead(w)

FInv ==
  /\ FTyped
  /\ KindsSound /\ ClaimsCounted /\ ChallengesHeld /\ SessionsOfLogins
  /\ AnswersTaken /\ AcceptedByAsked /\ ConfirmedSound
  /\ RecoverySound /\ StepsSound
  /\ FailedSound /\ LocksRead /\ LockDatesSound

LEMMA AnswerPcTyped ==
  ASSUME NEW w \in Work, NEW p \in FactorPc, work \in [Work -> AnswerRow]
  PROVE  [work EXCEPT ![w].pc = p] \in [Work -> AnswerRow]
<1> DEFINE x == [work[w] EXCEPT !.pc = p]
<1>1. x \in AnswerRow
  BY DEF AnswerRow
<1>2. [work EXCEPT ![w].pc = p] = [work EXCEPT ![w] = x]
  OBVIOUS
<1> QED BY <1>1, <1>2

LEMMA ReadTyped ==
  ASSUME NEW x \in AnswerRow, NEW r \in FactorRow, NEW cs \in SUBSET (Work \cup {None}),
         NEW m \in Nat, NEW p \in {"save", "reserve", "drop", "refused"}
  PROVE  [x EXCEPT !.read = r, !.codes = cs, !.right = m, !.pc = p] \in AnswerRow
BY DEF AnswerRow, FactorPc

LEMMA AnsweredTyped ==
  ASSUME NEW x \in AnswerRow, NEW r \in TotpAnswer \cup RecoveryAnswer
  PROVE  [x EXCEPT !.pc = "clear", !.answer = r] \in AnswerRow
<1> DEFINE A == TotpAnswer \cup RecoveryAnswer
<1>1. r \in A
  OBVIOUS
<1>2. AnswerRow =
        [kind : {"none", "login", "setup", "confirm", "disable", "regenerate"},
         pc : FactorPc, chal : Challenge \cup {None}, answer : A \cup {None},
         read : FactorRow, codes : SUBSET (Work \cup {None}), right : Nat,
         doomed : SUBSET (Work \cup {None})]
  BY DEF AnswerRow
<1> HIDE DEF A
<1> QED BY <1>1, <1>2 DEF FactorPc

LEMMA AnswerTypedStep ==
  ASSUME Factor!FactorAssumption, FInv, [Factor!Next]_Factor!vars
  PROVE  work' \in [Work -> AnswerRow]
<1>a. work \in [Work -> AnswerRow] /\ row \in FactorRow
  BY DEF FInv, FTyped
<1>b. codes \subseteq Work \cup {None} /\ right \in Nat /\ secrets \in Nat
        /\ now \in 0..MaxTime
  BY DEF FInv, FTyped
<1>0. CASE UNCHANGED Factor!vars
  BY <1>0, <1>a DEF Factor!vars
<1> DEFINE Goal == work' \in [Work -> AnswerRow]
<1>1. ASSUME NEW w \in Work, Factor!Load(w)
      PROVE  Goal
  <2>1. \E p \in {"save", "reserve", "drop", "refused"} :
          work' = [work EXCEPT ![w].read = row, ![w].codes = codes, ![w].right = right,
                               ![w].pc = p]
    BY <1>1 DEF Factor!Load
  <2>2. PICK p \in {"save", "reserve", "drop", "refused"} :
          work' = [work EXCEPT ![w].read = row, ![w].codes = codes, ![w].right = right,
                               ![w].pc = p]
    BY <2>1
  <2> DEFINE x == [work[w] EXCEPT !.read = row, !.codes = codes, !.right = right,
               !.pc = p]
  <2>0. work[w] \in AnswerRow /\ codes \in SUBSET (Work \cup {None})
    BY <1>a, <1>b
  <2>3. x \in AnswerRow
    BY <2>0, <1>a, <1>b, ReadTyped
  <2>4. work' = [work EXCEPT ![w] = x]
    BY <2>2, <1>a
  <2> HIDE DEF x
  <2> QED BY <2>3, <2>4, <1>a
<1>2. ASSUME NEW w \in Work, Factor!Drop(w)
      PROVE  Goal
  <2>1. \E p \in FactorPc : work' = [work EXCEPT ![w].pc = p]
    BY <1>2 DEF Factor!Drop, Factor!Goto, FactorPc
  <2> QED BY <2>1, <1>a, AnswerPcTyped
<1>3. ASSUME NEW w \in Work, Factor!Reserve(w)
      PROVE  Goal
  <2>1. \E p \in FactorPc : work' = [work EXCEPT ![w].pc = p]
    BY <1>3 DEF Factor!Reserve, Factor!Goto, FactorPc
  <2> QED BY <2>1, <1>a, AnswerPcTyped
<1>4. ASSUME NEW w \in Work, Factor!Wrong(w)
      PROVE  Goal
  <2>1. \E p \in FactorPc : work' = [work EXCEPT ![w].pc = p]
    BY <1>4 DEF Factor!Wrong, Factor!Goto, FactorPc
  <2> QED BY <2>1, <1>a, AnswerPcTyped
<1>5. ASSUME NEW w \in Work, Factor!ClearFailedAttempts(w)
      PROVE  Goal
  <2>1. \E p \in FactorPc : work' = [work EXCEPT ![w].pc = p]
    BY <1>5 DEF Factor!ClearFailedAttempts, Factor!Goto, FactorPc
  <2> QED BY <2>1, <1>a, AnswerPcTyped
<1>6. ASSUME NEW w \in Work, Factor!RegisterFailure(w)
      PROVE  Goal
  <2>1. \E p \in FactorPc : work' = [work EXCEPT ![w].pc = p]
    BY <1>6 DEF Factor!RegisterFailure, Factor!Goto, FactorPc
  <2> QED BY <2>1, <1>a, AnswerPcTyped
<1>7. ASSUME NEW w \in Work, Factor!Consume(w)
      PROVE  Goal
  <2>1. \E p \in FactorPc : work' = [work EXCEPT ![w].pc = p]
    BY <1>7 DEF Factor!Consume, Factor!Goto, FactorPc
  <2> QED BY <2>1, <1>a, AnswerPcTyped
<1>8. ASSUME NEW w \in Work, Factor!IssueSession(w)
      PROVE  Goal
  <2>1. \E p \in FactorPc : work' = [work EXCEPT ![w].pc = p]
    BY <1>8 DEF Factor!IssueSession, Factor!Goto, FactorPc
  <2> QED BY <2>1, <1>a, AnswerPcTyped
<1>9. ASSUME NEW w \in Work, Factor!SavePendingSecret(w)
      PROVE  Goal
  <2>1. \E p \in FactorPc : work' = [work EXCEPT ![w].pc = p]
    BY <1>9 DEF Factor!SavePendingSecret, Factor!Goto, FactorPc
  <2> QED BY <2>1, <1>a, AnswerPcTyped
<1>10. ASSUME NEW w \in Work, Factor!SaveConfirmation(w)
      PROVE  Goal
  <2>1. \E p \in FactorPc : work' = [work EXCEPT ![w].pc = p]
    BY <1>10 DEF Factor!SaveConfirmation, Factor!Goto, FactorPc
  <2> QED BY <2>1, <1>a, AnswerPcTyped
<1>11. ASSUME NEW w \in Work, Factor!DeleteCodes(w)
      PROVE  Goal
  <2> DEFINE x == [work[w] EXCEPT !.pc = "write", !.doomed = codes]
  <2>0. work[w] \in AnswerRow
    BY <1>a
  <2>1. x \in AnswerRow
    BY <2>0, <1>a, <1>b, <1>11 DEF AnswerRow, FactorPc
  <2>2. work' = [work EXCEPT ![w] = x]
    BY <1>11, <1>a DEF Factor!DeleteCodes
  <2> HIDE DEF x
  <2> QED BY <2>1, <2>2, <1>a
<1>12. ASSUME NEW w \in Work, Factor!ReplaceCodes(w)
      PROVE  Goal
  <2>1. \E p \in FactorPc : work' = [work EXCEPT ![w].pc = p]
    BY <1>12 DEF Factor!ReplaceCodes, Factor!Goto, FactorPc
  <2> QED BY <2>1, <1>a, AnswerPcTyped
<1>13. ASSUME NEW w \in Work, Factor!Clear(w)
      PROVE  Goal
  <2>1. \E p \in FactorPc : work' = [work EXCEPT ![w].pc = p]
    BY <1>13 DEF Factor!Clear, Factor!Goto, FactorPc
  <2> QED BY <2>1, <1>a, AnswerPcTyped
<1>14. ASSUME NEW w \in Work, Factor!Stop(w)
      PROVE  Goal
  <2>1. \E p \in FactorPc : work' = [work EXCEPT ![w].pc = p]
    BY <1>14 DEF Factor!Stop, Factor!Goto, FactorPc
  <2> QED BY <2>1, <1>a, AnswerPcTyped
<1>15. ASSUME NEW w \in Work, NEW c \in Challenge, Factor!Claim(w, c)
      PROVE  Goal
  <2> DEFINE x == [work[w] EXCEPT !.kind = "login", !.pc = "load", !.chal = c]
  <2>0. work[w] \in AnswerRow
    BY <1>a
  <2>1. x \in AnswerRow
    BY <2>0, <1>a, <1>b, <1>15 DEF AnswerRow, FactorPc
  <2>2. work' = [work EXCEPT ![w] = x]
    BY <1>15, <1>a DEF Factor!Claim
  <2> HIDE DEF x
  <2> QED BY <2>1, <2>2, <1>a
<1>16. ASSUME NEW w \in Work, NEW kind \in Kind, Factor!Ask(w, kind)
      PROVE  Goal
  <2> DEFINE x == [work[w] EXCEPT !.kind = kind, !.pc = "load"]
  <2>0. work[w] \in AnswerRow
    BY <1>a
  <2>1. x \in AnswerRow
    BY <2>0, <1>a, <1>b, <1>16 DEF AnswerRow, FactorPc, Factor!FactorAssumption
  <2>2. work' = [work EXCEPT ![w] = x]
    BY <1>16, <1>a DEF Factor!Ask
  <2> HIDE DEF x
  <2> QED BY <2>1, <2>2, <1>a
<1>17. ASSUME NEW w \in Work, NEW secret \in 1..secrets, NEW d \in Steps,
             Factor!SpendCode(w, secret, now + d)
      PROVE  Goal
  <2> DEFINE ans == [secret |-> secret, step |-> now + d]
  <2>1. \/ work' = [work EXCEPT ![w].pc = "failed"]
        \/ work' = [work EXCEPT ![w].pc = "clear", ![w].answer = ans]
    BY <1>17 DEF Factor!SpendCode, Factor!Accept, Factor!Goto
  <2>2. ans \in TotpAnswer
    BY <1>17, <1>a, <1>b DEF TotpAnswer, AnswerRow, Factor!FactorAssumption
  <2>3. ans \in TotpAnswer \cup RecoveryAnswer
    BY <2>2
  <2> HIDE DEF ans
  <2> DEFINE x == [work[w] EXCEPT !.pc = "clear", !.answer = ans]
  <2>0. work[w] \in AnswerRow
    BY <1>a
  <2>4. x \in AnswerRow
    BY <2>0, <2>3, AnsweredTyped
  <2>5. CASE work' = [work EXCEPT ![w].pc = "failed"]
    BY <2>5, <1>a, AnswerPcTyped DEF FactorPc
  <2>6. CASE work' = [work EXCEPT ![w].pc = "clear", ![w].answer = ans]
    <3>1. work' = [work EXCEPT ![w] = x]
      BY <2>6, <1>a
    <3> HIDE DEF x
    <3> QED BY <3>1, <2>4, <1>a
  <2> QED BY <2>1, <2>5, <2>6
<1>18. ASSUME NEW w \in Work, NEW code \in work[w].codes, Factor!SpendRecovery(w, code)
      PROVE  Goal
  <2> DEFINE ans == [recovery |-> code]
  <2>1. \/ work' = [work EXCEPT ![w].pc = "failed"]
        \/ work' = [work EXCEPT ![w].pc = "clear", ![w].answer = ans]
    BY <1>18 DEF Factor!SpendRecovery, Factor!Accept, Factor!Goto
  <2>2. ans \in RecoveryAnswer
    BY <1>18, <1>a, <1>b DEF RecoveryAnswer, AnswerRow, Factor!FactorAssumption
  <2>3. ans \in TotpAnswer \cup RecoveryAnswer
    BY <2>2
  <2> HIDE DEF ans
  <2> DEFINE x == [work[w] EXCEPT !.pc = "clear", !.answer = ans]
  <2>0. work[w] \in AnswerRow
    BY <1>a
  <2>4. x \in AnswerRow
    BY <2>0, <2>3, AnsweredTyped
  <2>5. CASE work' = [work EXCEPT ![w].pc = "failed"]
    BY <2>5, <1>a, AnswerPcTyped DEF FactorPc
  <2>6. CASE work' = [work EXCEPT ![w].pc = "clear", ![w].answer = ans]
    <3>1. work' = [work EXCEPT ![w] = x]
      BY <2>6, <1>a
    <3> HIDE DEF x
    <3> QED BY <3>1, <2>4, <1>a
  <2> QED BY <2>1, <2>5, <2>6
<1>19. ASSUME Factor!Tick
      PROVE  Goal
  BY <1>19, <1>a DEF Factor!Tick, Factor!ghosts
<1> QED
  BY <1>0, <1>1, <1>2, <1>3, <1>4, <1>5, <1>6, <1>7, <1>8, <1>9, <1>10, <1>11, <1>12,
      <1>13, <1>14, <1>15, <1>16, <1>17, <1>18, <1>19 DEF Factor!Next

LEMMA LockTyped ==
  ASSUME Factor!FactorAssumption, NEW f \in Nat
  PROVE  Factor!LockDuration(f) \in Int
<1>1. f % Threshold \in Int /\ f \div Threshold \in Int
  BY DEF Factor!FactorAssumption
<1> DEFINE n == (f \div Threshold) - 1
<1>2. n \in Int
  BY <1>1
<1> HIDE DEF n
<1>3. 2^n \in Int
  BY <1>2
<1>4. LockBase * 2^n \in Int
  BY <1>3 DEF Factor!FactorAssumption
<1> QED BY <1>4 DEF Factor!LockDuration, Factor!FactorAssumption, n

LEMMA FreshRowTyped ==
  ASSUME NEW n \in Nat
  PROVE  [enabled |-> FALSE, secret |-> n + 1, last |-> None, failed |-> 0, locked |-> 0]
           \in FactorRow
<1>1. n + 1 \in Nat /\ 0 \in Nat /\ 0 \in Int /\ None \in Int \cup {None}
        /\ FALSE \in BOOLEAN
  OBVIOUS
<1> QED BY <1>1 DEF FactorRow

LEMMA RowTypedStep ==
  ASSUME Factor!FactorAssumption, FInv, [Factor!Next]_Factor!vars
  PROVE  row' \in FactorRow
<1>a. row \in FactorRow /\ work \in [Work -> AnswerRow]
  BY DEF FInv, FTyped
<1>b. secrets \in Nat /\ now \in 0..MaxTime
  BY DEF FInv, FTyped
<1>0. CASE UNCHANGED Factor!vars
  BY <1>0, <1>a, <1>b DEF Factor!vars, FactorRow
<1> DEFINE Goal == row' \in FactorRow
<1>1. ASSUME NEW w \in Work, Factor!Load(w)
      PROVE  Goal
  BY <1>1, <1>a, <1>b DEF Factor!Load, Factor!Goto, Factor!ghosts, FactorRow
<1>2. ASSUME NEW w \in Work, Factor!Drop(w)
      PROVE  Goal
  BY <1>2, <1>a, <1>b DEF Factor!Drop, Factor!Goto, Factor!ghosts, FactorRow
<1>3. ASSUME NEW w \in Work, Factor!Reserve(w)
      PROVE  Goal
  <2> DEFINE f == work[w].read.failed + 1
             l == IF Factor!LockDuration(f) > 0 THEN now + Factor!LockDuration(f) ELSE 0
  <2>1. row' = row \/ row' = [row EXCEPT !.failed = f, !.locked = l]
    BY <1>3 DEF Factor!Reserve, Factor!CountedTo
  <2>2. work[w].read \in FactorRow
    BY <1>a DEF AnswerRow
  <2>3. f \in Nat
    BY <2>2 DEF FactorRow
  <2>4. Factor!LockDuration(f) \in Int
    BY <2>3, LockTyped
  <2>5. l \in Int
    BY <2>4, <1>b DEF Factor!FactorAssumption
  <2> HIDE DEF f, l
  <2> QED BY <2>1, <2>3, <2>5, <1>a DEF FactorRow
<1>4. ASSUME NEW w \in Work, Factor!Wrong(w)
      PROVE  Goal
  BY <1>4, <1>a, <1>b DEF Factor!Wrong, Factor!Goto, Factor!ghosts, FactorRow
<1>5. ASSUME NEW w \in Work, Factor!ClearFailedAttempts(w)
      PROVE  Goal
  <2> DEFINE f == 0
  <2>1. row' = row \/ row' = [row EXCEPT !.failed = f, !.locked = f]
    BY <1>5 DEF Factor!ClearFailedAttempts
  <2>2. f \in Nat /\ f \in Int
    OBVIOUS
  <2> HIDE DEF f
  <2> QED BY <2>1, <2>2, <1>a DEF FactorRow
<1>6. ASSUME NEW w \in Work, Factor!RegisterFailure(w)
      PROVE  Goal
  BY <1>6, <1>a, <1>b DEF Factor!RegisterFailure, Factor!Goto, Factor!ghosts, FactorRow
<1>7. ASSUME NEW w \in Work, Factor!Consume(w)
      PROVE  Goal
  BY <1>7, <1>a, <1>b DEF Factor!Consume, Factor!Goto, Factor!ghosts, FactorRow
<1>8. ASSUME NEW w \in Work, Factor!IssueSession(w)
      PROVE  Goal
  BY <1>8, <1>a, <1>b DEF Factor!IssueSession, Factor!Goto, Factor!ghosts, FactorRow
<1>9. ASSUME NEW w \in Work, Factor!SavePendingSecret(w)
      PROVE  Goal
  <2> DEFINE x == [enabled |-> FALSE, secret |-> secrets + 1, last |-> None, failed |-> 0,
                   locked |-> 0]
  <2>1. row' = x
    BY <1>9 DEF Factor!SavePendingSecret, Factor!NoRow
  <2>2. x \in FactorRow
    BY <1>b, FreshRowTyped
  <2> QED BY <2>1, <2>2
<1>10. ASSUME NEW w \in Work, Factor!SaveConfirmation(w)
      PROVE  Goal
  BY <1>10, <1>a, <1>b DEF Factor!SaveConfirmation, Factor!Goto, Factor!ghosts,
      FactorRow
<1>11. ASSUME NEW w \in Work, Factor!DeleteCodes(w)
      PROVE  Goal
  BY <1>11, <1>a, <1>b DEF Factor!DeleteCodes, Factor!Goto, Factor!ghosts, FactorRow
<1>12. ASSUME NEW w \in Work, Factor!ReplaceCodes(w)
      PROVE  Goal
  BY <1>12, <1>a, <1>b DEF Factor!ReplaceCodes, Factor!Goto, Factor!ghosts, FactorRow
<1>13. ASSUME NEW w \in Work, Factor!Clear(w)
      PROVE  Goal
  BY <1>13, <1>a, <1>b DEF Factor!Clear, Factor!Goto, Factor!ghosts, FactorRow,
      Factor!NoRow
<1>14. ASSUME NEW w \in Work, Factor!Stop(w)
      PROVE  Goal
  BY <1>14, <1>a, <1>b DEF Factor!Stop, Factor!Goto, Factor!ghosts, FactorRow
<1>15. ASSUME NEW w \in Work, NEW c \in Challenge, Factor!Claim(w, c)
      PROVE  Goal
  BY <1>15, <1>a, <1>b DEF Factor!Claim, Factor!ghosts, FactorRow
<1>16. ASSUME NEW w \in Work, NEW kind \in Kind, Factor!Ask(w, kind)
      PROVE  Goal
  BY <1>16, <1>a, <1>b DEF Factor!Ask, Factor!ghosts, FactorRow
<1>17. ASSUME NEW w \in Work, NEW secret \in 1..secrets, NEW d \in Steps,
             Factor!SpendCode(w, secret, now + d)
      PROVE  Goal
  <2>1. row' = row \/ row' = [row EXCEPT !.last = now + d]
    BY <1>17 DEF Factor!SpendCode, Factor!Goto
  <2>2. d \in Int
    BY <1>17 DEF Factor!FactorAssumption
  <2>3. now + d \in Int
    BY <1>b, <2>2
  <2> QED BY <2>1, <2>3, <1>a DEF FactorRow
<1>18. ASSUME NEW w \in Work, NEW code \in work[w].codes, Factor!SpendRecovery(w, code)
      PROVE  Goal
  BY <1>18, <1>a, <1>b DEF Factor!SpendRecovery, Factor!Accept, Factor!Goto,
      Factor!ghosts, FactorRow
<1>19. ASSUME Factor!Tick
      PROVE  Goal
  BY <1>19, <1>a, <1>b DEF Factor!Tick, Factor!ghosts, FactorRow
<1> QED
  BY <1>0, <1>1, <1>2, <1>3, <1>4, <1>5, <1>6, <1>7, <1>8, <1>9, <1>10, <1>11, <1>12,
      <1>13, <1>14, <1>15, <1>16, <1>17, <1>18, <1>19 DEF Factor!Next

LEMMA ChallengeTypedStep ==
  ASSUME Factor!FactorAssumption, FInv, [Factor!Next]_Factor!vars
  PROVE  chal' \in [Challenge -> ChallengeRow]
<1>a. chal \in [Challenge -> ChallengeRow] /\ work \in [Work -> AnswerRow]
  BY DEF FInv, FTyped
<1>b. \A v \in Work : KindSound(v) /\ ChallengeHeld(v)
  BY DEF FInv, KindsSound, ChallengesHeld
<1>c. \A d \in Challenge : ClaimedChallenge(d)
  BY DEF FInv, ClaimsCounted
<1>0. CASE UNCHANGED Factor!vars
  BY <1>0, <1>a DEF Factor!vars, ChallengeRow
<1> DEFINE Goal == chal' \in [Challenge -> ChallengeRow]
<1>1. ASSUME NEW w \in Work, Factor!Load(w)
      PROVE  Goal
  BY <1>1, <1>a DEF Factor!Load, Factor!Goto, Factor!ghosts, ChallengeRow
<1>2. ASSUME NEW w \in Work, Factor!Drop(w)
      PROVE  Goal
  BY <1>2, <1>a DEF Factor!Drop, Factor!Goto, Factor!ghosts, ChallengeRow
<1>3. ASSUME NEW w \in Work, Factor!Reserve(w)
      PROVE  Goal
  BY <1>3, <1>a DEF Factor!Reserve, Factor!Goto, Factor!ghosts, ChallengeRow
<1>4. ASSUME NEW w \in Work, Factor!Wrong(w)
      PROVE  Goal
  BY <1>4, <1>a DEF Factor!Wrong, Factor!Goto, Factor!ghosts, ChallengeRow
<1>5. ASSUME NEW w \in Work, Factor!ClearFailedAttempts(w)
      PROVE  Goal
  BY <1>5, <1>a DEF Factor!ClearFailedAttempts, Factor!Goto, Factor!ghosts, ChallengeRow
<1>6. ASSUME NEW w \in Work, Factor!RegisterFailure(w)
      PROVE  Goal
  <2> DEFINE d == work[w].chal
  <2>1. CASE work[w].kind = "login"
    <3>1. d \in Challenge /\ chal[d] \in ChallengeRow /\ chal[d].state = "claimed"
      BY <1>6, <2>1, <1>a, <1>b
         DEF Factor!RegisterFailure, KindSound, ChallengeHeld, Answering
    <3>2. chal[d].attempts + 1 \in 0..MaxAttempts
      BY <3>1, <1>c DEF ChallengeRow, ClaimedChallenge, Factor!FactorAssumption
    <3>3. chal' = [chal EXCEPT ![d].state = "open", ![d].attempts = chal[d].attempts + 1]
      BY <1>6, <2>1, <3>1 DEF Factor!RegisterFailure
    <3> DEFINE x == [chal[d] EXCEPT !.state = "open", !.attempts = chal[d].attempts + 1]
    <3>4. x \in ChallengeRow
      BY <3>1, <3>2 DEF ChallengeRow
    <3>5. chal' = [chal EXCEPT ![d] = x]
      BY <3>1, <3>3, <1>a
    <3> HIDE DEF x
    <3> QED BY <3>4, <3>5, <1>a
  <2>2. CASE work[w].kind # "login"
    BY <1>6, <2>2, <1>a DEF Factor!RegisterFailure
  <2> QED BY <2>1, <2>2
<1>7. ASSUME NEW w \in Work, Factor!Consume(w)
      PROVE  Goal
  BY <1>7, <1>a DEF Factor!Consume, Factor!Goto, Factor!ghosts, ChallengeRow
<1>8. ASSUME NEW w \in Work, Factor!IssueSession(w)
      PROVE  Goal
  BY <1>8, <1>a DEF Factor!IssueSession, Factor!Goto, Factor!ghosts, ChallengeRow
<1>9. ASSUME NEW w \in Work, Factor!SavePendingSecret(w)
      PROVE  Goal
  BY <1>9, <1>a DEF Factor!SavePendingSecret, Factor!Goto, Factor!ghosts, ChallengeRow
<1>10. ASSUME NEW w \in Work, Factor!SaveConfirmation(w)
      PROVE  Goal
  BY <1>10, <1>a DEF Factor!SaveConfirmation, Factor!Goto, Factor!ghosts, ChallengeRow
<1>11. ASSUME NEW w \in Work, Factor!DeleteCodes(w)
      PROVE  Goal
  BY <1>11, <1>a DEF Factor!DeleteCodes, Factor!Goto, Factor!ghosts, ChallengeRow
<1>12. ASSUME NEW w \in Work, Factor!ReplaceCodes(w)
      PROVE  Goal
  BY <1>12, <1>a DEF Factor!ReplaceCodes, Factor!Goto, Factor!ghosts, ChallengeRow
<1>13. ASSUME NEW w \in Work, Factor!Clear(w)
      PROVE  Goal
  BY <1>13, <1>a DEF Factor!Clear, Factor!Goto, Factor!ghosts, ChallengeRow
<1>14. ASSUME NEW w \in Work, Factor!Stop(w)
      PROVE  Goal
  BY <1>14, <1>a DEF Factor!Stop, Factor!Goto, Factor!ghosts, ChallengeRow
<1>15. ASSUME NEW w \in Work, NEW c \in Challenge, Factor!Claim(w, c)
      PROVE  Goal
  BY <1>15, <1>a DEF Factor!Claim, Factor!ghosts, ChallengeRow
<1>16. ASSUME NEW w \in Work, NEW kind \in Kind, Factor!Ask(w, kind)
      PROVE  Goal
  BY <1>16, <1>a DEF Factor!Ask, Factor!ghosts, ChallengeRow
<1>17. ASSUME NEW w \in Work, NEW secret \in 1..secrets, NEW d \in Steps,
             Factor!SpendCode(w, secret, now + d)
      PROVE  Goal
  BY <1>17, <1>a DEF Factor!SpendCode, Factor!Accept, Factor!Goto, Factor!ghosts,
      ChallengeRow
<1>18. ASSUME NEW w \in Work, NEW code \in work[w].codes, Factor!SpendRecovery(w, code)
      PROVE  Goal
  BY <1>18, <1>a DEF Factor!SpendRecovery, Factor!Accept, Factor!Goto, Factor!ghosts,
      ChallengeRow
<1>19. ASSUME Factor!Tick
      PROVE  Goal
  BY <1>19, <1>a DEF Factor!Tick, Factor!ghosts, ChallengeRow
<1> QED
  BY <1>0, <1>1, <1>2, <1>3, <1>4, <1>5, <1>6, <1>7, <1>8, <1>9, <1>10, <1>11, <1>12,
      <1>13, <1>14, <1>15, <1>16, <1>17, <1>18, <1>19 DEF Factor!Next

LEMMA CountsTypedStep ==
  ASSUME Factor!FactorAssumption, FInv, [Factor!Next]_Factor!vars
  PROVE  /\ now' \in 0..MaxTime /\ since' \in Nat /\ since' <= now'
         /\ right' \in Nat /\ checked' \in Nat /\ secrets' \in Nat /\ stale' \in BOOLEAN
<1>a. /\ now \in 0..MaxTime /\ since \in Nat /\ since <= now
      /\ right \in Nat /\ checked \in Nat /\ secrets \in Nat /\ stale \in BOOLEAN
  BY DEF FInv, FTyped
<1>0. CASE UNCHANGED Factor!vars
  BY <1>0, <1>a DEF Factor!vars, Factor!FactorAssumption
<1> DEFINE Goal ==
         /\ now' \in 0..MaxTime /\ since' \in Nat /\ since' <= now'
         /\ right' \in Nat /\ checked' \in Nat /\ secrets' \in Nat /\ stale' \in BOOLEAN
<1>1. ASSUME NEW w \in Work, Factor!Load(w)
      PROVE  Goal
  BY <1>1, <1>a DEF Factor!Load, Factor!Goto, Factor!ghosts, Factor!FactorAssumption
<1>2. ASSUME NEW w \in Work, Factor!Drop(w)
      PROVE  Goal
  BY <1>2, <1>a DEF Factor!Drop, Factor!Goto, Factor!ghosts, Factor!FactorAssumption
<1>3. ASSUME NEW w \in Work, Factor!Reserve(w)
      PROVE  Goal
  <2>1. /\ now' = now /\ since' \in {since, now} /\ right' \in {right, right + 1}
        /\ checked' \in {checked, checked + 1, 0} /\ secrets' \in {secrets, secrets + 1}
    BY <1>3 DEF Factor!Reserve
  <2>2. stale' \in BOOLEAN
    BY <1>3, <1>a DEF Factor!Reserve
  <2> QED BY <2>1, <2>2, <1>a
<1>4. ASSUME NEW w \in Work, Factor!Wrong(w)
      PROVE  Goal
  BY <1>4, <1>a DEF Factor!Wrong, Factor!Goto, Factor!ghosts, Factor!FactorAssumption
<1>5. ASSUME NEW w \in Work, Factor!ClearFailedAttempts(w)
      PROVE  Goal
  <2>1. /\ now' = now /\ since' \in {since, now} /\ right' \in {right, right + 1}
        /\ checked' \in {checked, checked + 1, 0} /\ secrets' \in {secrets, secrets + 1}
    BY <1>5 DEF Factor!ClearFailedAttempts
  <2>2. stale' \in BOOLEAN
    BY <1>5, <1>a DEF Factor!ClearFailedAttempts
  <2> QED BY <2>1, <2>2, <1>a
<1>6. ASSUME NEW w \in Work, Factor!RegisterFailure(w)
      PROVE  Goal
  BY <1>6, <1>a DEF Factor!RegisterFailure, Factor!Goto, Factor!ghosts,
      Factor!FactorAssumption
<1>7. ASSUME NEW w \in Work, Factor!Consume(w)
      PROVE  Goal
  BY <1>7, <1>a DEF Factor!Consume, Factor!Goto, Factor!ghosts, Factor!FactorAssumption
<1>8. ASSUME NEW w \in Work, Factor!IssueSession(w)
      PROVE  Goal
  BY <1>8, <1>a DEF Factor!IssueSession, Factor!Goto, Factor!ghosts,
      Factor!FactorAssumption
<1>9. ASSUME NEW w \in Work, Factor!SavePendingSecret(w)
      PROVE  Goal
  <2>1. /\ now' = now /\ since' \in {since, now} /\ right' \in {right, right + 1}
        /\ checked' \in {checked, checked + 1, 0} /\ secrets' \in {secrets, secrets + 1}
    BY <1>9 DEF Factor!SavePendingSecret
  <2>2. stale' \in BOOLEAN
    BY <1>9, <1>a DEF Factor!SavePendingSecret
  <2> QED BY <2>1, <2>2, <1>a
<1>10. ASSUME NEW w \in Work, Factor!SaveConfirmation(w)
      PROVE  Goal
  BY <1>10, <1>a DEF Factor!SaveConfirmation, Factor!Goto, Factor!ghosts,
      Factor!FactorAssumption
<1>11. ASSUME NEW w \in Work, Factor!DeleteCodes(w)
      PROVE  Goal
  BY <1>11, <1>a DEF Factor!DeleteCodes, Factor!Goto, Factor!ghosts,
      Factor!FactorAssumption
<1>12. ASSUME NEW w \in Work, Factor!ReplaceCodes(w)
      PROVE  Goal
  BY <1>12, <1>a DEF Factor!ReplaceCodes, Factor!Goto, Factor!ghosts,
      Factor!FactorAssumption
<1>13. ASSUME NEW w \in Work, Factor!Clear(w)
      PROVE  Goal
  BY <1>13, <1>a DEF Factor!Clear, Factor!Goto, Factor!ghosts, Factor!FactorAssumption
<1>14. ASSUME NEW w \in Work, Factor!Stop(w)
      PROVE  Goal
  BY <1>14, <1>a DEF Factor!Stop, Factor!Goto, Factor!ghosts, Factor!FactorAssumption
<1>15. ASSUME NEW w \in Work, NEW c \in Challenge, Factor!Claim(w, c)
      PROVE  Goal
  BY <1>15, <1>a DEF Factor!Claim, Factor!ghosts, Factor!FactorAssumption
<1>16. ASSUME NEW w \in Work, NEW kind \in Kind, Factor!Ask(w, kind)
      PROVE  Goal
  BY <1>16, <1>a DEF Factor!Ask, Factor!ghosts, Factor!FactorAssumption
<1>17. ASSUME NEW w \in Work, NEW secret \in 1..secrets, NEW d \in Steps,
             Factor!SpendCode(w, secret, now + d)
      PROVE  Goal
  BY <1>17, <1>a DEF Factor!SpendCode, Factor!Accept, Factor!Goto, Factor!ghosts,
      Factor!FactorAssumption
<1>18. ASSUME NEW w \in Work, NEW code \in work[w].codes, Factor!SpendRecovery(w, code)
      PROVE  Goal
  BY <1>18, <1>a DEF Factor!SpendRecovery, Factor!Accept, Factor!Goto, Factor!ghosts,
      Factor!FactorAssumption
<1>19. ASSUME Factor!Tick
      PROVE  Goal
  BY <1>19, <1>a DEF Factor!Tick, Factor!ghosts, Factor!FactorAssumption
<1> QED
  BY <1>0, <1>1, <1>2, <1>3, <1>4, <1>5, <1>6, <1>7, <1>8, <1>9, <1>10, <1>11, <1>12,
      <1>13, <1>14, <1>15, <1>16, <1>17, <1>18, <1>19 DEF Factor!Next

LEMMA AnswersTypedStep ==
  ASSUME Factor!FactorAssumption, FInv, [Factor!Next]_Factor!vars
  PROVE  /\ codes' \subseteq Work \cup {None}
         /\ accepted' \subseteq AcceptedRow /\ sessions' \subseteq Work
<1>a. /\ codes \subseteq Work \cup {None}
      /\ accepted \subseteq AcceptedRow /\ sessions \subseteq Work
  BY DEF FInv, FTyped
<1>b. work \in [Work -> AnswerRow] /\ now \in 0..MaxTime /\ secrets \in Nat
  BY DEF FInv, FTyped
<1>0. CASE UNCHANGED Factor!vars
  BY <1>0, <1>a DEF Factor!vars
<1> DEFINE Goal ==
         /\ codes' \subseteq Work \cup {None}
         /\ accepted' \subseteq AcceptedRow /\ sessions' \subseteq Work
<1>1. ASSUME NEW w \in Work, Factor!Load(w)
      PROVE  Goal
  BY <1>1, <1>a DEF Factor!Load, Factor!Goto, Factor!ghosts
<1>2. ASSUME NEW w \in Work, Factor!Drop(w)
      PROVE  Goal
  BY <1>2, <1>a DEF Factor!Drop, Factor!Goto, Factor!ghosts
<1>3. ASSUME NEW w \in Work, Factor!Reserve(w)
      PROVE  Goal
  BY <1>3, <1>a DEF Factor!Reserve, Factor!Goto, Factor!ghosts
<1>4. ASSUME NEW w \in Work, Factor!Wrong(w)
      PROVE  Goal
  BY <1>4, <1>a DEF Factor!Wrong, Factor!Goto, Factor!ghosts
<1>5. ASSUME NEW w \in Work, Factor!ClearFailedAttempts(w)
      PROVE  Goal
  BY <1>5, <1>a DEF Factor!ClearFailedAttempts, Factor!Goto, Factor!ghosts
<1>6. ASSUME NEW w \in Work, Factor!RegisterFailure(w)
      PROVE  Goal
  BY <1>6, <1>a DEF Factor!RegisterFailure, Factor!Goto, Factor!ghosts
<1>7. ASSUME NEW w \in Work, Factor!Consume(w)
      PROVE  Goal
  BY <1>7, <1>a DEF Factor!Consume, Factor!Goto, Factor!ghosts
<1>8. ASSUME NEW w \in Work, Factor!IssueSession(w)
      PROVE  Goal
  BY <1>8, <1>a DEF Factor!IssueSession, Factor!Goto, Factor!ghosts
<1>9. ASSUME NEW w \in Work, Factor!SavePendingSecret(w)
      PROVE  Goal
  BY <1>9, <1>a DEF Factor!SavePendingSecret, Factor!Goto, Factor!ghosts
<1>10. ASSUME NEW w \in Work, Factor!SaveConfirmation(w)
      PROVE  Goal
  BY <1>10, <1>a DEF Factor!SaveConfirmation, Factor!Goto, Factor!ghosts
<1>11. ASSUME NEW w \in Work, Factor!DeleteCodes(w)
      PROVE  Goal
  BY <1>11, <1>a DEF Factor!DeleteCodes, Factor!Goto, Factor!ghosts
<1>12. ASSUME NEW w \in Work, Factor!ReplaceCodes(w)
      PROVE  Goal
  BY <1>12, <1>a DEF Factor!ReplaceCodes, Factor!Goto, Factor!ghosts
<1>13. ASSUME NEW w \in Work, Factor!Clear(w)
      PROVE  Goal
  BY <1>13, <1>a DEF Factor!Clear, Factor!Goto, Factor!ghosts
<1>14. ASSUME NEW w \in Work, Factor!Stop(w)
      PROVE  Goal
  BY <1>14, <1>a DEF Factor!Stop, Factor!Goto, Factor!ghosts
<1>15. ASSUME NEW w \in Work, NEW c \in Challenge, Factor!Claim(w, c)
      PROVE  Goal
  BY <1>15, <1>a DEF Factor!Claim, Factor!ghosts
<1>16. ASSUME NEW w \in Work, NEW kind \in Kind, Factor!Ask(w, kind)
      PROVE  Goal
  BY <1>16, <1>a DEF Factor!Ask, Factor!ghosts
<1>17. ASSUME NEW w \in Work, NEW secret \in 1..secrets, NEW d \in Steps,
             Factor!SpendCode(w, secret, now + d)
      PROVE  Goal
  <2> DEFINE ans == [secret |-> secret, step |-> now + d]
  <2>1. /\ \/ accepted' = accepted
           \/ accepted' = accepted \cup {[by |-> w, answer |-> ans]}
        /\ sessions' = sessions /\ codes' \subseteq codes
    BY <1>17 DEF Factor!SpendCode, Factor!Accept, Factor!ghosts
  <2>2. ans \in TotpAnswer
    BY <1>17, <1>b DEF TotpAnswer, AnswerRow, Factor!FactorAssumption
  <2>3. ans \in TotpAnswer \cup RecoveryAnswer
    BY <2>2
  <2> HIDE DEF ans
  <2>4. [by |-> w, answer |-> ans] \in AcceptedRow
    BY <2>3 DEF AcceptedRow
  <2> QED BY <2>1, <2>4, <1>a
<1>18. ASSUME NEW w \in Work, NEW code \in work[w].codes, Factor!SpendRecovery(w, code)
      PROVE  Goal
  <2> DEFINE ans == [recovery |-> code]
  <2>1. /\ \/ accepted' = accepted
           \/ accepted' = accepted \cup {[by |-> w, answer |-> ans]}
        /\ sessions' = sessions /\ codes' \subseteq codes
    BY <1>18 DEF Factor!SpendRecovery, Factor!Accept, Factor!ghosts
  <2>2. ans \in RecoveryAnswer
    BY <1>18, <1>b DEF RecoveryAnswer, AnswerRow, Factor!FactorAssumption
  <2>3. ans \in TotpAnswer \cup RecoveryAnswer
    BY <2>2
  <2> HIDE DEF ans
  <2>4. [by |-> w, answer |-> ans] \in AcceptedRow
    BY <2>3 DEF AcceptedRow
  <2> QED BY <2>1, <2>4, <1>a
<1>19. ASSUME Factor!Tick
      PROVE  Goal
  BY <1>19, <1>a DEF Factor!Tick, Factor!ghosts
<1> QED
  BY <1>0, <1>1, <1>2, <1>3, <1>4, <1>5, <1>6, <1>7, <1>8, <1>9, <1>10, <1>11, <1>12,
      <1>13, <1>14, <1>15, <1>16, <1>17, <1>18, <1>19 DEF Factor!Next

LEMMA FinishedStays ==
  ASSUME NEW z, Factor!FactorAssumption, FInv, [Factor!Next]_Factor!vars, z \in Work,
         work[z].pc \in Finished
  PROVE  work'[z] = work[z]
<1>a. work \in [Work -> AnswerRow]
  BY DEF FInv, FTyped
<1>0. CASE UNCHANGED Factor!vars
  BY <1>0, <1>a DEF Factor!vars, Finished
<1> DEFINE Goal == work'[z] = work[z]
<1>1. ASSUME NEW w \in Work, Factor!Load(w)
      PROVE  Goal
  BY <1>1, <1>a DEF Factor!Load, Factor!Goto, Factor!ghosts, Finished
<1>2. ASSUME NEW w \in Work, Factor!Drop(w)
      PROVE  Goal
  BY <1>2, <1>a DEF Factor!Drop, Factor!Goto, Factor!ghosts, Finished
<1>3. ASSUME NEW w \in Work, Factor!Reserve(w)
      PROVE  Goal
  BY <1>3, <1>a DEF Factor!Reserve, Factor!Goto, Factor!ghosts, Finished
<1>4. ASSUME NEW w \in Work, Factor!Wrong(w)
      PROVE  Goal
  BY <1>4, <1>a DEF Factor!Wrong, Factor!Goto, Factor!ghosts, Finished
<1>5. ASSUME NEW w \in Work, Factor!ClearFailedAttempts(w)
      PROVE  Goal
  BY <1>5, <1>a DEF Factor!ClearFailedAttempts, Factor!Goto, Factor!ghosts, Finished
<1>6. ASSUME NEW w \in Work, Factor!RegisterFailure(w)
      PROVE  Goal
  BY <1>6, <1>a DEF Factor!RegisterFailure, Factor!Goto, Factor!ghosts, Finished
<1>7. ASSUME NEW w \in Work, Factor!Consume(w)
      PROVE  Goal
  BY <1>7, <1>a DEF Factor!Consume, Factor!Goto, Factor!ghosts, Finished
<1>8. ASSUME NEW w \in Work, Factor!IssueSession(w)
      PROVE  Goal
  BY <1>8, <1>a DEF Factor!IssueSession, Factor!Goto, Factor!ghosts, Finished
<1>9. ASSUME NEW w \in Work, Factor!SavePendingSecret(w)
      PROVE  Goal
  BY <1>9, <1>a DEF Factor!SavePendingSecret, Factor!Goto, Factor!ghosts, Finished
<1>10. ASSUME NEW w \in Work, Factor!SaveConfirmation(w)
      PROVE  Goal
  BY <1>10, <1>a DEF Factor!SaveConfirmation, Factor!Goto, Factor!ghosts, Finished
<1>11. ASSUME NEW w \in Work, Factor!DeleteCodes(w)
      PROVE  Goal
  BY <1>11, <1>a DEF Factor!DeleteCodes, Factor!Goto, Factor!ghosts, Finished
<1>12. ASSUME NEW w \in Work, Factor!ReplaceCodes(w)
      PROVE  Goal
  BY <1>12, <1>a DEF Factor!ReplaceCodes, Factor!Goto, Factor!ghosts, Finished
<1>13. ASSUME NEW w \in Work, Factor!Clear(w)
      PROVE  Goal
  BY <1>13, <1>a DEF Factor!Clear, Factor!Goto, Factor!ghosts, Finished
<1>14. ASSUME NEW w \in Work, Factor!Stop(w)
      PROVE  Goal
  BY <1>14, <1>a DEF Factor!Stop, Factor!Goto, Factor!ghosts, Finished
<1>15. ASSUME NEW w \in Work, NEW c \in Challenge, Factor!Claim(w, c)
      PROVE  Goal
  BY <1>15, <1>a DEF Factor!Claim, Factor!ghosts, Finished
<1>16. ASSUME NEW w \in Work, NEW kind \in Kind, Factor!Ask(w, kind)
      PROVE  Goal
  BY <1>16, <1>a DEF Factor!Ask, Factor!ghosts, Finished
<1>17. ASSUME NEW w \in Work, NEW secret \in 1..secrets, NEW d \in Steps,
             Factor!SpendCode(w, secret, now + d)
      PROVE  Goal
  BY <1>17, <1>a DEF Factor!SpendCode, Factor!Accept, Factor!Goto, Factor!ghosts,
      Finished
<1>18. ASSUME NEW w \in Work, NEW code \in work[w].codes, Factor!SpendRecovery(w, code)
      PROVE  Goal
  BY <1>18, <1>a DEF Factor!SpendRecovery, Factor!Accept, Factor!Goto, Factor!ghosts,
      Finished
<1>19. ASSUME Factor!Tick
      PROVE  Goal
  BY <1>19, <1>a DEF Factor!Tick, Factor!ghosts, Finished
<1> QED
  BY <1>0, <1>1, <1>2, <1>3, <1>4, <1>5, <1>6, <1>7, <1>8, <1>9, <1>10, <1>11, <1>12,
      <1>13, <1>14, <1>15, <1>16, <1>17, <1>18, <1>19 DEF Factor!Next

LEMMA KindStays ==
  ASSUME NEW z, Factor!FactorAssumption, FInv, [Factor!Next]_Factor!vars, z \in Work,
         work[z].kind # "none"
  PROVE  work'[z].kind = work[z].kind /\ work'[z].chal = work[z].chal
<1>a. work \in [Work -> AnswerRow]
  BY DEF FInv, FTyped
<1>b. work[z] \in AnswerRow /\ (work[z].kind = "none" <=> work[z].pc = "idle")
  BY <1>a DEF FInv, KindsSound, KindSound
<1>0. CASE UNCHANGED Factor!vars
  BY <1>0, <1>a, <1>b DEF Factor!vars, AnswerRow
<1> DEFINE Goal == work'[z].kind = work[z].kind /\ work'[z].chal = work[z].chal
<1>1. ASSUME NEW w \in Work, Factor!Load(w)
      PROVE  Goal
  BY <1>1, <1>a, <1>b DEF Factor!Load, Factor!Goto, Factor!ghosts, AnswerRow
<1>2. ASSUME NEW w \in Work, Factor!Drop(w)
      PROVE  Goal
  BY <1>2, <1>a, <1>b DEF Factor!Drop, Factor!Goto, Factor!ghosts, AnswerRow
<1>3. ASSUME NEW w \in Work, Factor!Reserve(w)
      PROVE  Goal
  BY <1>3, <1>a, <1>b DEF Factor!Reserve, Factor!Goto, Factor!ghosts, AnswerRow
<1>4. ASSUME NEW w \in Work, Factor!Wrong(w)
      PROVE  Goal
  BY <1>4, <1>a, <1>b DEF Factor!Wrong, Factor!Goto, Factor!ghosts, AnswerRow
<1>5. ASSUME NEW w \in Work, Factor!ClearFailedAttempts(w)
      PROVE  Goal
  BY <1>5, <1>a, <1>b DEF Factor!ClearFailedAttempts, Factor!Goto, Factor!ghosts,
      AnswerRow
<1>6. ASSUME NEW w \in Work, Factor!RegisterFailure(w)
      PROVE  Goal
  BY <1>6, <1>a, <1>b DEF Factor!RegisterFailure, Factor!Goto, Factor!ghosts, AnswerRow
<1>7. ASSUME NEW w \in Work, Factor!Consume(w)
      PROVE  Goal
  BY <1>7, <1>a, <1>b DEF Factor!Consume, Factor!Goto, Factor!ghosts, AnswerRow
<1>8. ASSUME NEW w \in Work, Factor!IssueSession(w)
      PROVE  Goal
  BY <1>8, <1>a, <1>b DEF Factor!IssueSession, Factor!Goto, Factor!ghosts, AnswerRow
<1>9. ASSUME NEW w \in Work, Factor!SavePendingSecret(w)
      PROVE  Goal
  BY <1>9, <1>a, <1>b DEF Factor!SavePendingSecret, Factor!Goto, Factor!ghosts,
      AnswerRow
<1>10. ASSUME NEW w \in Work, Factor!SaveConfirmation(w)
      PROVE  Goal
  BY <1>10, <1>a, <1>b DEF Factor!SaveConfirmation, Factor!Goto, Factor!ghosts,
      AnswerRow
<1>11. ASSUME NEW w \in Work, Factor!DeleteCodes(w)
      PROVE  Goal
  BY <1>11, <1>a, <1>b DEF Factor!DeleteCodes, Factor!Goto, Factor!ghosts, AnswerRow
<1>12. ASSUME NEW w \in Work, Factor!ReplaceCodes(w)
      PROVE  Goal
  BY <1>12, <1>a, <1>b DEF Factor!ReplaceCodes, Factor!Goto, Factor!ghosts, AnswerRow
<1>13. ASSUME NEW w \in Work, Factor!Clear(w)
      PROVE  Goal
  BY <1>13, <1>a, <1>b DEF Factor!Clear, Factor!Goto, Factor!ghosts, AnswerRow
<1>14. ASSUME NEW w \in Work, Factor!Stop(w)
      PROVE  Goal
  BY <1>14, <1>a, <1>b DEF Factor!Stop, Factor!Goto, Factor!ghosts, AnswerRow
<1>15. ASSUME NEW w \in Work, NEW c \in Challenge, Factor!Claim(w, c)
      PROVE  Goal
  BY <1>15, <1>a, <1>b DEF Factor!Claim, Factor!ghosts, AnswerRow
<1>16. ASSUME NEW w \in Work, NEW kind \in Kind, Factor!Ask(w, kind)
      PROVE  Goal
  BY <1>16, <1>a, <1>b DEF Factor!Ask, Factor!ghosts, AnswerRow
<1>17. ASSUME NEW w \in Work, NEW secret \in 1..secrets, NEW d \in Steps,
             Factor!SpendCode(w, secret, now + d)
      PROVE  Goal
  BY <1>17, <1>a, <1>b DEF Factor!SpendCode, Factor!Accept, Factor!Goto, Factor!ghosts,
      AnswerRow
<1>18. ASSUME NEW w \in Work, NEW code \in work[w].codes, Factor!SpendRecovery(w, code)
      PROVE  Goal
  BY <1>18, <1>a, <1>b DEF Factor!SpendRecovery, Factor!Accept, Factor!Goto,
      Factor!ghosts, AnswerRow
<1>19. ASSUME Factor!Tick
      PROVE  Goal
  BY <1>19, <1>a, <1>b DEF Factor!Tick, Factor!ghosts, AnswerRow
<1> QED
  BY <1>0, <1>1, <1>2, <1>3, <1>4, <1>5, <1>6, <1>7, <1>8, <1>9, <1>10, <1>11, <1>12,
      <1>13, <1>14, <1>15, <1>16, <1>17, <1>18, <1>19 DEF Factor!Next

LEMMA ReadStays ==
  ASSUME NEW z, Factor!FactorAssumption, FInv, [Factor!Next]_Factor!vars, z \in Work,
         work[z].pc \notin {"idle", "load"}
  PROVE  work'[z].read = work[z].read /\ work'[z].right = work[z].right
<1>a. work \in [Work -> AnswerRow]
  BY DEF FInv, FTyped
<1>b. work[z] \in AnswerRow
  BY <1>a
<1>0. CASE UNCHANGED Factor!vars
  BY <1>0, <1>a, <1>b DEF Factor!vars, AnswerRow
<1> DEFINE Goal == work'[z].read = work[z].read /\ work'[z].right = work[z].right
<1>1. ASSUME NEW w \in Work, Factor!Load(w)
      PROVE  Goal
  BY <1>1, <1>a, <1>b DEF Factor!Load, Factor!Goto, Factor!ghosts, AnswerRow
<1>2. ASSUME NEW w \in Work, Factor!Drop(w)
      PROVE  Goal
  BY <1>2, <1>a, <1>b DEF Factor!Drop, Factor!Goto, Factor!ghosts, AnswerRow
<1>3. ASSUME NEW w \in Work, Factor!Reserve(w)
      PROVE  Goal
  BY <1>3, <1>a, <1>b DEF Factor!Reserve, Factor!Goto, Factor!ghosts, AnswerRow
<1>4. ASSUME NEW w \in Work, Factor!Wrong(w)
      PROVE  Goal
  BY <1>4, <1>a, <1>b DEF Factor!Wrong, Factor!Goto, Factor!ghosts, AnswerRow
<1>5. ASSUME NEW w \in Work, Factor!ClearFailedAttempts(w)
      PROVE  Goal
  BY <1>5, <1>a, <1>b DEF Factor!ClearFailedAttempts, Factor!Goto, Factor!ghosts,
      AnswerRow
<1>6. ASSUME NEW w \in Work, Factor!RegisterFailure(w)
      PROVE  Goal
  BY <1>6, <1>a, <1>b DEF Factor!RegisterFailure, Factor!Goto, Factor!ghosts, AnswerRow
<1>7. ASSUME NEW w \in Work, Factor!Consume(w)
      PROVE  Goal
  BY <1>7, <1>a, <1>b DEF Factor!Consume, Factor!Goto, Factor!ghosts, AnswerRow
<1>8. ASSUME NEW w \in Work, Factor!IssueSession(w)
      PROVE  Goal
  BY <1>8, <1>a, <1>b DEF Factor!IssueSession, Factor!Goto, Factor!ghosts, AnswerRow
<1>9. ASSUME NEW w \in Work, Factor!SavePendingSecret(w)
      PROVE  Goal
  BY <1>9, <1>a, <1>b DEF Factor!SavePendingSecret, Factor!Goto, Factor!ghosts,
      AnswerRow
<1>10. ASSUME NEW w \in Work, Factor!SaveConfirmation(w)
      PROVE  Goal
  BY <1>10, <1>a, <1>b DEF Factor!SaveConfirmation, Factor!Goto, Factor!ghosts,
      AnswerRow
<1>11. ASSUME NEW w \in Work, Factor!DeleteCodes(w)
      PROVE  Goal
  BY <1>11, <1>a, <1>b DEF Factor!DeleteCodes, Factor!Goto, Factor!ghosts, AnswerRow
<1>12. ASSUME NEW w \in Work, Factor!ReplaceCodes(w)
      PROVE  Goal
  BY <1>12, <1>a, <1>b DEF Factor!ReplaceCodes, Factor!Goto, Factor!ghosts, AnswerRow
<1>13. ASSUME NEW w \in Work, Factor!Clear(w)
      PROVE  Goal
  BY <1>13, <1>a, <1>b DEF Factor!Clear, Factor!Goto, Factor!ghosts, AnswerRow
<1>14. ASSUME NEW w \in Work, Factor!Stop(w)
      PROVE  Goal
  BY <1>14, <1>a, <1>b DEF Factor!Stop, Factor!Goto, Factor!ghosts, AnswerRow
<1>15. ASSUME NEW w \in Work, NEW c \in Challenge, Factor!Claim(w, c)
      PROVE  Goal
  BY <1>15, <1>a, <1>b DEF Factor!Claim, Factor!ghosts, AnswerRow
<1>16. ASSUME NEW w \in Work, NEW kind \in Kind, Factor!Ask(w, kind)
      PROVE  Goal
  BY <1>16, <1>a, <1>b DEF Factor!Ask, Factor!ghosts, AnswerRow
<1>17. ASSUME NEW w \in Work, NEW secret \in 1..secrets, NEW d \in Steps,
             Factor!SpendCode(w, secret, now + d)
      PROVE  Goal
  BY <1>17, <1>a, <1>b DEF Factor!SpendCode, Factor!Accept, Factor!Goto, Factor!ghosts,
      AnswerRow
<1>18. ASSUME NEW w \in Work, NEW code \in work[w].codes, Factor!SpendRecovery(w, code)
      PROVE  Goal
  BY <1>18, <1>a, <1>b DEF Factor!SpendRecovery, Factor!Accept, Factor!Goto,
      Factor!ghosts, AnswerRow
<1>19. ASSUME Factor!Tick
      PROVE  Goal
  BY <1>19, <1>a, <1>b DEF Factor!Tick, Factor!ghosts, AnswerRow
<1> QED
  BY <1>0, <1>1, <1>2, <1>3, <1>4, <1>5, <1>6, <1>7, <1>8, <1>9, <1>10, <1>11, <1>12,
      <1>13, <1>14, <1>15, <1>16, <1>17, <1>18, <1>19 DEF Factor!Next

LEMMA GoneStays ==
  ASSUME NEW g, Factor!FactorAssumption, FInv, [Factor!Next]_Factor!vars,
         g \in Challenge, chal[g].state = "gone"
  PROVE  chal'[g].state = "gone"
<1>a. chal \in [Challenge -> ChallengeRow]
  BY DEF FInv, FTyped
<1>0. CASE UNCHANGED Factor!vars
  BY <1>0, <1>a DEF Factor!vars, ChallengeRow
<1> DEFINE Goal == chal'[g].state = "gone"
<1>1. ASSUME NEW w \in Work, Factor!Load(w)
      PROVE  Goal
  BY <1>1, <1>a DEF Factor!Load, Factor!Goto, Factor!ghosts, ChallengeRow
<1>2. ASSUME NEW w \in Work, Factor!Drop(w)
      PROVE  Goal
  BY <1>2, <1>a DEF Factor!Drop, Factor!Goto, Factor!ghosts, ChallengeRow
<1>3. ASSUME NEW w \in Work, Factor!Reserve(w)
      PROVE  Goal
  BY <1>3, <1>a DEF Factor!Reserve, Factor!Goto, Factor!ghosts, ChallengeRow
<1>4. ASSUME NEW w \in Work, Factor!Wrong(w)
      PROVE  Goal
  BY <1>4, <1>a DEF Factor!Wrong, Factor!Goto, Factor!ghosts, ChallengeRow
<1>5. ASSUME NEW w \in Work, Factor!ClearFailedAttempts(w)
      PROVE  Goal
  BY <1>5, <1>a DEF Factor!ClearFailedAttempts, Factor!Goto, Factor!ghosts, ChallengeRow
<1>6. ASSUME NEW w \in Work, Factor!RegisterFailure(w)
      PROVE  Goal
  BY <1>6, <1>a DEF Factor!RegisterFailure, Factor!Goto, Factor!ghosts, ChallengeRow
<1>7. ASSUME NEW w \in Work, Factor!Consume(w)
      PROVE  Goal
  BY <1>7, <1>a DEF Factor!Consume, Factor!Goto, Factor!ghosts, ChallengeRow
<1>8. ASSUME NEW w \in Work, Factor!IssueSession(w)
      PROVE  Goal
  BY <1>8, <1>a DEF Factor!IssueSession, Factor!Goto, Factor!ghosts, ChallengeRow
<1>9. ASSUME NEW w \in Work, Factor!SavePendingSecret(w)
      PROVE  Goal
  BY <1>9, <1>a DEF Factor!SavePendingSecret, Factor!Goto, Factor!ghosts, ChallengeRow
<1>10. ASSUME NEW w \in Work, Factor!SaveConfirmation(w)
      PROVE  Goal
  BY <1>10, <1>a DEF Factor!SaveConfirmation, Factor!Goto, Factor!ghosts, ChallengeRow
<1>11. ASSUME NEW w \in Work, Factor!DeleteCodes(w)
      PROVE  Goal
  BY <1>11, <1>a DEF Factor!DeleteCodes, Factor!Goto, Factor!ghosts, ChallengeRow
<1>12. ASSUME NEW w \in Work, Factor!ReplaceCodes(w)
      PROVE  Goal
  BY <1>12, <1>a DEF Factor!ReplaceCodes, Factor!Goto, Factor!ghosts, ChallengeRow
<1>13. ASSUME NEW w \in Work, Factor!Clear(w)
      PROVE  Goal
  BY <1>13, <1>a DEF Factor!Clear, Factor!Goto, Factor!ghosts, ChallengeRow
<1>14. ASSUME NEW w \in Work, Factor!Stop(w)
      PROVE  Goal
  BY <1>14, <1>a DEF Factor!Stop, Factor!Goto, Factor!ghosts, ChallengeRow
<1>15. ASSUME NEW w \in Work, NEW c \in Challenge, Factor!Claim(w, c)
      PROVE  Goal
  BY <1>15, <1>a DEF Factor!Claim, Factor!ghosts, ChallengeRow, Factor!Claimable
<1>16. ASSUME NEW w \in Work, NEW kind \in Kind, Factor!Ask(w, kind)
      PROVE  Goal
  BY <1>16, <1>a DEF Factor!Ask, Factor!ghosts, ChallengeRow
<1>17. ASSUME NEW w \in Work, NEW secret \in 1..secrets, NEW d \in Steps,
             Factor!SpendCode(w, secret, now + d)
      PROVE  Goal
  BY <1>17, <1>a DEF Factor!SpendCode, Factor!Accept, Factor!Goto, Factor!ghosts,
      ChallengeRow
<1>18. ASSUME NEW w \in Work, NEW code \in work[w].codes, Factor!SpendRecovery(w, code)
      PROVE  Goal
  BY <1>18, <1>a DEF Factor!SpendRecovery, Factor!Accept, Factor!Goto, Factor!ghosts,
      ChallengeRow
<1>19. ASSUME Factor!Tick
      PROVE  Goal
  BY <1>19, <1>a DEF Factor!Tick, Factor!ghosts, ChallengeRow
<1> QED
  BY <1>0, <1>1, <1>2, <1>3, <1>4, <1>5, <1>6, <1>7, <1>8, <1>9, <1>10, <1>11, <1>12,
      <1>13, <1>14, <1>15, <1>16, <1>17, <1>18, <1>19 DEF Factor!Next

LEMMA AcceptedGrows ==
  ASSUME Factor!FactorAssumption, FInv, [Factor!Next]_Factor!vars
  PROVE  accepted \subseteq accepted'
<1>0. CASE UNCHANGED Factor!vars
  BY <1>0 DEF Factor!vars
<1> DEFINE Goal == accepted \subseteq accepted'
<1>1. ASSUME NEW w \in Work, Factor!Load(w)
      PROVE  Goal
  BY <1>1 DEF Factor!Load, Factor!Goto, Factor!ghosts
<1>2. ASSUME NEW w \in Work, Factor!Drop(w)
      PROVE  Goal
  BY <1>2 DEF Factor!Drop, Factor!Goto, Factor!ghosts
<1>3. ASSUME NEW w \in Work, Factor!Reserve(w)
      PROVE  Goal
  BY <1>3 DEF Factor!Reserve, Factor!Goto, Factor!ghosts
<1>4. ASSUME NEW w \in Work, Factor!Wrong(w)
      PROVE  Goal
  BY <1>4 DEF Factor!Wrong, Factor!Goto, Factor!ghosts
<1>5. ASSUME NEW w \in Work, Factor!ClearFailedAttempts(w)
      PROVE  Goal
  BY <1>5 DEF Factor!ClearFailedAttempts, Factor!Goto, Factor!ghosts
<1>6. ASSUME NEW w \in Work, Factor!RegisterFailure(w)
      PROVE  Goal
  BY <1>6 DEF Factor!RegisterFailure, Factor!Goto, Factor!ghosts
<1>7. ASSUME NEW w \in Work, Factor!Consume(w)
      PROVE  Goal
  BY <1>7 DEF Factor!Consume, Factor!Goto, Factor!ghosts
<1>8. ASSUME NEW w \in Work, Factor!IssueSession(w)
      PROVE  Goal
  BY <1>8 DEF Factor!IssueSession, Factor!Goto, Factor!ghosts
<1>9. ASSUME NEW w \in Work, Factor!SavePendingSecret(w)
      PROVE  Goal
  BY <1>9 DEF Factor!SavePendingSecret, Factor!Goto, Factor!ghosts
<1>10. ASSUME NEW w \in Work, Factor!SaveConfirmation(w)
      PROVE  Goal
  BY <1>10 DEF Factor!SaveConfirmation, Factor!Goto, Factor!ghosts
<1>11. ASSUME NEW w \in Work, Factor!DeleteCodes(w)
      PROVE  Goal
  BY <1>11 DEF Factor!DeleteCodes, Factor!Goto, Factor!ghosts
<1>12. ASSUME NEW w \in Work, Factor!ReplaceCodes(w)
      PROVE  Goal
  BY <1>12 DEF Factor!ReplaceCodes, Factor!Goto, Factor!ghosts
<1>13. ASSUME NEW w \in Work, Factor!Clear(w)
      PROVE  Goal
  BY <1>13 DEF Factor!Clear, Factor!Goto, Factor!ghosts
<1>14. ASSUME NEW w \in Work, Factor!Stop(w)
      PROVE  Goal
  BY <1>14 DEF Factor!Stop, Factor!Goto, Factor!ghosts
<1>15. ASSUME NEW w \in Work, NEW c \in Challenge, Factor!Claim(w, c)
      PROVE  Goal
  BY <1>15 DEF Factor!Claim, Factor!ghosts
<1>16. ASSUME NEW w \in Work, NEW kind \in Kind, Factor!Ask(w, kind)
      PROVE  Goal
  BY <1>16 DEF Factor!Ask, Factor!ghosts
<1>17. ASSUME NEW w \in Work, NEW secret \in 1..secrets, NEW d \in Steps,
             Factor!SpendCode(w, secret, now + d)
      PROVE  Goal
  BY <1>17 DEF Factor!SpendCode, Factor!Accept, Factor!Goto, Factor!ghosts
<1>18. ASSUME NEW w \in Work, NEW code \in work[w].codes, Factor!SpendRecovery(w, code)
      PROVE  Goal
  BY <1>18 DEF Factor!SpendRecovery, Factor!Accept, Factor!Goto, Factor!ghosts
<1>19. ASSUME Factor!Tick
      PROVE  Goal
  BY <1>19 DEF Factor!Tick, Factor!ghosts
<1> QED
  BY <1>0, <1>1, <1>2, <1>3, <1>4, <1>5, <1>6, <1>7, <1>8, <1>9, <1>10, <1>11, <1>12,
      <1>13, <1>14, <1>15, <1>16, <1>17, <1>18, <1>19 DEF Factor!Next

LEMMA KindMoves ==
  ASSUME NEW z \in Work, NEW p \in FactorPc \ {"idle"}, work \in [Work -> AnswerRow],
         KindSound(z), work' = [work EXCEPT ![z].pc = p], work[z].kind # "none",
         work[z].kind = "login" => p \in Answering \cup Finished \cup {"drop", "issue"},
         work[z].kind = "setup" => p \in {"load", "save"} \cup Finished,
         work[z].kind = "confirm" =>
           p \in {"load", "reserve", "check", "clear", "failed", "save"} \cup Finished,
         work[z].kind \in {"disable", "regenerate"} =>
           p \in {"load", "reserve", "check", "clear", "failed", "delete", "write"}
                   \cup Finished
  PROVE  KindSound(z)'
<1>1. work'[z] = [work[z] EXCEPT !.pc = p] /\ work[z] \in AnswerRow
  OBVIOUS
<1>2. work'[z].pc = p /\ work'[z].kind = work[z].kind /\ work'[z].chal = work[z].chal
  BY <1>1 DEF AnswerRow
<1> QED BY <1>2 DEF KindSound

LEMMA KindsStep ==
  ASSUME NEW z, Factor!FactorAssumption, FInv, [Factor!Next]_Factor!vars, z \in Work
  PROVE  KindSound(z)'
<1>a. work \in [Work -> AnswerRow] /\ KindSound(z)
  BY DEF FInv, FTyped, KindsSound
<1>b. work[z] \in AnswerRow
  BY <1>a
<1>c. work'[z] = work[z] => KindSound(z)'
  BY <1>a DEF KindSound
<1>0. CASE UNCHANGED Factor!vars
  BY <1>0, <1>a, <1>c DEF Factor!vars
<1> DEFINE Goal == KindSound(z)'
<1>1. ASSUME NEW w \in Work, Factor!Load(w)
      PROVE  Goal
  <2>1. CASE z # w
    BY <1>1, <2>1, <1>a, <1>c DEF Factor!Load
  <2>2. CASE z = w
    <3>1. /\ work'[z].kind = work[z].kind /\ work'[z].chal = work[z].chal
          /\ work[z].kind # "none"
          /\ work'[z].pc = IF Factor!Proceeds(work[z].kind)
                          THEN IF work[z].kind = "setup" THEN "save" ELSE "reserve"
                          ELSE IF work[z].kind = "login" THEN "drop" ELSE "refused"
      BY <1>1, <2>2, <1>a, <1>b DEF Factor!Load, KindSound, AnswerRow, Factor!NoWork
    <3>2. \/ work'[z].pc = "save" /\ work[z].kind = "setup"
          \/ work'[z].pc = "reserve" /\ work[z].kind # "setup"
          \/ work'[z].pc = "drop" /\ work[z].kind = "login"
          \/ work'[z].pc = "refused" /\ work[z].kind # "login"
      BY <3>1
    <3> QED BY <3>1, <3>2, <1>a DEF KindSound, Answering, Finished
  <2> QED BY <2>1, <2>2
<1>2. ASSUME NEW w \in Work, Factor!Drop(w)
      PROVE  Goal
  <2>1. CASE z # w
    BY <1>2, <2>1, <1>a, <1>c DEF Factor!Drop, Factor!Goto
  <2>2. CASE z = w
    <3>1. \E p \in {"refused"} :
            work' = [work EXCEPT ![z].pc = p]
      BY <1>2, <2>2 DEF Factor!Drop, Factor!Goto
    <3>2. PICK p \in {"refused"} :
            work' = [work EXCEPT ![z].pc = p]
      BY <3>1
    <3>3. work[z].pc # "idle" /\ work[z].kind # "none"
      BY <1>2, <2>2, <1>a DEF Factor!Drop, KindSound
    <3>4. p \in FactorPc \ {"idle"}
      BY <3>2 DEF FactorPc
    <3> HIDE DEF FactorPc
    <3>6. work[z].kind \in {"none", "login", "setup", "confirm", "disable", "regenerate"}
      BY <1>b DEF AnswerRow
    <3>5. TRUE
      BY <1>2, <2>2, <3>6, <1>a DEF Factor!Drop, KindSound, Answering, Finished
    <3> QED BY <3>2, <3>3, <3>4, <3>5, <1>a, KindMoves DEF Answering, Finished
  <2> QED BY <2>1, <2>2
<1>3. ASSUME NEW w \in Work, Factor!Reserve(w)
      PROVE  Goal
  <2>1. CASE z # w
    BY <1>3, <2>1, <1>a, <1>c DEF Factor!Reserve, Factor!Goto
  <2>2. CASE z = w
    <3>1. \E p \in {"failed", "check"} :
            work' = [work EXCEPT ![z].pc = p]
      BY <1>3, <2>2 DEF Factor!Reserve, Factor!Goto
    <3>2. PICK p \in {"failed", "check"} :
            work' = [work EXCEPT ![z].pc = p]
      BY <3>1
    <3>3. work[z].pc # "idle" /\ work[z].kind # "none"
      BY <1>3, <2>2, <1>a DEF Factor!Reserve, KindSound
    <3>4. p \in FactorPc \ {"idle"}
      BY <3>2 DEF FactorPc
    <3> HIDE DEF FactorPc
    <3>6. work[z].kind \in {"none", "login", "setup", "confirm", "disable", "regenerate"}
      BY <1>b DEF AnswerRow
    <3>5. work[z].kind \notin {"setup", "none"}
      BY <1>3, <2>2, <3>6, <1>a DEF Factor!Reserve, KindSound, Answering, Finished
    <3> QED BY <3>2, <3>3, <3>4, <3>5, <1>a, KindMoves DEF Answering, Finished
  <2> QED BY <2>1, <2>2
<1>4. ASSUME NEW w \in Work, Factor!Wrong(w)
      PROVE  Goal
  <2>1. CASE z # w
    BY <1>4, <2>1, <1>a, <1>c DEF Factor!Wrong, Factor!Goto
  <2>2. CASE z = w
    <3>1. \E p \in {"failed"} :
            work' = [work EXCEPT ![z].pc = p]
      BY <1>4, <2>2 DEF Factor!Wrong, Factor!Goto
    <3>2. PICK p \in {"failed"} :
            work' = [work EXCEPT ![z].pc = p]
      BY <3>1
    <3>3. work[z].pc # "idle" /\ work[z].kind # "none"
      BY <1>4, <2>2, <1>a DEF Factor!Wrong, KindSound
    <3>4. p \in FactorPc \ {"idle"}
      BY <3>2 DEF FactorPc
    <3> HIDE DEF FactorPc
    <3>6. work[z].kind \in {"none", "login", "setup", "confirm", "disable", "regenerate"}
      BY <1>b DEF AnswerRow
    <3>5. work[z].kind \notin {"setup", "none"}
      BY <1>4, <2>2, <3>6, <1>a DEF Factor!Wrong, KindSound, Answering, Finished
    <3> QED BY <3>2, <3>3, <3>4, <3>5, <1>a, KindMoves DEF Answering, Finished
  <2> QED BY <2>1, <2>2
<1>5. ASSUME NEW w \in Work, Factor!ClearFailedAttempts(w)
      PROVE  Goal
  <2>1. CASE z # w
    BY <1>5, <2>1, <1>a, <1>c DEF Factor!ClearFailedAttempts, Factor!Goto
  <2>2. CASE z = w
    <3>1. \E p \in {"consume", "save", "delete"} :
            /\ work' = [work EXCEPT ![z].pc = p]
            /\ p = (CASE work[z].kind = "login" -> "consume"
                    [] work[z].kind = "confirm" -> "save"
                    [] OTHER -> "delete")
      BY <1>5, <2>2 DEF Factor!ClearFailedAttempts, Factor!Goto
    <3>2. PICK p \in {"consume", "save", "delete"} :
            /\ work' = [work EXCEPT ![z].pc = p]
            /\ p = (CASE work[z].kind = "login" -> "consume"
                    [] work[z].kind = "confirm" -> "save"
                    [] OTHER -> "delete")
      BY <3>1
    <3>3. work[z].pc # "idle" /\ work[z].kind # "none"
      BY <1>5, <2>2, <1>a DEF Factor!ClearFailedAttempts, KindSound
    <3>4. p \in FactorPc \ {"idle"}
      BY <3>2 DEF FactorPc
    <3> HIDE DEF FactorPc
    <3>6. work[z].kind \in {"none", "login", "setup", "confirm", "disable", "regenerate"}
      BY <1>b DEF AnswerRow
    <3>5. work[z].kind \in {"login", "confirm", "disable", "regenerate"}
      BY <1>5, <2>2, <3>6, <1>a
         DEF Factor!ClearFailedAttempts, KindSound, Answering, Finished
    <3> QED BY <3>2, <3>3, <3>4, <3>5, <1>a, KindMoves DEF Answering, Finished
  <2> QED BY <2>1, <2>2
<1>6. ASSUME NEW w \in Work, Factor!RegisterFailure(w)
      PROVE  Goal
  <2>1. CASE z # w
    BY <1>6, <2>1, <1>a, <1>c DEF Factor!RegisterFailure, Factor!Goto
  <2>2. CASE z = w
    <3>1. \E p \in {"drop", "refused"} :
            /\ work' = [work EXCEPT ![z].pc = p]
            /\ p = "drop" => work[z].kind = "login"
      BY <1>6, <2>2 DEF Factor!RegisterFailure, Factor!Goto
    <3>2. PICK p \in {"drop", "refused"} :
            /\ work' = [work EXCEPT ![z].pc = p]
            /\ p = "drop" => work[z].kind = "login"
      BY <3>1
    <3>3. work[z].pc # "idle" /\ work[z].kind # "none"
      BY <1>6, <2>2, <1>a DEF Factor!RegisterFailure, KindSound
    <3>4. p \in FactorPc \ {"idle"}
      BY <3>2 DEF FactorPc
    <3> HIDE DEF FactorPc
    <3>6. work[z].kind \in {"none", "login", "setup", "confirm", "disable", "regenerate"}
      BY <1>b DEF AnswerRow
    <3>5. TRUE
      BY <1>6, <2>2, <3>6, <1>a
         DEF Factor!RegisterFailure, KindSound, Answering, Finished
    <3> QED BY <3>2, <3>3, <3>4, <3>5, <1>a, KindMoves DEF Answering, Finished
  <2> QED BY <2>1, <2>2
<1>7. ASSUME NEW w \in Work, Factor!Consume(w)
      PROVE  Goal
  <2>1. CASE z # w
    BY <1>7, <2>1, <1>a, <1>c DEF Factor!Consume, Factor!Goto
  <2>2. CASE z = w
    <3>1. \E p \in {"issue"} :
            work' = [work EXCEPT ![z].pc = p]
      BY <1>7, <2>2 DEF Factor!Consume, Factor!Goto
    <3>2. PICK p \in {"issue"} :
            work' = [work EXCEPT ![z].pc = p]
      BY <3>1
    <3>3. work[z].pc # "idle" /\ work[z].kind # "none"
      BY <1>7, <2>2, <1>a DEF Factor!Consume, KindSound
    <3>4. p \in FactorPc \ {"idle"}
      BY <3>2 DEF FactorPc
    <3> HIDE DEF FactorPc
    <3>6. work[z].kind \in {"none", "login", "setup", "confirm", "disable", "regenerate"}
      BY <1>b DEF AnswerRow
    <3>5. work[z].kind = "login"
      BY <1>7, <2>2, <3>6, <1>a DEF Factor!Consume, KindSound, Answering, Finished
    <3> QED BY <3>2, <3>3, <3>4, <3>5, <1>a, KindMoves DEF Answering, Finished
  <2> QED BY <2>1, <2>2
<1>8. ASSUME NEW w \in Work, Factor!IssueSession(w)
      PROVE  Goal
  <2>1. CASE z # w
    BY <1>8, <2>1, <1>a, <1>c DEF Factor!IssueSession, Factor!Goto
  <2>2. CASE z = w
    <3>1. \E p \in {"done"} :
            work' = [work EXCEPT ![z].pc = p]
      BY <1>8, <2>2 DEF Factor!IssueSession, Factor!Goto
    <3>2. PICK p \in {"done"} :
            work' = [work EXCEPT ![z].pc = p]
      BY <3>1
    <3>3. work[z].pc # "idle" /\ work[z].kind # "none"
      BY <1>8, <2>2, <1>a DEF Factor!IssueSession, KindSound
    <3>4. p \in FactorPc \ {"idle"}
      BY <3>2 DEF FactorPc
    <3> HIDE DEF FactorPc
    <3>6. work[z].kind \in {"none", "login", "setup", "confirm", "disable", "regenerate"}
      BY <1>b DEF AnswerRow
    <3>5. TRUE
      BY <1>8, <2>2, <3>6, <1>a DEF Factor!IssueSession, KindSound, Answering, Finished
    <3> QED BY <3>2, <3>3, <3>4, <3>5, <1>a, KindMoves DEF Answering, Finished
  <2> QED BY <2>1, <2>2
<1>9. ASSUME NEW w \in Work, Factor!SavePendingSecret(w)
      PROVE  Goal
  <2>1. CASE z # w
    BY <1>9, <2>1, <1>a, <1>c DEF Factor!SavePendingSecret, Factor!Goto
  <2>2. CASE z = w
    <3>1. \E p \in {"done"} :
            work' = [work EXCEPT ![z].pc = p]
      BY <1>9, <2>2 DEF Factor!SavePendingSecret, Factor!Goto
    <3>2. PICK p \in {"done"} :
            work' = [work EXCEPT ![z].pc = p]
      BY <3>1
    <3>3. work[z].pc # "idle" /\ work[z].kind # "none"
      BY <1>9, <2>2, <1>a DEF Factor!SavePendingSecret, KindSound
    <3>4. p \in FactorPc \ {"idle"}
      BY <3>2 DEF FactorPc
    <3> HIDE DEF FactorPc
    <3>6. work[z].kind \in {"none", "login", "setup", "confirm", "disable", "regenerate"}
      BY <1>b DEF AnswerRow
    <3>5. TRUE
      BY <1>9, <2>2, <3>6, <1>a
         DEF Factor!SavePendingSecret, KindSound, Answering, Finished
    <3> QED BY <3>2, <3>3, <3>4, <3>5, <1>a, KindMoves DEF Answering, Finished
  <2> QED BY <2>1, <2>2
<1>10. ASSUME NEW w \in Work, Factor!SaveConfirmation(w)
      PROVE  Goal
  <2>1. CASE z # w
    BY <1>10, <2>1, <1>a, <1>c DEF Factor!SaveConfirmation, Factor!Goto
  <2>2. CASE z = w
    <3>1. \E p \in {"done", "refused"} :
            work' = [work EXCEPT ![z].pc = p]
      BY <1>10, <2>2 DEF Factor!SaveConfirmation, Factor!Goto
    <3>2. PICK p \in {"done", "refused"} :
            work' = [work EXCEPT ![z].pc = p]
      BY <3>1
    <3>3. work[z].pc # "idle" /\ work[z].kind # "none"
      BY <1>10, <2>2, <1>a DEF Factor!SaveConfirmation, KindSound
    <3>4. p \in FactorPc \ {"idle"}
      BY <3>2 DEF FactorPc
    <3> HIDE DEF FactorPc
    <3>6. work[z].kind \in {"none", "login", "setup", "confirm", "disable", "regenerate"}
      BY <1>b DEF AnswerRow
    <3>5. TRUE
      BY <1>10, <2>2, <3>6, <1>a
         DEF Factor!SaveConfirmation, KindSound, Answering, Finished
    <3> QED BY <3>2, <3>3, <3>4, <3>5, <1>a, KindMoves DEF Answering, Finished
  <2> QED BY <2>1, <2>2
<1>11. ASSUME NEW w \in Work, Factor!DeleteCodes(w)
      PROVE  Goal
  <2>1. CASE z # w
    BY <1>11, <2>1, <1>a, <1>c DEF Factor!DeleteCodes
  <2>2. CASE z = w
    <3>1. /\ work'[z].kind = work[z].kind /\ work'[z].pc = "write"
               /\ work'[z].chal = work[z].chal
          /\ work[z].pc = "delete" /\ work[z].kind \in {"disable", "regenerate"}
          /\ work[z].kind \in Kind /\ work[z].chal = None
      BY <1>11, <2>2, <1>a, <1>b
         DEF Factor!DeleteCodes, KindSound, AnswerRow, Factor!NoWork, Answering,
             Finished
    <3> QED BY <3>1 DEF KindSound, Answering, Finished
  <2> QED BY <2>1, <2>2
<1>12. ASSUME NEW w \in Work, Factor!ReplaceCodes(w)
      PROVE  Goal
  <2>1. CASE z # w
    BY <1>12, <2>1, <1>a, <1>c DEF Factor!ReplaceCodes, Factor!Goto
  <2>2. CASE z = w
    <3>1. \E p \in {"done"} :
            work' = [work EXCEPT ![z].pc = p]
      BY <1>12, <2>2 DEF Factor!ReplaceCodes, Factor!Goto
    <3>2. PICK p \in {"done"} :
            work' = [work EXCEPT ![z].pc = p]
      BY <3>1
    <3>3. work[z].pc # "idle" /\ work[z].kind # "none"
      BY <1>12, <2>2, <1>a DEF Factor!ReplaceCodes, KindSound
    <3>4. p \in FactorPc \ {"idle"}
      BY <3>2 DEF FactorPc
    <3> HIDE DEF FactorPc
    <3>6. work[z].kind \in {"none", "login", "setup", "confirm", "disable", "regenerate"}
      BY <1>b DEF AnswerRow
    <3>5. TRUE
      BY <1>12, <2>2, <3>6, <1>a DEF Factor!ReplaceCodes, KindSound, Answering, Finished
    <3> QED BY <3>2, <3>3, <3>4, <3>5, <1>a, KindMoves DEF Answering, Finished
  <2> QED BY <2>1, <2>2
<1>13. ASSUME NEW w \in Work, Factor!Clear(w)
      PROVE  Goal
  <2>1. CASE z # w
    BY <1>13, <2>1, <1>a, <1>c DEF Factor!Clear, Factor!Goto
  <2>2. CASE z = w
    <3>1. \E p \in {"done"} :
            work' = [work EXCEPT ![z].pc = p]
      BY <1>13, <2>2 DEF Factor!Clear, Factor!Goto
    <3>2. PICK p \in {"done"} :
            work' = [work EXCEPT ![z].pc = p]
      BY <3>1
    <3>3. work[z].pc # "idle" /\ work[z].kind # "none"
      BY <1>13, <2>2, <1>a DEF Factor!Clear, KindSound
    <3>4. p \in FactorPc \ {"idle"}
      BY <3>2 DEF FactorPc
    <3> HIDE DEF FactorPc
    <3>6. work[z].kind \in {"none", "login", "setup", "confirm", "disable", "regenerate"}
      BY <1>b DEF AnswerRow
    <3>5. TRUE
      BY <1>13, <2>2, <3>6, <1>a DEF Factor!Clear, KindSound, Answering, Finished
    <3> QED BY <3>2, <3>3, <3>4, <3>5, <1>a, KindMoves DEF Answering, Finished
  <2> QED BY <2>1, <2>2
<1>14. ASSUME NEW w \in Work, Factor!Stop(w)
      PROVE  Goal
  <2>1. CASE z # w
    BY <1>14, <2>1, <1>a, <1>c DEF Factor!Stop, Factor!Goto
  <2>2. CASE z = w
    <3>1. \E p \in {"stopped"} :
            work' = [work EXCEPT ![z].pc = p]
      BY <1>14, <2>2 DEF Factor!Stop, Factor!Goto
    <3>2. PICK p \in {"stopped"} :
            work' = [work EXCEPT ![z].pc = p]
      BY <3>1
    <3>3. work[z].pc # "idle" /\ work[z].kind # "none"
      BY <1>14, <2>2, <1>a DEF Factor!Stop, KindSound
    <3>4. p \in FactorPc \ {"idle"}
      BY <3>2 DEF FactorPc
    <3> HIDE DEF FactorPc
    <3>6. work[z].kind \in {"none", "login", "setup", "confirm", "disable", "regenerate"}
      BY <1>b DEF AnswerRow
    <3>5. TRUE
      BY <1>14, <2>2, <3>6, <1>a DEF Factor!Stop, KindSound, Answering, Finished
    <3> QED BY <3>2, <3>3, <3>4, <3>5, <1>a, KindMoves DEF Answering, Finished
  <2> QED BY <2>1, <2>2
<1>15. ASSUME NEW w \in Work, NEW c \in Challenge, Factor!Claim(w, c)
      PROVE  Goal
  <2>1. CASE z # w
    BY <1>15, <2>1, <1>a, <1>c DEF Factor!Claim
  <2>2. CASE z = w
    <3>1. work'[z].kind = "login" /\ work'[z].pc = "load" /\ work'[z].chal = c
          /\ "login" \in Kind
      BY <1>15, <2>2, <1>a, <1>b DEF Factor!Claim, KindSound, AnswerRow, Factor!NoWork
    <3> QED BY <3>1 DEF KindSound, Answering, Finished
  <2> QED BY <2>1, <2>2
<1>16. ASSUME NEW w \in Work, NEW kind \in Kind, Factor!Ask(w, kind)
      PROVE  Goal
  <2>1. CASE z # w
    BY <1>16, <2>1, <1>a, <1>c DEF Factor!Ask
  <2>2. CASE z = w
    <3>1. work'[z].kind = kind /\ work'[z].pc = "load" /\ work'[z].chal = None
          /\ kind \in Kind \ {"login", "none"}
      BY <1>16, <2>2, <1>a, <1>b
         DEF Factor!Ask, KindSound, AnswerRow, Factor!NoWork, Factor!FactorAssumption
    <3> QED BY <3>1 DEF KindSound, Answering, Finished
  <2> QED BY <2>1, <2>2
<1>17. ASSUME NEW w \in Work, NEW secret \in 1..secrets, NEW d \in Steps,
             Factor!SpendCode(w, secret, now + d)
      PROVE  Goal
  <2>1. \/ work' = [work EXCEPT ![w].pc = "failed"]
        \/ work' = [work EXCEPT ![w].pc = "clear", ![w].answer = [secret |-> secret,
             step |-> now + d]]
    BY <1>17 DEF Factor!SpendCode, Factor!Accept, Factor!Goto
  <2>2. CASE z # w
    BY <2>1, <2>2, <1>a, <1>c
  <2>3. CASE z = w
    <3>1. work[z].pc = "check" /\ work[z].kind # "none"
      BY <1>17, <2>3, <1>a DEF Factor!SpendCode, KindSound
    <3>2. /\ work'[z].kind = work[z].kind /\ work'[z].chal = work[z].chal
          /\ work'[z].pc \in {"failed", "clear"}
      BY <2>1, <2>3, <1>a, <1>b DEF AnswerRow
    <3> QED BY <3>1, <3>2, <1>a DEF KindSound, Answering, Finished
  <2> QED BY <2>2, <2>3
<1>18. ASSUME NEW w \in Work, NEW code \in work[w].codes, Factor!SpendRecovery(w, code)
      PROVE  Goal
  <2>1. \/ work' = [work EXCEPT ![w].pc = "failed"]
        \/ work' = [work EXCEPT ![w].pc = "clear", ![w].answer = [recovery |-> code]]
    BY <1>18 DEF Factor!SpendRecovery, Factor!Accept, Factor!Goto
  <2>2. CASE z # w
    BY <2>1, <2>2, <1>a, <1>c
  <2>3. CASE z = w
    <3>1. work[z].pc = "check" /\ work[z].kind # "none"
      BY <1>18, <2>3, <1>a DEF Factor!SpendRecovery, KindSound
    <3>2. /\ work'[z].kind = work[z].kind /\ work'[z].chal = work[z].chal
          /\ work'[z].pc \in {"failed", "clear"}
      BY <2>1, <2>3, <1>a, <1>b DEF AnswerRow
    <3> QED BY <3>1, <3>2, <1>a DEF KindSound, Answering, Finished
  <2> QED BY <2>2, <2>3
<1>19. ASSUME Factor!Tick
      PROVE  Goal
  BY <1>19, <1>a, <1>c DEF Factor!Tick, Factor!ghosts
<1> QED
  BY <1>0, <1>1, <1>2, <1>3, <1>4, <1>5, <1>6, <1>7, <1>8, <1>9, <1>10, <1>11, <1>12,
      <1>13, <1>14, <1>15, <1>16, <1>17, <1>18, <1>19 DEF Factor!Next

LEMMA ClaimsCountedStep ==
  ASSUME NEW g, Factor!FactorAssumption, FInv, [Factor!Next]_Factor!vars,
         g \in Challenge
  PROVE  ClaimedChallenge(g)'
<1>a. chal \in [Challenge -> ChallengeRow] /\ ClaimedChallenge(g)
  BY DEF FInv, FTyped, ClaimsCounted
<1>0. CASE UNCHANGED Factor!vars
  BY <1>0, <1>a DEF Factor!vars, ClaimedChallenge, ChallengeRow
<1> DEFINE Goal == ClaimedChallenge(g)'
<1>1. ASSUME NEW w \in Work, Factor!Load(w)
      PROVE  Goal
  BY <1>1, <1>a DEF Factor!Load, Factor!Goto, Factor!ghosts, ClaimedChallenge,
      ChallengeRow
<1>2. ASSUME NEW w \in Work, Factor!Drop(w)
      PROVE  Goal
  BY <1>2, <1>a DEF Factor!Drop, Factor!Goto, Factor!ghosts, ClaimedChallenge,
      ChallengeRow
<1>3. ASSUME NEW w \in Work, Factor!Reserve(w)
      PROVE  Goal
  BY <1>3, <1>a DEF Factor!Reserve, Factor!Goto, Factor!ghosts, ClaimedChallenge,
      ChallengeRow
<1>4. ASSUME NEW w \in Work, Factor!Wrong(w)
      PROVE  Goal
  BY <1>4, <1>a DEF Factor!Wrong, Factor!Goto, Factor!ghosts, ClaimedChallenge,
      ChallengeRow
<1>5. ASSUME NEW w \in Work, Factor!ClearFailedAttempts(w)
      PROVE  Goal
  BY <1>5, <1>a DEF Factor!ClearFailedAttempts, Factor!Goto, Factor!ghosts,
      ClaimedChallenge, ChallengeRow
<1>6. ASSUME NEW w \in Work, Factor!RegisterFailure(w)
      PROVE  Goal
  BY <1>6, <1>a DEF Factor!RegisterFailure, Factor!Goto, Factor!ghosts,
      ClaimedChallenge, ChallengeRow
<1>7. ASSUME NEW w \in Work, Factor!Consume(w)
      PROVE  Goal
  BY <1>7, <1>a DEF Factor!Consume, Factor!Goto, Factor!ghosts, ClaimedChallenge,
      ChallengeRow
<1>8. ASSUME NEW w \in Work, Factor!IssueSession(w)
      PROVE  Goal
  BY <1>8, <1>a DEF Factor!IssueSession, Factor!Goto, Factor!ghosts, ClaimedChallenge,
      ChallengeRow
<1>9. ASSUME NEW w \in Work, Factor!SavePendingSecret(w)
      PROVE  Goal
  BY <1>9, <1>a DEF Factor!SavePendingSecret, Factor!Goto, Factor!ghosts,
      ClaimedChallenge, ChallengeRow
<1>10. ASSUME NEW w \in Work, Factor!SaveConfirmation(w)
      PROVE  Goal
  BY <1>10, <1>a DEF Factor!SaveConfirmation, Factor!Goto, Factor!ghosts,
      ClaimedChallenge, ChallengeRow
<1>11. ASSUME NEW w \in Work, Factor!DeleteCodes(w)
      PROVE  Goal
  BY <1>11, <1>a DEF Factor!DeleteCodes, Factor!Goto, Factor!ghosts, ClaimedChallenge,
      ChallengeRow
<1>12. ASSUME NEW w \in Work, Factor!ReplaceCodes(w)
      PROVE  Goal
  BY <1>12, <1>a DEF Factor!ReplaceCodes, Factor!Goto, Factor!ghosts, ClaimedChallenge,
      ChallengeRow
<1>13. ASSUME NEW w \in Work, Factor!Clear(w)
      PROVE  Goal
  BY <1>13, <1>a DEF Factor!Clear, Factor!Goto, Factor!ghosts, ClaimedChallenge,
      ChallengeRow
<1>14. ASSUME NEW w \in Work, Factor!Stop(w)
      PROVE  Goal
  BY <1>14, <1>a DEF Factor!Stop, Factor!Goto, Factor!ghosts, ClaimedChallenge,
      ChallengeRow
<1>15. ASSUME NEW w \in Work, NEW c \in Challenge, Factor!Claim(w, c)
      PROVE  Goal
  BY <1>15, <1>a DEF Factor!Claim, Factor!ghosts, ClaimedChallenge, ChallengeRow,
      Factor!Claimable
<1>16. ASSUME NEW w \in Work, NEW kind \in Kind, Factor!Ask(w, kind)
      PROVE  Goal
  BY <1>16, <1>a DEF Factor!Ask, Factor!ghosts, ClaimedChallenge, ChallengeRow
<1>17. ASSUME NEW w \in Work, NEW secret \in 1..secrets, NEW d \in Steps,
             Factor!SpendCode(w, secret, now + d)
      PROVE  Goal
  BY <1>17, <1>a DEF Factor!SpendCode, Factor!Accept, Factor!Goto, Factor!ghosts,
      ClaimedChallenge, ChallengeRow
<1>18. ASSUME NEW w \in Work, NEW code \in work[w].codes, Factor!SpendRecovery(w, code)
      PROVE  Goal
  BY <1>18, <1>a DEF Factor!SpendRecovery, Factor!Accept, Factor!Goto, Factor!ghosts,
      ClaimedChallenge, ChallengeRow
<1>19. ASSUME Factor!Tick
      PROVE  Goal
  BY <1>19, <1>a DEF Factor!Tick, Factor!ghosts, ClaimedChallenge, ChallengeRow
<1> QED
  BY <1>0, <1>1, <1>2, <1>3, <1>4, <1>5, <1>6, <1>7, <1>8, <1>9, <1>10, <1>11, <1>12,
      <1>13, <1>14, <1>15, <1>16, <1>17, <1>18, <1>19 DEF Factor!Next

LEMMA AnsweringComesFrom ==
  ASSUME NEW z, Factor!FactorAssumption, FInv, [Factor!Next]_Factor!vars, z \in Work
  PROVE  work'[z].kind = "login" /\ work'[z].pc \in Answering =>
           \/ /\ work[z].kind = "login" /\ work[z].pc \in Answering
              /\ work'[z].chal = work[z].chal
           \/ \E g \in Challenge : Factor!Claim(z, g) /\ work'[z].chal = g
<1>a. work \in [Work -> AnswerRow] /\ KindSound(z)
  BY DEF FInv, FTyped, KindsSound
<1>b. work[z] \in AnswerRow
  BY <1>a
<1>0. CASE UNCHANGED Factor!vars
  BY <1>0, <1>a, <1>b DEF Factor!vars, Answering
<1> DEFINE Goal ==
         work'[z].kind = "login" /\ work'[z].pc \in Answering =>
           \/ /\ work[z].kind = "login" /\ work[z].pc \in Answering
              /\ work'[z].chal = work[z].chal
           \/ \E g \in Challenge : Factor!Claim(z, g) /\ work'[z].chal = g
<1>1. ASSUME NEW w \in Work, Factor!Load(w)
      PROVE  Goal
  <2>1. CASE z # w
    BY <1>1, <2>1, <1>a DEF Factor!Load, Factor!Goto, Factor!Accept
  <2>2. CASE z = w
    BY <1>1, <2>2, <1>a, <1>b
       DEF Factor!Load, KindSound, AnswerRow, Answering, Factor!Goto, Factor!Accept
  <2> QED BY <2>1, <2>2
<1>2. ASSUME NEW w \in Work, Factor!Drop(w)
      PROVE  Goal
  <2>1. CASE z # w
    BY <1>2, <2>1, <1>a DEF Factor!Drop, Factor!Goto, Factor!Accept
  <2>2. CASE z = w
    BY <1>2, <2>2, <1>a, <1>b
       DEF Factor!Drop, KindSound, AnswerRow, Answering, Factor!Goto, Factor!Accept
  <2> QED BY <2>1, <2>2
<1>3. ASSUME NEW w \in Work, Factor!Reserve(w)
      PROVE  Goal
  <2>1. CASE z # w
    BY <1>3, <2>1, <1>a DEF Factor!Reserve, Factor!Goto, Factor!Accept
  <2>2. CASE z = w
    BY <1>3, <2>2, <1>a, <1>b
       DEF Factor!Reserve, KindSound, AnswerRow, Answering, Factor!Goto, Factor!Accept
  <2> QED BY <2>1, <2>2
<1>4. ASSUME NEW w \in Work, Factor!Wrong(w)
      PROVE  Goal
  <2>1. CASE z # w
    BY <1>4, <2>1, <1>a DEF Factor!Wrong, Factor!Goto, Factor!Accept
  <2>2. CASE z = w
    BY <1>4, <2>2, <1>a, <1>b
       DEF Factor!Wrong, KindSound, AnswerRow, Answering, Factor!Goto, Factor!Accept
  <2> QED BY <2>1, <2>2
<1>5. ASSUME NEW w \in Work, Factor!ClearFailedAttempts(w)
      PROVE  Goal
  <2>1. CASE z # w
    BY <1>5, <2>1, <1>a DEF Factor!ClearFailedAttempts, Factor!Goto, Factor!Accept
  <2>2. CASE z = w
    BY <1>5, <2>2, <1>a, <1>b
       DEF Factor!ClearFailedAttempts, KindSound, AnswerRow, Answering, Factor!Goto,
           Factor!Accept
  <2> QED BY <2>1, <2>2
<1>6. ASSUME NEW w \in Work, Factor!RegisterFailure(w)
      PROVE  Goal
  <2>1. CASE z # w
    BY <1>6, <2>1, <1>a DEF Factor!RegisterFailure, Factor!Goto, Factor!Accept
  <2>2. CASE z = w
    BY <1>6, <2>2, <1>a, <1>b
       DEF Factor!RegisterFailure, KindSound, AnswerRow, Answering, Factor!Goto,
           Factor!Accept
  <2> QED BY <2>1, <2>2
<1>7. ASSUME NEW w \in Work, Factor!Consume(w)
      PROVE  Goal
  <2>1. CASE z # w
    BY <1>7, <2>1, <1>a DEF Factor!Consume, Factor!Goto, Factor!Accept
  <2>2. CASE z = w
    BY <1>7, <2>2, <1>a, <1>b
       DEF Factor!Consume, KindSound, AnswerRow, Answering, Factor!Goto, Factor!Accept
  <2> QED BY <2>1, <2>2
<1>8. ASSUME NEW w \in Work, Factor!IssueSession(w)
      PROVE  Goal
  <2>1. CASE z # w
    BY <1>8, <2>1, <1>a DEF Factor!IssueSession, Factor!Goto, Factor!Accept
  <2>2. CASE z = w
    BY <1>8, <2>2, <1>a, <1>b
       DEF Factor!IssueSession, KindSound, AnswerRow, Answering, Factor!Goto,
           Factor!Accept
  <2> QED BY <2>1, <2>2
<1>9. ASSUME NEW w \in Work, Factor!SavePendingSecret(w)
      PROVE  Goal
  <2>1. CASE z # w
    BY <1>9, <2>1, <1>a DEF Factor!SavePendingSecret, Factor!Goto, Factor!Accept
  <2>2. CASE z = w
    BY <1>9, <2>2, <1>a, <1>b
       DEF Factor!SavePendingSecret, KindSound, AnswerRow, Answering, Factor!Goto,
           Factor!Accept
  <2> QED BY <2>1, <2>2
<1>10. ASSUME NEW w \in Work, Factor!SaveConfirmation(w)
      PROVE  Goal
  <2>1. CASE z # w
    BY <1>10, <2>1, <1>a DEF Factor!SaveConfirmation, Factor!Goto, Factor!Accept
  <2>2. CASE z = w
    BY <1>10, <2>2, <1>a, <1>b
       DEF Factor!SaveConfirmation, KindSound, AnswerRow, Answering, Factor!Goto,
           Factor!Accept
  <2> QED BY <2>1, <2>2
<1>11. ASSUME NEW w \in Work, Factor!DeleteCodes(w)
      PROVE  Goal
  <2>1. CASE z # w
    BY <1>11, <2>1, <1>a DEF Factor!DeleteCodes, Factor!Goto, Factor!Accept
  <2>2. CASE z = w
    BY <1>11, <2>2, <1>a, <1>b
       DEF Factor!DeleteCodes, KindSound, AnswerRow, Answering, Factor!Goto,
           Factor!Accept
  <2> QED BY <2>1, <2>2
<1>12. ASSUME NEW w \in Work, Factor!ReplaceCodes(w)
      PROVE  Goal
  <2>1. CASE z # w
    BY <1>12, <2>1, <1>a DEF Factor!ReplaceCodes, Factor!Goto, Factor!Accept
  <2>2. CASE z = w
    BY <1>12, <2>2, <1>a, <1>b
       DEF Factor!ReplaceCodes, KindSound, AnswerRow, Answering, Factor!Goto,
           Factor!Accept
  <2> QED BY <2>1, <2>2
<1>13. ASSUME NEW w \in Work, Factor!Clear(w)
      PROVE  Goal
  <2>1. CASE z # w
    BY <1>13, <2>1, <1>a DEF Factor!Clear, Factor!Goto, Factor!Accept
  <2>2. CASE z = w
    BY <1>13, <2>2, <1>a, <1>b
       DEF Factor!Clear, KindSound, AnswerRow, Answering, Factor!Goto, Factor!Accept
  <2> QED BY <2>1, <2>2
<1>14. ASSUME NEW w \in Work, Factor!Stop(w)
      PROVE  Goal
  <2>1. CASE z # w
    BY <1>14, <2>1, <1>a DEF Factor!Stop, Factor!Goto, Factor!Accept
  <2>2. CASE z = w
    BY <1>14, <2>2, <1>a, <1>b
       DEF Factor!Stop, KindSound, AnswerRow, Answering, Factor!Goto, Factor!Accept
  <2> QED BY <2>1, <2>2
<1>15. ASSUME NEW w \in Work, NEW c \in Challenge, Factor!Claim(w, c)
      PROVE  Goal
  <2>1. CASE z # w
    BY <1>15, <2>1, <1>a DEF Factor!Claim, Factor!Goto, Factor!Accept
  <2>2. CASE z = w
    BY <1>15, <2>2, <1>a, <1>b
       DEF Factor!Claim, KindSound, AnswerRow, Answering, Factor!Goto, Factor!Accept
  <2> QED BY <2>1, <2>2
<1>16. ASSUME NEW w \in Work, NEW kind \in Kind, Factor!Ask(w, kind)
      PROVE  Goal
  <2>1. CASE z # w
    BY <1>16, <2>1, <1>a DEF Factor!Ask, Factor!Goto, Factor!Accept
  <2>2. CASE z = w
    BY <1>16, <2>2, <1>a, <1>b
       DEF Factor!Ask, KindSound, AnswerRow, Answering, Factor!Goto, Factor!Accept
  <2> QED BY <2>1, <2>2
<1>17. ASSUME NEW w \in Work, NEW secret \in 1..secrets, NEW d \in Steps,
             Factor!SpendCode(w, secret, now + d)
      PROVE  Goal
  <2>1. /\ work[w].pc = "check"
        /\ \/ work' = [work EXCEPT ![w].pc = "failed"]
           \/ work' = [work EXCEPT ![w].pc = "clear", ![w].answer = [secret |-> secret,
                step |-> now + d]]
    BY <1>17 DEF Factor!SpendCode, Factor!Accept, Factor!Goto
  <2>2. CASE z # w
    BY <2>1, <2>2, <1>a
  <2>3. CASE z = w
    BY <2>1, <2>3, <1>a, <1>b DEF AnswerRow, Answering
  <2> QED BY <2>2, <2>3
<1>18. ASSUME NEW w \in Work, NEW code \in work[w].codes, Factor!SpendRecovery(w, code)
      PROVE  Goal
  <2>1. /\ work[w].pc = "check"
        /\ \/ work' = [work EXCEPT ![w].pc = "failed"]
           \/ work' = [work EXCEPT ![w].pc = "clear", ![w].answer = [recovery |-> code]]
    BY <1>18 DEF Factor!SpendRecovery, Factor!Accept, Factor!Goto
  <2>2. CASE z # w
    BY <2>1, <2>2, <1>a
  <2>3. CASE z = w
    BY <2>1, <2>3, <1>a, <1>b DEF AnswerRow, Answering
  <2> QED BY <2>2, <2>3
<1>19. ASSUME Factor!Tick
      PROVE  Goal
  BY <1>19, <1>a, <1>b DEF Factor!Tick, Factor!ghosts, Answering
<1> QED
  BY <1>0, <1>1, <1>2, <1>3, <1>4, <1>5, <1>6, <1>7, <1>8, <1>9, <1>10, <1>11, <1>12,
      <1>13, <1>14, <1>15, <1>16, <1>17, <1>18, <1>19 DEF Factor!Next

LEMMA LoginAt ==
  ASSUME FInv, NEW w \in Work, work[w].pc \in {"drop", "consume", "issue"}
  PROVE  work[w].kind = "login"
<1>1. work[w] \in AnswerRow /\ KindSound(w)
  BY DEF FInv, FTyped, KindsSound
<1>2. work[w].kind \in {"none", "login", "setup", "confirm", "disable", "regenerate"}
  BY <1>1 DEF AnswerRow
<1> QED BY <1>1, <1>2 DEF KindSound, Finished

LEMMA AnsweringKept ==
  ASSUME NEW z, Factor!FactorAssumption, FInv, [Factor!Next]_Factor!vars, z \in Work,
         work[z].kind = "login", work[z].pc \in Answering,
         work'[z].pc \in Answering
  PROVE  chal'[work[z].chal] = chal[work[z].chal]
<1>a. chal \in [Challenge -> ChallengeRow] /\ work \in [Work -> AnswerRow]
  BY DEF FInv, FTyped
<1>b. \A v \in Work : KindSound(v) /\ ChallengeHeld(v)
  BY DEF FInv, KindsSound, ChallengesHeld
<1>c. work[z].chal \in Challenge /\ chal[work[z].chal].state = "claimed"
  BY <1>b DEF KindSound, ChallengeHeld
<1>0. CASE UNCHANGED Factor!vars
  BY <1>0, <1>a, <1>c DEF Factor!vars
<1> DEFINE Goal == chal'[work[z].chal] = chal[work[z].chal]
<1>1. ASSUME NEW w \in Work, Factor!Load(w)
      PROVE  Goal
  BY <1>1, <1>a, <1>c DEF Factor!Load, Factor!Goto, Factor!ghosts
<1>2. ASSUME NEW w \in Work, Factor!Drop(w)
      PROVE  Goal
  <2>1. CASE z = w
    BY <1>2, <2>1, <1>a DEF Factor!Drop, Factor!Goto, Answering, AnswerRow
  <2>2. CASE z # w
    <3>1. work[w].kind = "login" => work[w].chal # work[z].chal
      BY <1>2, <2>2, <1>b DEF Factor!Drop, KindSound, ChallengeHeld, Answering, Finished
    <3>3. work[w].kind = "login"
      BY <1>2, LoginAt DEF Factor!Drop
    <3>2. \/ chal' = chal
          \/ /\ work[w].kind = "login"
             /\ \E x : chal' = [chal EXCEPT ![work[w].chal] = x]
      BY <1>2, <3>3 DEF Factor!Drop
    <3> QED BY <3>1, <3>2, <1>a, <1>c
  <2> QED BY <2>1, <2>2
<1>3. ASSUME NEW w \in Work, Factor!Reserve(w)
      PROVE  Goal
  BY <1>3, <1>a, <1>c DEF Factor!Reserve, Factor!Goto, Factor!ghosts
<1>4. ASSUME NEW w \in Work, Factor!Wrong(w)
      PROVE  Goal
  BY <1>4, <1>a, <1>c DEF Factor!Wrong, Factor!Goto, Factor!ghosts
<1>5. ASSUME NEW w \in Work, Factor!ClearFailedAttempts(w)
      PROVE  Goal
  BY <1>5, <1>a, <1>c DEF Factor!ClearFailedAttempts, Factor!Goto, Factor!ghosts
<1>6. ASSUME NEW w \in Work, Factor!RegisterFailure(w)
      PROVE  Goal
  <2>1. CASE z = w
    BY <1>6, <2>1, <1>a DEF Factor!RegisterFailure, Factor!Goto, Answering, AnswerRow
  <2>2. CASE z # w
    <3>1. work[w].kind = "login" => work[w].chal # work[z].chal
      BY <1>6, <2>2, <1>b
         DEF Factor!RegisterFailure, KindSound, ChallengeHeld, Answering, Finished
    <3>2. \/ chal' = chal
          \/ /\ work[w].kind = "login"
             /\ \E x : chal' = [chal EXCEPT ![work[w].chal] = x]
      BY <1>6 DEF Factor!RegisterFailure
    <3> QED BY <3>1, <3>2, <1>a, <1>c
  <2> QED BY <2>1, <2>2
<1>7. ASSUME NEW w \in Work, Factor!Consume(w)
      PROVE  Goal
  <2>1. CASE z = w
    BY <1>7, <2>1, <1>a DEF Factor!Consume, Factor!Goto, Answering, AnswerRow
  <2>2. CASE z # w
    <3>1. work[w].kind = "login" => work[w].chal # work[z].chal
      BY <1>7, <2>2, <1>b
         DEF Factor!Consume, KindSound, ChallengeHeld, Answering, Finished
    <3>3. work[w].kind = "login"
      BY <1>7, LoginAt DEF Factor!Consume
    <3>2. \/ chal' = chal
          \/ /\ work[w].kind = "login"
             /\ \E x : chal' = [chal EXCEPT ![work[w].chal] = x]
      BY <1>7, <3>3 DEF Factor!Consume
    <3> QED BY <3>1, <3>2, <1>a, <1>c
  <2> QED BY <2>1, <2>2
<1>8. ASSUME NEW w \in Work, Factor!IssueSession(w)
      PROVE  Goal
  BY <1>8, <1>a, <1>c DEF Factor!IssueSession, Factor!Goto, Factor!ghosts
<1>9. ASSUME NEW w \in Work, Factor!SavePendingSecret(w)
      PROVE  Goal
  BY <1>9, <1>a, <1>c DEF Factor!SavePendingSecret, Factor!Goto, Factor!ghosts
<1>10. ASSUME NEW w \in Work, Factor!SaveConfirmation(w)
      PROVE  Goal
  BY <1>10, <1>a, <1>c DEF Factor!SaveConfirmation, Factor!Goto, Factor!ghosts
<1>11. ASSUME NEW w \in Work, Factor!DeleteCodes(w)
      PROVE  Goal
  BY <1>11, <1>a, <1>c DEF Factor!DeleteCodes, Factor!Goto, Factor!ghosts
<1>12. ASSUME NEW w \in Work, Factor!ReplaceCodes(w)
      PROVE  Goal
  BY <1>12, <1>a, <1>c DEF Factor!ReplaceCodes, Factor!Goto, Factor!ghosts
<1>13. ASSUME NEW w \in Work, Factor!Clear(w)
      PROVE  Goal
  BY <1>13, <1>a, <1>c DEF Factor!Clear, Factor!Goto, Factor!ghosts
<1>14. ASSUME NEW w \in Work, Factor!Stop(w)
      PROVE  Goal
  BY <1>14, <1>a, <1>c DEF Factor!Stop, Factor!Goto, Factor!ghosts
<1>15. ASSUME NEW w \in Work, NEW c \in Challenge, Factor!Claim(w, c)
      PROVE  Goal
  BY <1>15, <1>a, <1>c DEF Factor!Claim, Factor!ghosts, Factor!Claimable
<1>16. ASSUME NEW w \in Work, NEW kind \in Kind, Factor!Ask(w, kind)
      PROVE  Goal
  BY <1>16, <1>a, <1>c DEF Factor!Ask, Factor!ghosts
<1>17. ASSUME NEW w \in Work, NEW secret \in 1..secrets, NEW d \in Steps,
             Factor!SpendCode(w, secret, now + d)
      PROVE  Goal
  BY <1>17, <1>a, <1>c DEF Factor!SpendCode, Factor!Accept, Factor!Goto, Factor!ghosts
<1>18. ASSUME NEW w \in Work, NEW code \in work[w].codes, Factor!SpendRecovery(w, code)
      PROVE  Goal
  BY <1>18, <1>a, <1>c DEF Factor!SpendRecovery, Factor!Accept, Factor!Goto,
      Factor!ghosts
<1>19. ASSUME Factor!Tick
      PROVE  Goal
  BY <1>19, <1>a, <1>c DEF Factor!Tick, Factor!ghosts
<1> QED
  BY <1>0, <1>1, <1>2, <1>3, <1>4, <1>5, <1>6, <1>7, <1>8, <1>9, <1>10, <1>11, <1>12,
      <1>13, <1>14, <1>15, <1>16, <1>17, <1>18, <1>19 DEF Factor!Next

LEMMA HeldStep ==
  ASSUME NEW z, Factor!FactorAssumption, FInv, [Factor!Next]_Factor!vars, z \in Work,
         work'[z].kind = "login", work'[z].pc \in Answering
  PROVE  /\ chal'[work'[z].chal].state = "claimed"
         /\ \A v \in Work : v # z /\ work'[v].kind = "login" /\ work'[v].pc \in Answering
              => work'[v].chal # work'[z].chal
<1>a. /\ work \in [Work -> AnswerRow] /\ chal \in [Challenge -> ChallengeRow]
      /\ \A v \in Work : ChallengeHeld(v)
  BY DEF FInv, FTyped, ChallengesHeld
<1>1. CASE /\ work[z].kind = "login" /\ work[z].pc \in Answering
           /\ work'[z].chal = work[z].chal
  <2>1. chal[work[z].chal].state = "claimed"
    BY <1>1, <1>a DEF ChallengeHeld
  <2>2. chal'[work'[z].chal].state = "claimed"
    BY <1>1, <2>1, AnsweringKept
  <2>3. ASSUME NEW v \in Work, v # z, work'[v].kind = "login", work'[v].pc \in Answering
        PROVE  work'[v].chal # work'[z].chal
    <3>1. CASE /\ work[v].kind = "login" /\ work[v].pc \in Answering
               /\ work'[v].chal = work[v].chal
      BY <1>1, <2>3, <3>1, <1>a DEF ChallengeHeld
    <3>2. CASE \E g \in Challenge : Factor!Claim(v, g) /\ work'[v].chal = g
      BY <1>1, <2>1, <3>2 DEF Factor!Claim, Factor!Claimable
    <3> QED BY <2>3, <3>1, <3>2, AnsweringComesFrom
  <2> QED BY <2>2, <2>3
<1>2. CASE \E g \in Challenge : Factor!Claim(z, g) /\ work'[z].chal = g
  <2>1. PICK g \in Challenge : Factor!Claim(z, g) /\ work'[z].chal = g
    BY <1>2
  <2>2. chal[g].state = "open" /\ chal' = [chal EXCEPT ![g].state = "claimed"]
    BY <2>1 DEF Factor!Claim, Factor!Claimable
  <2>3. chal'[g].state = "claimed"
    BY <2>2, <1>a DEF ChallengeRow
  <2>4. ASSUME NEW v \in Work, v # z, work'[v].kind = "login", work'[v].pc \in Answering
        PROVE  work'[v].chal # work'[z].chal
    <3>1. work'[v] = work[v]
      BY <2>1, <2>4, <1>a DEF Factor!Claim
    <3>2. chal[work[v].chal].state = "claimed"
      BY <2>4, <3>1, <1>a DEF ChallengeHeld
    <3> QED BY <2>1, <2>2, <3>1, <3>2
  <2> QED BY <2>1, <2>3, <2>4
<1> QED BY <1>1, <1>2, AnsweringComesFrom

LEMMA DropComesFrom ==
  ASSUME NEW z, Factor!FactorAssumption, FInv, [Factor!Next]_Factor!vars, z \in Work,
         work'[z].pc = "drop"
  PROVE  /\ work[z].kind = "login" /\ work'[z].chal = work[z].chal
         /\ \/ work[z].pc = "drop" /\ work'[z] = work[z]
            \/ /\ work[z].pc = "load" /\ chal' = chal
               /\ \A v \in Work : v # z => work'[v] = work[v]
            \/ /\ work[z].pc = "failed" /\ chal'[work[z].chal].attempts = MaxAttempts
               /\ \A v \in Work : v # z => work'[v] = work[v]
<1>a. work \in [Work -> AnswerRow] /\ KindSound(z)
  BY DEF FInv, FTyped, KindsSound
<1>b. work[z] \in AnswerRow
  BY <1>a
<1>c. work[z].pc = "drop" => work[z].kind = "login"
  BY LoginAt
<1>d. /\ chal \in [Challenge -> ChallengeRow] /\ ChallengeHeld(z) /\ KindSound(z)
      /\ \A g \in Challenge : ClaimedChallenge(g)
  BY DEF FInv, FTyped, ChallengesHeld, ClaimsCounted, KindsSound
<1>0. CASE UNCHANGED Factor!vars
  BY <1>0, <1>a, <1>b, <1>c DEF Factor!vars
<1> DEFINE Goal ==
         /\ work[z].kind = "login" /\ work'[z].chal = work[z].chal
         /\ \/ work[z].pc = "drop" /\ work'[z] = work[z]
            \/ /\ work[z].pc = "load" /\ chal' = chal
               /\ \A v \in Work : v # z => work'[v] = work[v]
            \/ /\ work[z].pc = "failed" /\ chal'[work[z].chal].attempts = MaxAttempts
               /\ \A v \in Work : v # z => work'[v] = work[v]
<1>1. ASSUME NEW w \in Work, Factor!Load(w)
      PROVE  Goal
  <2>1. CASE z # w
    <3>1. work'[z] = work[z]
      BY <1>1, <2>1, <1>a DEF Factor!Load
    <3> QED BY <3>1, <1>c
  <2>2. CASE z = w
    <3>1. /\ work'[z].chal = work[z].chal /\ work[z].pc = "load" /\ chal' = chal
          /\ \A v \in Work : v # z => work'[v] = work[v]
      BY <1>1, <2>2, <1>a, <1>b DEF AnswerRow, Factor!Load
    <3>2. work[z].kind = "login"
      BY <1>1, <2>2, <1>a, <1>b DEF AnswerRow, Factor!Load
    <3> QED BY <3>1, <3>2
  <2> QED BY <2>1, <2>2
<1>2. ASSUME NEW w \in Work, Factor!Drop(w)
      PROVE  Goal
  <2>1. CASE z # w
    <3>1. work'[z] = work[z]
      BY <1>2, <2>1, <1>a DEF Factor!Drop, Factor!Goto, Factor!Accept
    <3> QED BY <3>1, <1>c
  <2>2. CASE z = w
    BY <1>2, <2>2, <1>a, <1>b, <1>c
       DEF Factor!Drop, KindSound, AnswerRow, Answering, Factor!Goto, Factor!Accept
  <2> QED BY <2>1, <2>2
<1>3. ASSUME NEW w \in Work, Factor!Reserve(w)
      PROVE  Goal
  <2>1. CASE z # w
    <3>1. work'[z] = work[z]
      BY <1>3, <2>1, <1>a DEF Factor!Reserve, Factor!Goto, Factor!Accept
    <3> QED BY <3>1, <1>c
  <2>2. CASE z = w
    BY <1>3, <2>2, <1>a, <1>b, <1>c
       DEF Factor!Reserve, KindSound, AnswerRow, Answering, Factor!Goto, Factor!Accept
  <2> QED BY <2>1, <2>2
<1>4. ASSUME NEW w \in Work, Factor!Wrong(w)
      PROVE  Goal
  <2>1. CASE z # w
    <3>1. work'[z] = work[z]
      BY <1>4, <2>1, <1>a DEF Factor!Wrong, Factor!Goto, Factor!Accept
    <3> QED BY <3>1, <1>c
  <2>2. CASE z = w
    BY <1>4, <2>2, <1>a, <1>b, <1>c
       DEF Factor!Wrong, KindSound, AnswerRow, Answering, Factor!Goto, Factor!Accept
  <2> QED BY <2>1, <2>2
<1>5. ASSUME NEW w \in Work, Factor!ClearFailedAttempts(w)
      PROVE  Goal
  <2>1. CASE z # w
    <3>1. work'[z] = work[z]
      BY <1>5, <2>1, <1>a DEF Factor!ClearFailedAttempts, Factor!Goto, Factor!Accept
    <3> QED BY <3>1, <1>c
  <2>2. CASE z = w
    BY <1>5, <2>2, <1>a, <1>b, <1>c
       DEF Factor!ClearFailedAttempts, KindSound, AnswerRow, Answering, Factor!Goto,
           Factor!Accept
  <2> QED BY <2>1, <2>2
<1>6. ASSUME NEW w \in Work, Factor!RegisterFailure(w)
      PROVE  Goal
  <2>1. CASE z # w
    <3>1. work'[z] = work[z]
      BY <1>6, <2>1, <1>a DEF Factor!RegisterFailure, Factor!Goto
    <3> QED BY <3>1, <1>c
  <2>2. CASE z = w
    <3>1. CASE work[z].kind = "login" /\ chal[work[z].chal].state # "gone"
      <4>1. work[z].chal \in Challenge /\ chal[work[z].chal] \in ChallengeRow
        BY <3>1, <1>a, <1>d DEF KindSound
      <4>2. chal[work[z].chal].attempts < MaxAttempts
        BY <1>6, <2>2, <3>1, <4>1, <1>d
           DEF Factor!RegisterFailure, ChallengeHeld, Answering, ClaimedChallenge
      <4>3. /\ chal' =
                 [chal EXCEPT ![work[z].chal].state = "open",
                              ![work[z].chal].attempts = chal[work[z].chal].attempts + 1]
            /\ work' =
                 [work EXCEPT ![z].pc = IF chal[work[z].chal].attempts + 1 >= MaxAttempts
                                             THEN "drop" ELSE "refused"]
        BY <1>6, <2>2, <3>1 DEF Factor!RegisterFailure, Factor!Goto
      <4>4. chal[work[z].chal].attempts + 1 >= MaxAttempts
        BY <4>3, <1>a, <1>b DEF AnswerRow
      <4>5. chal[work[z].chal].attempts + 1 = MaxAttempts
        BY <4>1, <4>2, <4>4 DEF ChallengeRow, Factor!FactorAssumption
      <4>6. chal'[work[z].chal].attempts = MaxAttempts
        BY <4>1, <4>3, <4>5, <1>d DEF ChallengeRow
      <4>7. /\ work'[z].chal = work[z].chal /\ work[z].pc = "failed"
            /\ \A v \in Work : v # z => work'[v] = work[v]
        BY <1>6, <2>2, <4>3, <1>a, <1>b DEF AnswerRow, Factor!RegisterFailure
      <4> QED BY <3>1, <4>6, <4>7
    <3>2. CASE ~(work[z].kind = "login" /\ chal[work[z].chal].state # "gone")
      BY <1>6, <2>2, <3>2, <1>a, <1>b DEF Factor!RegisterFailure, Factor!Goto, AnswerRow
    <3> QED BY <3>1, <3>2
  <2> QED BY <2>1, <2>2
<1>7. ASSUME NEW w \in Work, Factor!Consume(w)
      PROVE  Goal
  <2>1. CASE z # w
    <3>1. work'[z] = work[z]
      BY <1>7, <2>1, <1>a DEF Factor!Consume, Factor!Goto, Factor!Accept
    <3> QED BY <3>1, <1>c
  <2>2. CASE z = w
    BY <1>7, <2>2, <1>a, <1>b, <1>c
       DEF Factor!Consume, KindSound, AnswerRow, Answering, Factor!Goto, Factor!Accept
  <2> QED BY <2>1, <2>2
<1>8. ASSUME NEW w \in Work, Factor!IssueSession(w)
      PROVE  Goal
  <2>1. CASE z # w
    <3>1. work'[z] = work[z]
      BY <1>8, <2>1, <1>a DEF Factor!IssueSession, Factor!Goto, Factor!Accept
    <3> QED BY <3>1, <1>c
  <2>2. CASE z = w
    BY <1>8, <2>2, <1>a, <1>b, <1>c
       DEF Factor!IssueSession, KindSound, AnswerRow, Answering, Factor!Goto,
           Factor!Accept
  <2> QED BY <2>1, <2>2
<1>9. ASSUME NEW w \in Work, Factor!SavePendingSecret(w)
      PROVE  Goal
  <2>1. CASE z # w
    <3>1. work'[z] = work[z]
      BY <1>9, <2>1, <1>a DEF Factor!SavePendingSecret, Factor!Goto, Factor!Accept
    <3> QED BY <3>1, <1>c
  <2>2. CASE z = w
    BY <1>9, <2>2, <1>a, <1>b, <1>c
       DEF Factor!SavePendingSecret, KindSound, AnswerRow, Answering, Factor!Goto,
           Factor!Accept
  <2> QED BY <2>1, <2>2
<1>10. ASSUME NEW w \in Work, Factor!SaveConfirmation(w)
      PROVE  Goal
  <2>1. CASE z # w
    <3>1. work'[z] = work[z]
      BY <1>10, <2>1, <1>a DEF Factor!SaveConfirmation, Factor!Goto, Factor!Accept
    <3> QED BY <3>1, <1>c
  <2>2. CASE z = w
    BY <1>10, <2>2, <1>a, <1>b, <1>c
       DEF Factor!SaveConfirmation, KindSound, AnswerRow, Answering, Factor!Goto,
           Factor!Accept
  <2> QED BY <2>1, <2>2
<1>11. ASSUME NEW w \in Work, Factor!DeleteCodes(w)
      PROVE  Goal
  <2>1. CASE z # w
    <3>1. work'[z] = work[z]
      BY <1>11, <2>1, <1>a DEF Factor!DeleteCodes, Factor!Goto, Factor!Accept
    <3> QED BY <3>1, <1>c
  <2>2. CASE z = w
    BY <1>11, <2>2, <1>a, <1>b, <1>c
       DEF Factor!DeleteCodes, KindSound, AnswerRow, Answering, Factor!Goto,
           Factor!Accept
  <2> QED BY <2>1, <2>2
<1>12. ASSUME NEW w \in Work, Factor!ReplaceCodes(w)
      PROVE  Goal
  <2>1. CASE z # w
    <3>1. work'[z] = work[z]
      BY <1>12, <2>1, <1>a DEF Factor!ReplaceCodes, Factor!Goto, Factor!Accept
    <3> QED BY <3>1, <1>c
  <2>2. CASE z = w
    BY <1>12, <2>2, <1>a, <1>b, <1>c
       DEF Factor!ReplaceCodes, KindSound, AnswerRow, Answering, Factor!Goto,
           Factor!Accept
  <2> QED BY <2>1, <2>2
<1>13. ASSUME NEW w \in Work, Factor!Clear(w)
      PROVE  Goal
  <2>1. CASE z # w
    <3>1. work'[z] = work[z]
      BY <1>13, <2>1, <1>a DEF Factor!Clear, Factor!Goto, Factor!Accept
    <3> QED BY <3>1, <1>c
  <2>2. CASE z = w
    BY <1>13, <2>2, <1>a, <1>b, <1>c
       DEF Factor!Clear, KindSound, AnswerRow, Answering, Factor!Goto, Factor!Accept
  <2> QED BY <2>1, <2>2
<1>14. ASSUME NEW w \in Work, Factor!Stop(w)
      PROVE  Goal
  <2>1. CASE z # w
    <3>1. work'[z] = work[z]
      BY <1>14, <2>1, <1>a DEF Factor!Stop, Factor!Goto, Factor!Accept
    <3> QED BY <3>1, <1>c
  <2>2. CASE z = w
    BY <1>14, <2>2, <1>a, <1>b, <1>c
       DEF Factor!Stop, KindSound, AnswerRow, Answering, Factor!Goto, Factor!Accept
  <2> QED BY <2>1, <2>2
<1>15. ASSUME NEW w \in Work, NEW c \in Challenge, Factor!Claim(w, c)
      PROVE  Goal
  <2>1. CASE z # w
    <3>1. work'[z] = work[z]
      BY <1>15, <2>1, <1>a DEF Factor!Claim
    <3> QED BY <3>1, <1>c
  <2>2. CASE z = w
    BY <1>15, <2>2, <1>a, <1>b, <1>c DEF Factor!Claim, KindSound, AnswerRow, Answering
  <2> QED BY <2>1, <2>2
<1>16. ASSUME NEW w \in Work, NEW kind \in Kind, Factor!Ask(w, kind)
      PROVE  Goal
  <2>1. CASE z # w
    <3>1. work'[z] = work[z]
      BY <1>16, <2>1, <1>a DEF Factor!Ask
    <3> QED BY <3>1, <1>c
  <2>2. CASE z = w
    BY <1>16, <2>2, <1>a, <1>b, <1>c DEF Factor!Ask, KindSound, AnswerRow, Answering
  <2> QED BY <2>1, <2>2
<1>17. ASSUME NEW w \in Work, NEW secret \in 1..secrets, NEW d \in Steps,
             Factor!SpendCode(w, secret, now + d)
      PROVE  Goal
  <2>1. /\ work[w].pc = "check"
        /\ \/ work' = [work EXCEPT ![w].pc = "failed"]
           \/ work' = [work EXCEPT ![w].pc = "clear", ![w].answer = [secret |-> secret,
                step |-> now + d]]
    BY <1>17 DEF Factor!SpendCode, Factor!Accept, Factor!Goto
  <2>2. CASE z # w
    BY <2>1, <2>2, <1>a, <1>c
  <2>3. CASE z = w
    BY <2>1, <2>3, <1>a, <1>b DEF AnswerRow, Answering
  <2> QED BY <2>2, <2>3
<1>18. ASSUME NEW w \in Work, NEW code \in work[w].codes, Factor!SpendRecovery(w, code)
      PROVE  Goal
  <2>1. /\ work[w].pc = "check"
        /\ \/ work' = [work EXCEPT ![w].pc = "failed"]
           \/ work' = [work EXCEPT ![w].pc = "clear", ![w].answer = [recovery |-> code]]
    BY <1>18 DEF Factor!SpendRecovery, Factor!Accept, Factor!Goto
  <2>2. CASE z # w
    BY <2>1, <2>2, <1>a, <1>c
  <2>3. CASE z = w
    BY <2>1, <2>3, <1>a, <1>b DEF AnswerRow, Answering
  <2> QED BY <2>2, <2>3
<1>19. ASSUME Factor!Tick
      PROVE  Goal
  BY <1>19, <1>a, <1>b, <1>c DEF Factor!Tick, Factor!ghosts
<1> QED
  BY <1>0, <1>1, <1>2, <1>3, <1>4, <1>5, <1>6, <1>7, <1>8, <1>9, <1>10, <1>11, <1>12,
      <1>13, <1>14, <1>15, <1>16, <1>17, <1>18, <1>19 DEF Factor!Next

LEMMA FullStaysFull ==
  ASSUME NEW z, Factor!FactorAssumption, FInv, [Factor!Next]_Factor!vars, z \in Work,
         work[z].pc = "drop"
  PROVE  \/ chal'[work[z].chal].state # "open"
         \/ chal'[work[z].chal].attempts = MaxAttempts
<1>a. chal \in [Challenge -> ChallengeRow] /\ work \in [Work -> AnswerRow]
  BY DEF FInv, FTyped
<1>b. \A v \in Work : KindSound(v) /\ ChallengeHeld(v)
  BY DEF FInv, KindsSound, ChallengesHeld
<1>c. work[z].kind = "login" /\ work[z].chal \in Challenge
  BY LoginAt, <1>b DEF KindSound
<1>d. \/ chal[work[z].chal].state # "open"
      \/ chal[work[z].chal].attempts = MaxAttempts
  BY <1>b, <1>c DEF ChallengeHeld
<1>e. MaxAttempts \in Nat /\ chal[work[z].chal] \in ChallengeRow
  BY <1>a, <1>c DEF Factor!FactorAssumption
<1>0. CASE UNCHANGED Factor!vars
  BY <1>0, <1>a, <1>c, <1>d, <1>e DEF Factor!vars, ChallengeRow
<1> DEFINE Goal ==
         \/ chal'[work[z].chal].state # "open"
         \/ chal'[work[z].chal].attempts = MaxAttempts
<1>1. ASSUME NEW w \in Work, Factor!Load(w)
      PROVE  Goal
  BY <1>1, <1>a, <1>c, <1>d, <1>e DEF Factor!Load, Factor!Goto, Factor!ghosts,
      ChallengeRow
<1>2. ASSUME NEW w \in Work, Factor!Drop(w)
      PROVE  Goal
  <2>1. chal' = [chal EXCEPT ![work[w].chal].state = "gone"]
    BY <1>2 DEF Factor!Drop
  <2> QED BY <2>1, <1>a, <1>c, <1>d, <1>e DEF ChallengeRow
<1>3. ASSUME NEW w \in Work, Factor!Reserve(w)
      PROVE  Goal
  BY <1>3, <1>a, <1>c, <1>d, <1>e DEF Factor!Reserve, Factor!Goto, Factor!ghosts,
      ChallengeRow
<1>4. ASSUME NEW w \in Work, Factor!Wrong(w)
      PROVE  Goal
  BY <1>4, <1>a, <1>c, <1>d, <1>e DEF Factor!Wrong, Factor!Goto, Factor!ghosts,
      ChallengeRow
<1>5. ASSUME NEW w \in Work, Factor!ClearFailedAttempts(w)
      PROVE  Goal
  BY <1>5, <1>a, <1>c, <1>d, <1>e DEF Factor!ClearFailedAttempts, Factor!Goto,
      Factor!ghosts, ChallengeRow
<1>6. ASSUME NEW w \in Work, Factor!RegisterFailure(w)
      PROVE  Goal
  <2>1. work[w].kind = "login" => work[w].chal # work[z].chal
    BY <1>6, <1>b, <1>c DEF Factor!RegisterFailure, ChallengeHeld, Answering
  <2>2. \/ chal' = chal
        \/ /\ work[w].kind = "login"
           /\ chal' =
                [chal EXCEPT ![work[w].chal].state = "open",
                             ![work[w].chal].attempts = chal[work[w].chal].attempts + 1]
    BY <1>6 DEF Factor!RegisterFailure
  <2> QED BY <2>1, <2>2, <1>a, <1>c, <1>d
<1>7. ASSUME NEW w \in Work, Factor!Consume(w)
      PROVE  Goal
  <2>1. chal' = [chal EXCEPT ![work[w].chal].state = "gone"]
    BY <1>7 DEF Factor!Consume
  <2> QED BY <2>1, <1>a, <1>c, <1>d, <1>e DEF ChallengeRow
<1>8. ASSUME NEW w \in Work, Factor!IssueSession(w)
      PROVE  Goal
  BY <1>8, <1>a, <1>c, <1>d, <1>e DEF Factor!IssueSession, Factor!Goto, Factor!ghosts,
      ChallengeRow
<1>9. ASSUME NEW w \in Work, Factor!SavePendingSecret(w)
      PROVE  Goal
  BY <1>9, <1>a, <1>c, <1>d, <1>e DEF Factor!SavePendingSecret, Factor!Goto,
      Factor!ghosts, ChallengeRow
<1>10. ASSUME NEW w \in Work, Factor!SaveConfirmation(w)
      PROVE  Goal
  BY <1>10, <1>a, <1>c, <1>d, <1>e DEF Factor!SaveConfirmation, Factor!Goto,
      Factor!ghosts, ChallengeRow
<1>11. ASSUME NEW w \in Work, Factor!DeleteCodes(w)
      PROVE  Goal
  BY <1>11, <1>a, <1>c, <1>d, <1>e DEF Factor!DeleteCodes, Factor!Goto, Factor!ghosts,
      ChallengeRow
<1>12. ASSUME NEW w \in Work, Factor!ReplaceCodes(w)
      PROVE  Goal
  BY <1>12, <1>a, <1>c, <1>d, <1>e DEF Factor!ReplaceCodes, Factor!Goto, Factor!ghosts,
      ChallengeRow
<1>13. ASSUME NEW w \in Work, Factor!Clear(w)
      PROVE  Goal
  BY <1>13, <1>a, <1>c, <1>d, <1>e DEF Factor!Clear, Factor!Goto, Factor!ghosts,
      ChallengeRow
<1>14. ASSUME NEW w \in Work, Factor!Stop(w)
      PROVE  Goal
  BY <1>14, <1>a, <1>c, <1>d, <1>e DEF Factor!Stop, Factor!Goto, Factor!ghosts,
      ChallengeRow
<1>15. ASSUME NEW w \in Work, NEW c \in Challenge, Factor!Claim(w, c)
      PROVE  Goal
  BY <1>15, <1>a, <1>c, <1>d, <1>e DEF Factor!Claim, Factor!ghosts, ChallengeRow,
      Factor!Claimable
<1>16. ASSUME NEW w \in Work, NEW kind \in Kind, Factor!Ask(w, kind)
      PROVE  Goal
  BY <1>16, <1>a, <1>c, <1>d, <1>e DEF Factor!Ask, Factor!ghosts, ChallengeRow
<1>17. ASSUME NEW w \in Work, NEW secret \in 1..secrets, NEW d \in Steps,
             Factor!SpendCode(w, secret, now + d)
      PROVE  Goal
  BY <1>17, <1>a, <1>c, <1>d, <1>e DEF Factor!SpendCode, Factor!Accept, Factor!Goto,
      Factor!ghosts, ChallengeRow
<1>18. ASSUME NEW w \in Work, NEW code \in work[w].codes, Factor!SpendRecovery(w, code)
      PROVE  Goal
  BY <1>18, <1>a, <1>c, <1>d, <1>e DEF Factor!SpendRecovery, Factor!Accept, Factor!Goto,
      Factor!ghosts, ChallengeRow
<1>19. ASSUME Factor!Tick
      PROVE  Goal
  BY <1>19, <1>a, <1>c, <1>d, <1>e DEF Factor!Tick, Factor!ghosts, ChallengeRow
<1> QED
  BY <1>0, <1>1, <1>2, <1>3, <1>4, <1>5, <1>6, <1>7, <1>8, <1>9, <1>10, <1>11, <1>12,
      <1>13, <1>14, <1>15, <1>16, <1>17, <1>18, <1>19 DEF Factor!Next

LEMMA DropStep ==
  ASSUME NEW z, Factor!FactorAssumption, FInv, [Factor!Next]_Factor!vars, z \in Work,
         work'[z].pc = "drop"
  PROVE  /\ \/ chal'[work'[z].chal].state # "open"
            \/ chal'[work'[z].chal].attempts = MaxAttempts
         /\ \A v \in Work : v # z /\ work'[v].kind = "login" /\ work'[v].pc \in Answering
              => work'[v].chal # work'[z].chal
<1>a. /\ work \in [Work -> AnswerRow] /\ chal \in [Challenge -> ChallengeRow]
      /\ \A v \in Work : ChallengeHeld(v) /\ KindSound(v)
  BY DEF FInv, FTyped, ChallengesHeld, KindsSound
<1>1. /\ work[z].kind = "login" /\ work'[z].chal = work[z].chal
      /\ \/ work[z].pc = "drop" /\ work'[z] = work[z]
         \/ /\ work[z].pc = "load" /\ chal' = chal
            /\ \A v \in Work : v # z => work'[v] = work[v]
         \/ /\ work[z].pc = "failed" /\ chal'[work[z].chal].attempts = MaxAttempts
            /\ \A v \in Work : v # z => work'[v] = work[v]
  BY DropComesFrom
<1>2. \/ chal'[work'[z].chal].state # "open"
      \/ chal'[work'[z].chal].attempts = MaxAttempts
  <2>1. CASE work[z].pc = "drop"
    BY <1>1, <2>1, FullStaysFull
  <2>2. CASE work[z].pc = "load" /\ chal' = chal
    BY <1>1, <2>2, <1>a DEF ChallengeHeld, Answering
  <2> QED BY <1>1, <2>1, <2>2
<1>3. ASSUME NEW v \in Work, v # z, work'[v].kind = "login", work'[v].pc \in Answering
      PROVE  work'[v].chal # work'[z].chal
  <2>1. CASE /\ work[v].kind = "login" /\ work[v].pc \in Answering
             /\ work'[v].chal = work[v].chal
    BY <1>1, <1>3, <2>1, <1>a DEF ChallengeHeld, Answering
  <2>2. CASE \E g \in Challenge : Factor!Claim(v, g) /\ work'[v].chal = g
    <3>1. PICK g \in Challenge : Factor!Claim(v, g) /\ work'[v].chal = g
      BY <2>2
    <3>2. work[v].pc = "idle" /\ work'[v].pc = "load" /\ work'[v] # work[v]
      BY <3>1, <1>a DEF Factor!Claim, AnswerRow
    <3>3. work[z].pc = "drop"
      BY <1>1, <1>3, <3>2
    <3>4. chal[g].state = "open" /\ chal[g].attempts < MaxAttempts
      BY <3>1 DEF Factor!Claim, Factor!Claimable
    <3> QED BY <1>1, <3>1, <3>3, <3>4, <1>a DEF ChallengeHeld, Factor!FactorAssumption
  <2> QED BY <1>3, <2>1, <2>2, AnsweringComesFrom
<1> QED BY <1>2, <1>3

LEMMA IssueComesFrom ==
  ASSUME NEW z, Factor!FactorAssumption, FInv, [Factor!Next]_Factor!vars, z \in Work,
         work'[z].pc = "issue" \/ z \in sessions'
  PROVE  /\ work[z].kind = "login" /\ work'[z].chal = work[z].chal
         /\ \/ work[z].pc = "issue" \/ z \in sessions
            \/ Factor!Consume(z)
<1>a. work \in [Work -> AnswerRow] /\ KindSound(z)
  BY DEF FInv, FTyped, KindsSound
<1>b. work[z] \in AnswerRow
  BY <1>a
<1>c. /\ work[z].pc = "issue" => work[z].kind = "login"
      /\ z \in sessions => work[z].kind = "login" /\ work[z].pc = "done"
  BY LoginAt DEF FInv, SessionsOfLogins
<1>0. CASE UNCHANGED Factor!vars
  BY <1>0, <1>a, <1>b, <1>c DEF Factor!vars
<1> DEFINE Goal ==
         /\ work[z].kind = "login" /\ work'[z].chal = work[z].chal
         /\ \/ work[z].pc = "issue" \/ z \in sessions
            \/ Factor!Consume(z)
<1>1. ASSUME NEW w \in Work, Factor!Load(w)
      PROVE  Goal
  <2>1. CASE z # w
    <3>1. work'[z] = work[z] /\ sessions' = sessions
      BY <1>1, <2>1, <1>a DEF Factor!Load, Factor!ghosts
    <3> QED BY <3>1, <1>c
  <2>2. CASE z = w
    <3>1. /\ \E p \in {"save", "reserve", "drop", "refused"} : work'[z].pc = p
          /\ sessions' = sessions /\ work[z].pc = "load"
      BY <1>1, <2>2, <1>a, <1>b DEF AnswerRow, Factor!Load, Factor!ghosts
    <3> QED BY <3>1, <1>c
  <2> QED BY <2>1, <2>2
<1>2. ASSUME NEW w \in Work, Factor!Drop(w)
      PROVE  Goal
  <2>1. CASE z # w
    <3>1. work'[z] = work[z] /\ (z \in sessions' => z \in sessions)
      BY <1>2, <2>1, <1>a DEF Factor!Drop, Factor!Goto, Factor!Accept, Factor!ghosts
    <3> QED BY <3>1, <1>c
  <2>2. CASE z = w
    BY <1>2, <2>2, <1>a, <1>b, <1>c
       DEF Factor!Drop, KindSound, AnswerRow, Factor!Goto, Factor!Accept, Factor!ghosts
  <2> QED BY <2>1, <2>2
<1>3. ASSUME NEW w \in Work, Factor!Reserve(w)
      PROVE  Goal
  <2>1. CASE z # w
    <3>1. work'[z] = work[z] /\ (z \in sessions' => z \in sessions)
      BY <1>3, <2>1, <1>a DEF Factor!Reserve, Factor!Goto, Factor!Accept, Factor!ghosts
    <3> QED BY <3>1, <1>c
  <2>2. CASE z = w
    BY <1>3, <2>2, <1>a, <1>b, <1>c
       DEF Factor!Reserve, KindSound, AnswerRow, Factor!Goto, Factor!Accept,
           Factor!ghosts
  <2> QED BY <2>1, <2>2
<1>4. ASSUME NEW w \in Work, Factor!Wrong(w)
      PROVE  Goal
  <2>1. CASE z # w
    <3>1. work'[z] = work[z] /\ (z \in sessions' => z \in sessions)
      BY <1>4, <2>1, <1>a DEF Factor!Wrong, Factor!Goto, Factor!Accept, Factor!ghosts
    <3> QED BY <3>1, <1>c
  <2>2. CASE z = w
    BY <1>4, <2>2, <1>a, <1>b, <1>c
       DEF Factor!Wrong, KindSound, AnswerRow, Factor!Goto, Factor!Accept, Factor!ghosts
  <2> QED BY <2>1, <2>2
<1>5. ASSUME NEW w \in Work, Factor!ClearFailedAttempts(w)
      PROVE  Goal
  <2>1. CASE z # w
    <3>1. work'[z] = work[z] /\ sessions' = sessions
      BY <1>5, <2>1, <1>a DEF Factor!ClearFailedAttempts, Factor!Goto
    <3> QED BY <3>1, <1>c
  <2>2. CASE z = w
    <3>1. /\ \E p \in {"consume", "save", "delete"} : work'[z].pc = p
          /\ sessions' = sessions /\ work[z].pc = "clear"
      BY <1>5, <2>2, <1>a, <1>b DEF AnswerRow, Factor!ClearFailedAttempts, Factor!Goto
    <3> QED BY <3>1, <1>c
  <2> QED BY <2>1, <2>2
<1>6. ASSUME NEW w \in Work, Factor!RegisterFailure(w)
      PROVE  Goal
  <2>1. CASE z # w
    <3>1. work'[z] = work[z] /\ (z \in sessions' => z \in sessions)
      BY <1>6, <2>1, <1>a
         DEF Factor!RegisterFailure, Factor!Goto, Factor!Accept, Factor!ghosts
    <3> QED BY <3>1, <1>c
  <2>2. CASE z = w
    BY <1>6, <2>2, <1>a, <1>b, <1>c
       DEF Factor!RegisterFailure, KindSound, AnswerRow, Factor!Goto, Factor!Accept,
           Factor!ghosts
  <2> QED BY <2>1, <2>2
<1>7. ASSUME NEW w \in Work, Factor!Consume(w)
      PROVE  Goal
  <2>1. CASE z # w
    <3>1. work'[z] = work[z] /\ sessions' = sessions
      BY <1>7, <2>1, <1>a DEF Factor!Consume, Factor!Goto, Factor!ghosts
    <3> QED BY <3>1, <1>c
  <2>2. CASE z = w
    <3>1. work'[z].chal = work[z].chal /\ work[z].kind = "login"
      BY <1>7, <2>2, <1>a, <1>b, LoginAt DEF Factor!Consume, Factor!Goto, AnswerRow
    <3> QED BY <1>7, <2>2, <3>1
  <2> QED BY <2>1, <2>2
<1>8. ASSUME NEW w \in Work, Factor!IssueSession(w)
      PROVE  Goal
  <2>1. CASE z # w
    <3>1. work'[z] = work[z] /\ (z \in sessions' => z \in sessions)
      BY <1>8, <2>1, <1>a
         DEF Factor!IssueSession, Factor!Goto, Factor!Accept, Factor!ghosts
    <3> QED BY <3>1, <1>c
  <2>2. CASE z = w
    BY <1>8, <2>2, <1>a, <1>b, <1>c
       DEF Factor!IssueSession, KindSound, AnswerRow, Factor!Goto, Factor!Accept,
           Factor!ghosts
  <2> QED BY <2>1, <2>2
<1>9. ASSUME NEW w \in Work, Factor!SavePendingSecret(w)
      PROVE  Goal
  <2>1. CASE z # w
    <3>1. work'[z] = work[z] /\ (z \in sessions' => z \in sessions)
      BY <1>9, <2>1, <1>a
         DEF Factor!SavePendingSecret, Factor!Goto, Factor!Accept, Factor!ghosts
    <3> QED BY <3>1, <1>c
  <2>2. CASE z = w
    BY <1>9, <2>2, <1>a, <1>b, <1>c
       DEF Factor!SavePendingSecret, KindSound, AnswerRow, Factor!Goto, Factor!Accept,
           Factor!ghosts
  <2> QED BY <2>1, <2>2
<1>10. ASSUME NEW w \in Work, Factor!SaveConfirmation(w)
      PROVE  Goal
  <2>1. CASE z # w
    <3>1. work'[z] = work[z] /\ (z \in sessions' => z \in sessions)
      BY <1>10, <2>1, <1>a
         DEF Factor!SaveConfirmation, Factor!Goto, Factor!Accept, Factor!ghosts
    <3> QED BY <3>1, <1>c
  <2>2. CASE z = w
    BY <1>10, <2>2, <1>a, <1>b, <1>c
       DEF Factor!SaveConfirmation, KindSound, AnswerRow, Factor!Goto, Factor!Accept,
           Factor!ghosts
  <2> QED BY <2>1, <2>2
<1>11. ASSUME NEW w \in Work, Factor!DeleteCodes(w)
      PROVE  Goal
  <2>1. CASE z # w
    <3>1. work'[z] = work[z] /\ (z \in sessions' => z \in sessions)
      BY <1>11, <2>1, <1>a
         DEF Factor!DeleteCodes, Factor!Goto, Factor!Accept, Factor!ghosts
    <3> QED BY <3>1, <1>c
  <2>2. CASE z = w
    BY <1>11, <2>2, <1>a, <1>b, <1>c
       DEF Factor!DeleteCodes, KindSound, AnswerRow, Factor!Goto, Factor!Accept,
           Factor!ghosts
  <2> QED BY <2>1, <2>2
<1>12. ASSUME NEW w \in Work, Factor!ReplaceCodes(w)
      PROVE  Goal
  <2>1. CASE z # w
    <3>1. work'[z] = work[z] /\ (z \in sessions' => z \in sessions)
      BY <1>12, <2>1, <1>a
         DEF Factor!ReplaceCodes, Factor!Goto, Factor!Accept, Factor!ghosts
    <3> QED BY <3>1, <1>c
  <2>2. CASE z = w
    BY <1>12, <2>2, <1>a, <1>b, <1>c
       DEF Factor!ReplaceCodes, KindSound, AnswerRow, Factor!Goto, Factor!Accept,
           Factor!ghosts
  <2> QED BY <2>1, <2>2
<1>13. ASSUME NEW w \in Work, Factor!Clear(w)
      PROVE  Goal
  <2>1. CASE z # w
    <3>1. work'[z] = work[z] /\ (z \in sessions' => z \in sessions)
      BY <1>13, <2>1, <1>a DEF Factor!Clear, Factor!Goto, Factor!Accept, Factor!ghosts
    <3> QED BY <3>1, <1>c
  <2>2. CASE z = w
    BY <1>13, <2>2, <1>a, <1>b, <1>c
       DEF Factor!Clear, KindSound, AnswerRow, Factor!Goto, Factor!Accept, Factor!ghosts
  <2> QED BY <2>1, <2>2
<1>14. ASSUME NEW w \in Work, Factor!Stop(w)
      PROVE  Goal
  <2>1. CASE z # w
    <3>1. work'[z] = work[z] /\ (z \in sessions' => z \in sessions)
      BY <1>14, <2>1, <1>a DEF Factor!Stop, Factor!Goto, Factor!Accept, Factor!ghosts
    <3> QED BY <3>1, <1>c
  <2>2. CASE z = w
    BY <1>14, <2>2, <1>a, <1>b, <1>c
       DEF Factor!Stop, KindSound, AnswerRow, Factor!Goto, Factor!Accept, Factor!ghosts
  <2> QED BY <2>1, <2>2
<1>15. ASSUME NEW w \in Work, NEW c \in Challenge, Factor!Claim(w, c)
      PROVE  Goal
  <2>1. CASE z # w
    <3>1. work'[z] = work[z] /\ (z \in sessions' => z \in sessions)
      BY <1>15, <2>1, <1>a DEF Factor!Claim, Factor!Goto, Factor!Accept, Factor!ghosts
    <3> QED BY <3>1, <1>c
  <2>2. CASE z = w
    BY <1>15, <2>2, <1>a, <1>b, <1>c
       DEF Factor!Claim, KindSound, AnswerRow, Factor!Goto, Factor!Accept, Factor!ghosts
  <2> QED BY <2>1, <2>2
<1>16. ASSUME NEW w \in Work, NEW kind \in Kind, Factor!Ask(w, kind)
      PROVE  Goal
  <2>1. CASE z # w
    <3>1. work'[z] = work[z] /\ (z \in sessions' => z \in sessions)
      BY <1>16, <2>1, <1>a DEF Factor!Ask, Factor!Goto, Factor!Accept, Factor!ghosts
    <3> QED BY <3>1, <1>c
  <2>2. CASE z = w
    BY <1>16, <2>2, <1>a, <1>b, <1>c
       DEF Factor!Ask, KindSound, AnswerRow, Factor!Goto, Factor!Accept, Factor!ghosts
  <2> QED BY <2>1, <2>2
<1>17. ASSUME NEW w \in Work, NEW secret \in 1..secrets, NEW d \in Steps,
             Factor!SpendCode(w, secret, now + d)
      PROVE  Goal
  <2>1. /\ work[w].pc = "check" /\ sessions' = sessions
        /\ \/ work' = [work EXCEPT ![w].pc = "failed"]
           \/ work' = [work EXCEPT ![w].pc = "clear", ![w].answer = [secret |-> secret,
                step |-> now + d]]
    BY <1>17 DEF Factor!SpendCode, Factor!Accept, Factor!Goto, Factor!ghosts
  <2>2. CASE z # w
    BY <2>1, <2>2, <1>a, <1>c
  <2>3. CASE z = w
    BY <2>1, <2>3, <1>a, <1>b, <1>c DEF AnswerRow
  <2> QED BY <2>2, <2>3
<1>18. ASSUME NEW w \in Work, NEW code \in work[w].codes, Factor!SpendRecovery(w, code)
      PROVE  Goal
  <2>1. /\ work[w].pc = "check" /\ sessions' = sessions
        /\ \/ work' = [work EXCEPT ![w].pc = "failed"]
           \/ work' = [work EXCEPT ![w].pc = "clear", ![w].answer = [recovery |-> code]]
    BY <1>18 DEF Factor!SpendRecovery, Factor!Accept, Factor!Goto, Factor!ghosts
  <2>2. CASE z # w
    BY <2>1, <2>2, <1>a, <1>c
  <2>3. CASE z = w
    BY <2>1, <2>3, <1>a, <1>b, <1>c DEF AnswerRow
  <2> QED BY <2>2, <2>3
<1>19. ASSUME Factor!Tick
      PROVE  Goal
  BY <1>19, <1>a, <1>b, <1>c DEF Factor!Tick, Factor!ghosts
<1> QED
  BY <1>0, <1>1, <1>2, <1>3, <1>4, <1>5, <1>6, <1>7, <1>8, <1>9, <1>10, <1>11, <1>12,
      <1>13, <1>14, <1>15, <1>16, <1>17, <1>18, <1>19 DEF Factor!Next

LEMMA IssueStep ==
  ASSUME NEW z, Factor!FactorAssumption, FInv, [Factor!Next]_Factor!vars, z \in Work,
         work'[z].pc = "issue" \/ z \in sessions'
  PROVE  /\ chal'[work'[z].chal].state = "gone"
         /\ \A v \in Work : v # z /\ work'[v].kind = "login"
                            /\ (work'[v].pc = "issue" \/ v \in sessions')
              => work'[v].chal # work'[z].chal
<1>a. /\ work \in [Work -> AnswerRow] /\ chal \in [Challenge -> ChallengeRow]
      /\ \A v \in Work : ChallengeHeld(v) /\ KindSound(v)
  BY DEF FInv, FTyped, ChallengesHeld, KindsSound
<1>b. ASSUME NEW v \in Work, Factor!Consume(v)
      PROVE  /\ work[v].kind = "login" /\ work[v].chal \in Challenge
             /\ chal[work[v].chal].state = "claimed"
             /\ chal'[work[v].chal].state = "gone"
             /\ \A y \in Work : y # v => work'[y] = work[y]
             /\ sessions' = sessions
  <2>1. /\ work[v].pc = "consume" /\ work' = [work EXCEPT ![v].pc = "issue"]
        /\ chal' = [chal EXCEPT ![work[v].chal].state = "gone"] /\ sessions' = sessions
    BY <1>b DEF Factor!Consume, Factor!Goto, Factor!ghosts
  <2>2. work[v].kind = "login"
    BY <2>1, LoginAt
  <2>3. work[v].chal \in Challenge /\ chal[work[v].chal].state = "claimed"
    BY <2>1, <2>2, <1>a DEF ChallengeHeld, KindSound, Answering
  <2> QED BY <2>1, <2>2, <2>3, <1>a DEF ChallengeRow
<1>1. /\ work[z].kind = "login" /\ work'[z].chal = work[z].chal
      /\ \/ work[z].pc = "issue" \/ z \in sessions
         \/ Factor!Consume(z)
  BY IssueComesFrom
<1>2. CASE work[z].pc = "issue" \/ z \in sessions
  <2>1. chal[work[z].chal].state = "gone" /\ work[z].chal \in Challenge
    BY <1>1, <1>2, <1>a DEF ChallengeHeld, KindSound
  <2>2. chal'[work'[z].chal].state = "gone"
    BY <1>1, <2>1, GoneStays
  <2>3. ASSUME NEW v \in Work, v # z, work'[v].pc = "issue" \/ v \in sessions'
        PROVE  work'[v].chal # work'[z].chal
    <3>1. /\ work[v].kind = "login" /\ work'[v].chal = work[v].chal
          /\ \/ work[v].pc = "issue" \/ v \in sessions
             \/ Factor!Consume(v)
      BY <2>3, IssueComesFrom
    <3>2. CASE work[v].pc = "issue" \/ v \in sessions
      BY <1>1, <1>2, <2>3, <3>1, <3>2, <1>a DEF ChallengeHeld
    <3>3. CASE Factor!Consume(v)
      BY <1>1, <2>1, <3>1, <3>3, <1>b
    <3> QED BY <3>1, <3>2, <3>3
  <2> QED BY <2>2, <2>3
<1>3. CASE Factor!Consume(z)
  <2>1. /\ chal[work[z].chal].state = "claimed" /\ chal'[work[z].chal].state = "gone"
        /\ \A y \in Work : y # z => work'[y] = work[y]
        /\ sessions' = sessions
    BY <1>3, <1>b
  <2>2. ASSUME NEW v \in Work, v # z, work'[v].pc = "issue" \/ v \in sessions',
               work'[v].kind = "login"
        PROVE  work'[v].chal # work'[z].chal
    <3>1. work'[v] = work[v] /\ chal[work[v].chal].state = "gone"
      BY <2>1, <2>2, <1>a DEF ChallengeHeld
    <3> QED BY <1>1, <2>1, <3>1
  <2> QED BY <1>1, <2>1, <2>2
<1> QED BY <1>1, <1>2, <1>3

LEMMA ChallengesHeldStep ==
  ASSUME NEW z, Factor!FactorAssumption, FInv, [Factor!Next]_Factor!vars, z \in Work
  PROVE  ChallengeHeld(z)'
<1>1. CASE work'[z].kind = "login"
  BY <1>1, HeldStep, DropStep, IssueStep DEF ChallengeHeld
<1> QED BY <1>1 DEF ChallengeHeld

LEMMA SessionsOfLoginsStep ==
  ASSUME Factor!FactorAssumption, FInv, [Factor!Next]_Factor!vars
  PROVE  SessionsOfLogins'
<1>a. work \in [Work -> AnswerRow] /\ sessions \subseteq Work
  BY DEF FInv, FTyped
<1>b. \A v \in sessions : v \in Work /\ work[v].kind = "login" /\ work[v].pc = "done"
  BY <1>a DEF FInv, SessionsOfLogins
<1>c. \A v \in sessions : work'[v] = work[v]
  BY <1>b, FinishedStays DEF Finished
<1>0. CASE UNCHANGED Factor!vars
  BY <1>0, <1>b, <1>c DEF Factor!vars, SessionsOfLogins
<1> DEFINE Goal == SessionsOfLogins'
<1>1. ASSUME NEW w \in Work, Factor!Load(w)
      PROVE  Goal
  BY <1>1, <1>b, <1>c DEF Factor!Load, Factor!Goto, Factor!ghosts, SessionsOfLogins
<1>2. ASSUME NEW w \in Work, Factor!Drop(w)
      PROVE  Goal
  BY <1>2, <1>b, <1>c DEF Factor!Drop, Factor!Goto, Factor!ghosts, SessionsOfLogins
<1>3. ASSUME NEW w \in Work, Factor!Reserve(w)
      PROVE  Goal
  BY <1>3, <1>b, <1>c DEF Factor!Reserve, Factor!Goto, Factor!ghosts, SessionsOfLogins
<1>4. ASSUME NEW w \in Work, Factor!Wrong(w)
      PROVE  Goal
  BY <1>4, <1>b, <1>c DEF Factor!Wrong, Factor!Goto, Factor!ghosts, SessionsOfLogins
<1>5. ASSUME NEW w \in Work, Factor!ClearFailedAttempts(w)
      PROVE  Goal
  BY <1>5, <1>b, <1>c DEF Factor!ClearFailedAttempts, Factor!Goto, Factor!ghosts,
      SessionsOfLogins
<1>6. ASSUME NEW w \in Work, Factor!RegisterFailure(w)
      PROVE  Goal
  BY <1>6, <1>b, <1>c DEF Factor!RegisterFailure, Factor!Goto, Factor!ghosts,
      SessionsOfLogins
<1>7. ASSUME NEW w \in Work, Factor!Consume(w)
      PROVE  Goal
  BY <1>7, <1>b, <1>c DEF Factor!Consume, Factor!Goto, Factor!ghosts, SessionsOfLogins
<1>8. ASSUME NEW w \in Work, Factor!IssueSession(w)
      PROVE  Goal
  <2>1. work[w].kind = "login" /\ work[w] \in AnswerRow
    BY <1>8, <1>a, LoginAt DEF Factor!IssueSession
  <2>2. work'[w].kind = "login" /\ work'[w].pc = "done"
    BY <1>8, <2>1, <1>a DEF Factor!IssueSession, Factor!Goto, AnswerRow
  <2>3. sessions' = sessions \cup {w}
    BY <1>8 DEF Factor!IssueSession
  <2> QED BY <2>2, <2>3, <1>b, <1>c DEF SessionsOfLogins
<1>9. ASSUME NEW w \in Work, Factor!SavePendingSecret(w)
      PROVE  Goal
  BY <1>9, <1>b, <1>c DEF Factor!SavePendingSecret, Factor!Goto, Factor!ghosts,
      SessionsOfLogins
<1>10. ASSUME NEW w \in Work, Factor!SaveConfirmation(w)
      PROVE  Goal
  BY <1>10, <1>b, <1>c DEF Factor!SaveConfirmation, Factor!Goto, Factor!ghosts,
      SessionsOfLogins
<1>11. ASSUME NEW w \in Work, Factor!DeleteCodes(w)
      PROVE  Goal
  BY <1>11, <1>b, <1>c DEF Factor!DeleteCodes, Factor!Goto, Factor!ghosts,
      SessionsOfLogins
<1>12. ASSUME NEW w \in Work, Factor!ReplaceCodes(w)
      PROVE  Goal
  BY <1>12, <1>b, <1>c DEF Factor!ReplaceCodes, Factor!Goto, Factor!ghosts,
      SessionsOfLogins
<1>13. ASSUME NEW w \in Work, Factor!Clear(w)
      PROVE  Goal
  BY <1>13, <1>b, <1>c DEF Factor!Clear, Factor!Goto, Factor!ghosts, SessionsOfLogins
<1>14. ASSUME NEW w \in Work, Factor!Stop(w)
      PROVE  Goal
  BY <1>14, <1>b, <1>c DEF Factor!Stop, Factor!Goto, Factor!ghosts, SessionsOfLogins
<1>15. ASSUME NEW w \in Work, NEW c \in Challenge, Factor!Claim(w, c)
      PROVE  Goal
  BY <1>15, <1>b, <1>c DEF Factor!Claim, Factor!ghosts, SessionsOfLogins
<1>16. ASSUME NEW w \in Work, NEW kind \in Kind, Factor!Ask(w, kind)
      PROVE  Goal
  BY <1>16, <1>b, <1>c DEF Factor!Ask, Factor!ghosts, SessionsOfLogins
<1>17. ASSUME NEW w \in Work, NEW secret \in 1..secrets, NEW d \in Steps,
             Factor!SpendCode(w, secret, now + d)
      PROVE  Goal
  BY <1>17, <1>b, <1>c DEF Factor!SpendCode, Factor!Accept, Factor!Goto, Factor!ghosts,
      SessionsOfLogins
<1>18. ASSUME NEW w \in Work, NEW code \in work[w].codes, Factor!SpendRecovery(w, code)
      PROVE  Goal
  BY <1>18, <1>b, <1>c DEF Factor!SpendRecovery, Factor!Accept, Factor!Goto,
      Factor!ghosts, SessionsOfLogins
<1>19. ASSUME Factor!Tick
      PROVE  Goal
  BY <1>19, <1>b, <1>c DEF Factor!Tick, Factor!ghosts, SessionsOfLogins
<1> QED
  BY <1>0, <1>1, <1>2, <1>3, <1>4, <1>5, <1>6, <1>7, <1>8, <1>9, <1>10, <1>11, <1>12,
      <1>13, <1>14, <1>15, <1>16, <1>17, <1>18, <1>19 DEF Factor!Next

LEMMA SpendCodeDoes ==
  ASSUME NEW w \in Work, NEW secret \in 1..secrets, NEW d \in Steps,
         Factor!FactorAssumption, FInv,
         Factor!SpendCode(w, secret, now + d)
  PROVE  /\ work[w].pc = "check" /\ sessions' = sessions /\ right' = right
         /\ checked' = checked /\ since' = since /\ stale' = stale /\ now' = now
         /\ \A z \in Work : z # w => work'[z] = work[z]
         /\ work'[w].kind = work[w].kind /\ work'[w].read = work[w].read
         /\ work'[w].right = work[w].right
         /\ [secret |-> secret, step |-> now + d] \in TotpAnswer
         /\ [by |-> w, answer |-> [secret |-> secret, step |-> now + d]] \in AcceptedRow
         /\ \/ /\ work'[w].pc = "failed" /\ accepted' = accepted
               /\ row' = row /\ codes' = codes
            \/ /\ work'[w].pc = "clear"
               /\ accepted' = accepted \cup {[by |-> w, answer |-> [secret |-> secret,
                    step |-> now + d]]}
               /\ secret = work[w].read.secret
               /\ (work[w].read.last = None \/ now + d > work[w].read.last)
               /\ row # Factor!NoRow /\ row.last = work[w].read.last
               /\ row' = [row EXCEPT !.last = now + d] /\ codes' = codes
<1>a. /\ work \in [Work -> AnswerRow] /\ now \in 0..MaxTime /\ secrets \in Nat
      /\ work[w] \in AnswerRow
  BY DEF FInv, FTyped
<1> DEFINE ans == [secret |-> secret, step |-> now + d]
<1>1. /\ work[w].pc = "check" /\ sessions' = sessions /\ right' = right
      /\ checked' = checked /\ since' = since /\ stale' = stale /\ now' = now
      /\ \/ /\ work' = [work EXCEPT ![w].pc = "failed"] /\ accepted' = accepted
            /\ row' = row /\ codes' = codes
         \/ /\ work' = [work EXCEPT ![w].pc = "clear", ![w].answer = ans]
            /\ accepted' = accepted \cup {[by |-> w, answer |-> ans]}
            /\ secret = work[w].read.secret
            /\ (work[w].read.last = None \/ now + d > work[w].read.last)
            /\ row # Factor!NoRow /\ row.last = work[w].read.last
            /\ row' = [row EXCEPT !.last = now + d] /\ codes' = codes
  BY DEF Factor!SpendCode, Factor!Accept, Factor!Goto, Factor!ghosts, Factor!StepFree
<1>2. ans \in TotpAnswer
  BY <1>a DEF TotpAnswer, AnswerRow, Factor!FactorAssumption
<1>3. ans \in TotpAnswer \cup RecoveryAnswer
  BY <1>2
<1> HIDE DEF ans
<1>4. [by |-> w, answer |-> ans] \in AcceptedRow
  BY <1>3 DEF AcceptedRow
<1>5. /\ \A z \in Work : z # w => work'[z] = work[z]
      /\ work'[w].kind = work[w].kind /\ work'[w].read = work[w].read
      /\ work'[w].right = work[w].right
  BY <1>1, <1>a DEF AnswerRow
<1>6. \/ /\ work'[w].pc = "failed" /\ accepted' = accepted
         /\ row' = row /\ codes' = codes
      \/ /\ work'[w].pc = "clear"
         /\ accepted' = accepted \cup {[by |-> w, answer |-> ans]}
         /\ secret = work[w].read.secret
         /\ (work[w].read.last = None \/ now + d > work[w].read.last)
         /\ row # Factor!NoRow /\ row.last = work[w].read.last
         /\ row' = [row EXCEPT !.last = now + d] /\ codes' = codes
  BY <1>1, <1>a DEF AnswerRow
<1> QED BY <1>1, <1>2, <1>4, <1>5, <1>6 DEF ans

LEMMA SpendRecoveryDoes ==
  ASSUME NEW w \in Work, NEW code \in work[w].codes, Factor!FactorAssumption, FInv,
         Factor!SpendRecovery(w, code)
  PROVE  /\ work[w].pc = "check" /\ sessions' = sessions /\ right' = right
         /\ checked' = checked /\ since' = since /\ stale' = stale /\ now' = now
         /\ \A z \in Work : z # w => work'[z] = work[z]
         /\ work'[w].kind = work[w].kind /\ work'[w].read = work[w].read
         /\ work'[w].right = work[w].right
         /\ [recovery |-> code] \in RecoveryAnswer
         /\ [by |-> w, answer |-> [recovery |-> code]] \in AcceptedRow
         /\ \/ /\ work'[w].pc = "failed" /\ accepted' = accepted
               /\ row' = row /\ codes' = codes
            \/ /\ work'[w].pc = "clear"
               /\ accepted' = accepted \cup {[by |-> w, answer |-> [recovery |-> code]]}
               /\ work[w].kind \in {"login", "disable"}
               /\ code \in codes /\ codes' = codes \ {code} /\ row' = row
<1>a. /\ work \in [Work -> AnswerRow] /\ now \in 0..MaxTime /\ secrets \in Nat
      /\ work[w] \in AnswerRow
  BY DEF FInv, FTyped
<1> DEFINE ans == [recovery |-> code]
<1>1. /\ work[w].pc = "check" /\ sessions' = sessions /\ right' = right
      /\ checked' = checked /\ since' = since /\ stale' = stale /\ now' = now
      /\ \/ /\ work' = [work EXCEPT ![w].pc = "failed"] /\ accepted' = accepted
            /\ row' = row /\ codes' = codes
         \/ /\ work' = [work EXCEPT ![w].pc = "clear", ![w].answer = ans]
            /\ accepted' = accepted \cup {[by |-> w, answer |-> ans]}
            /\ work[w].kind \in {"login", "disable"}
            /\ code \in codes /\ codes' = codes \ {code} /\ row' = row
  BY DEF Factor!SpendRecovery, Factor!Accept, Factor!Goto, Factor!ghosts
<1>2. ans \in RecoveryAnswer
  BY <1>a DEF RecoveryAnswer, AnswerRow, Factor!FactorAssumption
<1>3. ans \in TotpAnswer \cup RecoveryAnswer
  BY <1>2
<1> HIDE DEF ans
<1>4. [by |-> w, answer |-> ans] \in AcceptedRow
  BY <1>3 DEF AcceptedRow
<1>5. /\ \A z \in Work : z # w => work'[z] = work[z]
      /\ work'[w].kind = work[w].kind /\ work'[w].read = work[w].read
      /\ work'[w].right = work[w].right
  BY <1>1, <1>a DEF AnswerRow
<1>6. \/ /\ work'[w].pc = "failed" /\ accepted' = accepted
         /\ row' = row /\ codes' = codes
      \/ /\ work'[w].pc = "clear"
         /\ accepted' = accepted \cup {[by |-> w, answer |-> ans]}
         /\ work[w].kind \in {"login", "disable"}
         /\ code \in codes /\ codes' = codes \ {code} /\ row' = row
  BY <1>1, <1>a DEF AnswerRow
<1> QED BY <1>1, <1>2, <1>4, <1>5, <1>6 DEF ans

LEMMA TakenStep ==
  ASSUME NEW z, Factor!FactorAssumption, FInv, [Factor!Next]_Factor!vars, z \in Work,
         work'[z].pc \in {"clear", "consume", "issue"} \/ z \in sessions'
  PROVE  AcceptedFor(z)'
<1>a. work \in [Work -> AnswerRow] /\ KindSound(z)
  BY DEF FInv, FTyped, KindsSound
<1>b. work[z] \in AnswerRow
  BY <1>a
<1>c. AnswerTaken(z) /\ accepted \subseteq accepted'
  BY AcceptedGrows DEF FInv, AnswersTaken
<1>d. z \in sessions => work[z].pc = "done"
  BY DEF FInv, SessionsOfLogins
<1>0. CASE UNCHANGED Factor!vars
  BY <1>0, <1>a, <1>c DEF Factor!vars, AnswerTaken, AcceptedFor
<1> DEFINE Goal == AcceptedFor(z)'
<1>1. ASSUME NEW w \in Work, Factor!Load(w)
      PROVE  Goal
  <2>1. CASE z # w
    <3>1. work'[z] = work[z] /\ (z \in sessions' => z \in sessions)
      BY <1>1, <2>1, <1>a DEF Factor!Load, Factor!Goto, Factor!ghosts
    <3> QED BY <3>1, <1>c DEF AnswerTaken, AcceptedFor
  <2>2. CASE z = w
    <3>1. /\ \E p \in {"save", "reserve", "drop", "refused"} : work'[z].pc = p
          /\ work[z].pc = "load" /\ sessions' = sessions
      BY <1>1, <2>2, <1>a, <1>b DEF AnswerRow, Factor!Load, Factor!Goto, Factor!ghosts
    <3> QED BY <3>1, <1>c, <1>d DEF AnswerTaken, AcceptedFor
  <2> QED BY <2>1, <2>2
<1>2. ASSUME NEW w \in Work, Factor!Drop(w)
      PROVE  Goal
  <2>1. CASE z # w
    <3>1. work'[z] = work[z] /\ (z \in sessions' => z \in sessions)
      BY <1>2, <2>1, <1>a DEF Factor!Drop, Factor!Goto, Factor!ghosts
    <3> QED BY <3>1, <1>c DEF AnswerTaken, AcceptedFor
  <2>2. CASE z = w
    <3>1. /\ \E p \in {"refused"} : work'[z].pc = p
          /\ work[z].pc = "drop" /\ sessions' = sessions
      BY <1>2, <2>2, <1>a, <1>b DEF AnswerRow, Factor!Drop, Factor!Goto, Factor!ghosts
    <3> QED BY <3>1, <1>c, <1>d DEF AnswerTaken, AcceptedFor
  <2> QED BY <2>1, <2>2
<1>3. ASSUME NEW w \in Work, Factor!Reserve(w)
      PROVE  Goal
  <2>1. CASE z # w
    <3>1. work'[z] = work[z] /\ (z \in sessions' => z \in sessions)
      BY <1>3, <2>1, <1>a DEF Factor!Reserve, Factor!Goto, Factor!ghosts
    <3> QED BY <3>1, <1>c DEF AnswerTaken, AcceptedFor
  <2>2. CASE z = w
    <3>1. /\ \E p \in {"failed", "check"} : work'[z].pc = p
          /\ work[z].pc = "reserve" /\ sessions' = sessions
      BY <1>3, <2>2, <1>a, <1>b
         DEF AnswerRow, Factor!Reserve, Factor!Goto, Factor!ghosts
    <3> QED BY <3>1, <1>c, <1>d DEF AnswerTaken, AcceptedFor
  <2> QED BY <2>1, <2>2
<1>4. ASSUME NEW w \in Work, Factor!Wrong(w)
      PROVE  Goal
  <2>1. CASE z # w
    <3>1. work'[z] = work[z] /\ (z \in sessions' => z \in sessions)
      BY <1>4, <2>1, <1>a DEF Factor!Wrong, Factor!Goto, Factor!ghosts
    <3> QED BY <3>1, <1>c DEF AnswerTaken, AcceptedFor
  <2>2. CASE z = w
    <3>1. /\ \E p \in {"failed"} : work'[z].pc = p
          /\ work[z].pc = "check" /\ sessions' = sessions
      BY <1>4, <2>2, <1>a, <1>b DEF AnswerRow, Factor!Wrong, Factor!Goto, Factor!ghosts
    <3> QED BY <3>1, <1>c, <1>d DEF AnswerTaken, AcceptedFor
  <2> QED BY <2>1, <2>2
<1>5. ASSUME NEW w \in Work, Factor!ClearFailedAttempts(w)
      PROVE  Goal
  <2>1. CASE z # w
    <3>1. work'[z] = work[z] /\ (z \in sessions' => z \in sessions)
      BY <1>5, <2>1, <1>a DEF Factor!ClearFailedAttempts, Factor!Goto, Factor!ghosts
    <3> QED BY <3>1, <1>c DEF AnswerTaken, AcceptedFor
  <2>2. CASE z = w
    <3>1. /\ \E p \in {"consume", "save", "delete"} : work'[z].pc = p
          /\ work[z].pc = "clear" /\ sessions' = sessions
      BY <1>5, <2>2, <1>a, <1>b
         DEF AnswerRow, Factor!ClearFailedAttempts, Factor!Goto, Factor!ghosts
    <3> QED BY <3>1, <1>c, <1>d DEF AnswerTaken, AcceptedFor
  <2> QED BY <2>1, <2>2
<1>6. ASSUME NEW w \in Work, Factor!RegisterFailure(w)
      PROVE  Goal
  <2>1. CASE z # w
    <3>1. work'[z] = work[z] /\ (z \in sessions' => z \in sessions)
      BY <1>6, <2>1, <1>a DEF Factor!RegisterFailure, Factor!Goto, Factor!ghosts
    <3> QED BY <3>1, <1>c DEF AnswerTaken, AcceptedFor
  <2>2. CASE z = w
    <3>1. /\ \E p \in {"drop", "refused"} : work'[z].pc = p
          /\ work[z].pc = "failed" /\ sessions' = sessions
      BY <1>6, <2>2, <1>a, <1>b
         DEF AnswerRow, Factor!RegisterFailure, Factor!Goto, Factor!ghosts
    <3> QED BY <3>1, <1>c, <1>d DEF AnswerTaken, AcceptedFor
  <2> QED BY <2>1, <2>2
<1>7. ASSUME NEW w \in Work, Factor!Consume(w)
      PROVE  Goal
  <2>1. CASE z # w
    <3>1. work'[z] = work[z] /\ (z \in sessions' => z \in sessions)
      BY <1>7, <2>1, <1>a DEF Factor!Consume, Factor!Goto, Factor!ghosts
    <3> QED BY <3>1, <1>c DEF AnswerTaken, AcceptedFor
  <2>2. CASE z = w
    <3>1. /\ \E p \in {"issue"} : work'[z].pc = p
          /\ work[z].pc = "consume" /\ sessions' = sessions
      BY <1>7, <2>2, <1>a, <1>b
         DEF AnswerRow, Factor!Consume, Factor!Goto, Factor!ghosts
    <3> QED BY <3>1, <1>c, <1>d DEF AnswerTaken, AcceptedFor
  <2> QED BY <2>1, <2>2
<1>8. ASSUME NEW w \in Work, Factor!IssueSession(w)
      PROVE  Goal
  <2>1. CASE z # w
    <3>1. work'[z] = work[z] /\ (z \in sessions' => z \in sessions)
      BY <1>8, <2>1, <1>a DEF Factor!IssueSession, Factor!Goto, Factor!ghosts
    <3> QED BY <3>1, <1>c DEF AnswerTaken, AcceptedFor
  <2>2. CASE z = w
    <3>1. /\ \E p \in {"done"} : work'[z].pc = p
          /\ work[z].pc = "issue" /\ TRUE
      BY <1>8, <2>2, <1>a, <1>b
         DEF AnswerRow, Factor!IssueSession, Factor!Goto, Factor!ghosts
    <3> QED BY <3>1, <1>c, <1>d DEF AnswerTaken, AcceptedFor
  <2> QED BY <2>1, <2>2
<1>9. ASSUME NEW w \in Work, Factor!SavePendingSecret(w)
      PROVE  Goal
  <2>1. CASE z # w
    <3>1. work'[z] = work[z] /\ (z \in sessions' => z \in sessions)
      BY <1>9, <2>1, <1>a DEF Factor!SavePendingSecret, Factor!Goto, Factor!ghosts
    <3> QED BY <3>1, <1>c DEF AnswerTaken, AcceptedFor
  <2>2. CASE z = w
    <3>1. /\ \E p \in {"done"} : work'[z].pc = p
          /\ work[z].pc = "save" /\ sessions' = sessions
      BY <1>9, <2>2, <1>a, <1>b
         DEF AnswerRow, Factor!SavePendingSecret, Factor!Goto, Factor!ghosts
    <3> QED BY <3>1, <1>c, <1>d DEF AnswerTaken, AcceptedFor
  <2> QED BY <2>1, <2>2
<1>10. ASSUME NEW w \in Work, Factor!SaveConfirmation(w)
      PROVE  Goal
  <2>1. CASE z # w
    <3>1. work'[z] = work[z] /\ (z \in sessions' => z \in sessions)
      BY <1>10, <2>1, <1>a DEF Factor!SaveConfirmation, Factor!Goto, Factor!ghosts
    <3> QED BY <3>1, <1>c DEF AnswerTaken, AcceptedFor
  <2>2. CASE z = w
    <3>1. /\ \E p \in {"done", "refused"} : work'[z].pc = p
          /\ work[z].pc = "save" /\ sessions' = sessions
      BY <1>10, <2>2, <1>a, <1>b
         DEF AnswerRow, Factor!SaveConfirmation, Factor!Goto, Factor!ghosts
    <3> QED BY <3>1, <1>c, <1>d DEF AnswerTaken, AcceptedFor
  <2> QED BY <2>1, <2>2
<1>11. ASSUME NEW w \in Work, Factor!DeleteCodes(w)
      PROVE  Goal
  <2>1. CASE z # w
    <3>1. work'[z] = work[z] /\ (z \in sessions' => z \in sessions)
      BY <1>11, <2>1, <1>a DEF Factor!DeleteCodes, Factor!Goto, Factor!ghosts
    <3> QED BY <3>1, <1>c DEF AnswerTaken, AcceptedFor
  <2>2. CASE z = w
    <3>1. /\ \E p \in {"write"} : work'[z].pc = p
          /\ work[z].pc = "delete" /\ sessions' = sessions
      BY <1>11, <2>2, <1>a, <1>b
         DEF AnswerRow, Factor!DeleteCodes, Factor!Goto, Factor!ghosts
    <3> QED BY <3>1, <1>c, <1>d DEF AnswerTaken, AcceptedFor
  <2> QED BY <2>1, <2>2
<1>12. ASSUME NEW w \in Work, Factor!ReplaceCodes(w)
      PROVE  Goal
  <2>1. CASE z # w
    <3>1. work'[z] = work[z] /\ (z \in sessions' => z \in sessions)
      BY <1>12, <2>1, <1>a DEF Factor!ReplaceCodes, Factor!Goto, Factor!ghosts
    <3> QED BY <3>1, <1>c DEF AnswerTaken, AcceptedFor
  <2>2. CASE z = w
    <3>1. /\ \E p \in {"done"} : work'[z].pc = p
          /\ work[z].pc = "write" /\ sessions' = sessions
      BY <1>12, <2>2, <1>a, <1>b
         DEF AnswerRow, Factor!ReplaceCodes, Factor!Goto, Factor!ghosts
    <3> QED BY <3>1, <1>c, <1>d DEF AnswerTaken, AcceptedFor
  <2> QED BY <2>1, <2>2
<1>13. ASSUME NEW w \in Work, Factor!Clear(w)
      PROVE  Goal
  <2>1. CASE z # w
    <3>1. work'[z] = work[z] /\ (z \in sessions' => z \in sessions)
      BY <1>13, <2>1, <1>a DEF Factor!Clear, Factor!Goto, Factor!ghosts
    <3> QED BY <3>1, <1>c DEF AnswerTaken, AcceptedFor
  <2>2. CASE z = w
    <3>1. /\ \E p \in {"done"} : work'[z].pc = p
          /\ work[z].pc = "write" /\ sessions' = sessions
      BY <1>13, <2>2, <1>a, <1>b DEF AnswerRow, Factor!Clear, Factor!Goto, Factor!ghosts
    <3> QED BY <3>1, <1>c, <1>d DEF AnswerTaken, AcceptedFor
  <2> QED BY <2>1, <2>2
<1>14. ASSUME NEW w \in Work, Factor!Stop(w)
      PROVE  Goal
  <2>1. CASE z # w
    <3>1. work'[z] = work[z] /\ sessions' = sessions
      BY <1>14, <2>1, <1>a DEF Factor!Stop, Factor!Goto, Factor!ghosts
    <3> QED BY <3>1, <1>c DEF AnswerTaken, AcceptedFor
  <2>2. CASE z = w
    <3>1. work'[z].pc = "stopped" /\ sessions' = sessions /\ work[z].pc # "done"
      BY <1>14, <2>2, <1>a, <1>b DEF AnswerRow, Factor!Stop, Factor!Goto, Factor!ghosts
    <3> QED BY <3>1, <1>c, <1>d
  <2> QED BY <2>1, <2>2
<1>15. ASSUME NEW w \in Work, NEW c \in Challenge, Factor!Claim(w, c)
      PROVE  Goal
  <2>1. CASE z # w
    <3>1. work'[z] = work[z] /\ (z \in sessions' => z \in sessions)
      BY <1>15, <2>1, <1>a DEF Factor!Claim, Factor!Goto, Factor!ghosts
    <3> QED BY <3>1, <1>c DEF AnswerTaken, AcceptedFor
  <2>2. CASE z = w
    <3>1. /\ \E p \in {"load"} : work'[z].pc = p
          /\ work[z].pc = "idle" /\ sessions' = sessions
      BY <1>15, <2>2, <1>a, <1>b DEF AnswerRow, Factor!Claim, Factor!Goto, Factor!ghosts
    <3> QED BY <3>1, <1>c, <1>d DEF AnswerTaken, AcceptedFor
  <2> QED BY <2>1, <2>2
<1>16. ASSUME NEW w \in Work, NEW kind \in Kind, Factor!Ask(w, kind)
      PROVE  Goal
  <2>1. CASE z # w
    <3>1. work'[z] = work[z] /\ (z \in sessions' => z \in sessions)
      BY <1>16, <2>1, <1>a DEF Factor!Ask, Factor!Goto, Factor!ghosts
    <3> QED BY <3>1, <1>c DEF AnswerTaken, AcceptedFor
  <2>2. CASE z = w
    <3>1. /\ \E p \in {"load"} : work'[z].pc = p
          /\ work[z].pc = "idle" /\ sessions' = sessions
      BY <1>16, <2>2, <1>a, <1>b DEF AnswerRow, Factor!Ask, Factor!Goto, Factor!ghosts
    <3> QED BY <3>1, <1>c, <1>d DEF AnswerTaken, AcceptedFor
  <2> QED BY <2>1, <2>2
<1>17. ASSUME NEW w \in Work, NEW secret \in 1..secrets, NEW d \in Steps,
             Factor!SpendCode(w, secret, now + d)
      PROVE  Goal
  <2>1. CASE z # w
    BY <1>17, <2>1, SpendCodeDoes, <1>c DEF AnswerTaken, AcceptedFor
  <2>2. CASE z = w
    <3> DEFINE a == [by |-> w, answer |-> [secret |-> secret, step |-> now + d]]
    <3>1. /\ sessions' = sessions /\ work[z].pc = "check"
          /\ work'[z].pc = "failed" \/ (work'[z].pc = "clear" /\ a \in accepted')
      BY <1>17, <2>2, SpendCodeDoes
    <3>2. a.by = z
      BY <2>2
    <3> HIDE DEF a
    <3> QED BY <3>1, <3>2, <1>d DEF AcceptedFor
  <2> QED BY <2>1, <2>2
<1>18. ASSUME NEW w \in Work, NEW code \in work[w].codes, Factor!SpendRecovery(w, code)
      PROVE  Goal
  <2>1. CASE z # w
    BY <1>18, <2>1, SpendRecoveryDoes, <1>c DEF AnswerTaken, AcceptedFor
  <2>2. CASE z = w
    <3> DEFINE a == [by |-> w, answer |-> [recovery |-> code]]
    <3>1. /\ sessions' = sessions /\ work[z].pc = "check"
          /\ work'[z].pc = "failed" \/ (work'[z].pc = "clear" /\ a \in accepted')
      BY <1>18, <2>2, SpendRecoveryDoes
    <3>2. a.by = z
      BY <2>2
    <3> HIDE DEF a
    <3> QED BY <3>1, <3>2, <1>d DEF AcceptedFor
  <2> QED BY <2>1, <2>2
<1>19. ASSUME Factor!Tick
      PROVE  Goal
  BY <1>19, <1>a, <1>c DEF Factor!Tick, Factor!ghosts, AnswerTaken, AcceptedFor
<1> QED
  BY <1>0, <1>1, <1>2, <1>3, <1>4, <1>5, <1>6, <1>7, <1>8, <1>9, <1>10, <1>11, <1>12,
      <1>13, <1>14, <1>15, <1>16, <1>17, <1>18, <1>19 DEF Factor!Next

LEMMA TakenOfItsSecretStep ==
  ASSUME NEW z, Factor!FactorAssumption, FInv, [Factor!Next]_Factor!vars, z \in Work,
         work'[z].kind = "confirm", work'[z].pc \in {"clear", "save"}
  PROVE  AcceptedOf(z, work[z].read.secret)'
<1>a. work \in [Work -> AnswerRow] /\ KindSound(z)
  BY DEF FInv, FTyped, KindsSound
<1>b. work[z] \in AnswerRow
  BY <1>a
<1>c. AnswerTaken(z) /\ accepted \subseteq accepted'
  BY AcceptedGrows DEF FInv, AnswersTaken
<1>0. CASE UNCHANGED Factor!vars
  BY <1>0, <1>a, <1>c DEF Factor!vars, AnswerTaken, AcceptedOf
<1> DEFINE Goal == AcceptedOf(z, work[z].read.secret)'
<1>1. ASSUME NEW w \in Work, Factor!Load(w)
      PROVE  Goal
  <2>1. CASE z # w
    <3>1. work'[z] = work[z]
      BY <1>1, <2>1, <1>a DEF Factor!Load
    <3> QED BY <3>1, <1>c DEF AnswerTaken, AcceptedOf
  <2>2. CASE z = w
    <3>1. /\ work'[z].kind = work[z].kind /\ work'[z].pc # "clear"
          /\ work'[z].pc = "save" => work[z].kind = "setup"
      BY <1>1, <2>2, <1>a, <1>b DEF AnswerRow, Factor!Load
    <3> QED BY <3>1
  <2> QED BY <2>1, <2>2
<1>2. ASSUME NEW w \in Work, Factor!Drop(w)
      PROVE  Goal
  <2>1. CASE z # w
    <3>1. work'[z] = work[z]
      BY <1>2, <2>1, <1>a DEF Factor!Drop, Factor!Goto
    <3> QED BY <3>1, <1>c DEF AnswerTaken, AcceptedOf
  <2>2. CASE z = w
    <3>1. /\ \E p \in {"refused"} : work'[z].pc = p
          /\ work[z].pc = "drop" /\ work'[z].kind = work[z].kind
          /\ work'[z].read = work[z].read
      BY <1>2, <2>2, <1>a, <1>b DEF AnswerRow, Factor!Drop, Factor!Goto
    <3> QED BY <3>1, <1>c DEF AnswerTaken, AcceptedOf
  <2> QED BY <2>1, <2>2
<1>3. ASSUME NEW w \in Work, Factor!Reserve(w)
      PROVE  Goal
  <2>1. CASE z # w
    <3>1. work'[z] = work[z]
      BY <1>3, <2>1, <1>a DEF Factor!Reserve, Factor!Goto
    <3> QED BY <3>1, <1>c DEF AnswerTaken, AcceptedOf
  <2>2. CASE z = w
    <3>1. /\ \E p \in {"failed", "check"} : work'[z].pc = p
          /\ work[z].pc = "reserve" /\ work'[z].kind = work[z].kind
          /\ work'[z].read = work[z].read
      BY <1>3, <2>2, <1>a, <1>b DEF AnswerRow, Factor!Reserve, Factor!Goto
    <3> QED BY <3>1, <1>c DEF AnswerTaken, AcceptedOf
  <2> QED BY <2>1, <2>2
<1>4. ASSUME NEW w \in Work, Factor!Wrong(w)
      PROVE  Goal
  <2>1. CASE z # w
    <3>1. work'[z] = work[z]
      BY <1>4, <2>1, <1>a DEF Factor!Wrong, Factor!Goto
    <3> QED BY <3>1, <1>c DEF AnswerTaken, AcceptedOf
  <2>2. CASE z = w
    <3>1. /\ \E p \in {"failed"} : work'[z].pc = p
          /\ work[z].pc = "check" /\ work'[z].kind = work[z].kind
          /\ work'[z].read = work[z].read
      BY <1>4, <2>2, <1>a, <1>b DEF AnswerRow, Factor!Wrong, Factor!Goto
    <3> QED BY <3>1, <1>c DEF AnswerTaken, AcceptedOf
  <2> QED BY <2>1, <2>2
<1>5. ASSUME NEW w \in Work, Factor!ClearFailedAttempts(w)
      PROVE  Goal
  <2>1. CASE z # w
    <3>1. work'[z] = work[z]
      BY <1>5, <2>1, <1>a DEF Factor!ClearFailedAttempts, Factor!Goto
    <3> QED BY <3>1, <1>c DEF AnswerTaken, AcceptedOf
  <2>2. CASE z = w
    <3>1. /\ \E p \in {"consume", "save", "delete"} : work'[z].pc = p
          /\ work[z].pc = "clear" /\ work'[z].kind = work[z].kind
          /\ work'[z].read = work[z].read
      BY <1>5, <2>2, <1>a, <1>b DEF AnswerRow, Factor!ClearFailedAttempts, Factor!Goto
    <3> QED BY <3>1, <1>c DEF AnswerTaken, AcceptedOf
  <2> QED BY <2>1, <2>2
<1>6. ASSUME NEW w \in Work, Factor!RegisterFailure(w)
      PROVE  Goal
  <2>1. CASE z # w
    <3>1. work'[z] = work[z]
      BY <1>6, <2>1, <1>a DEF Factor!RegisterFailure, Factor!Goto
    <3> QED BY <3>1, <1>c DEF AnswerTaken, AcceptedOf
  <2>2. CASE z = w
    <3>1. /\ \E p \in {"drop", "refused"} : work'[z].pc = p
          /\ work[z].pc = "failed" /\ work'[z].kind = work[z].kind
          /\ work'[z].read = work[z].read
      BY <1>6, <2>2, <1>a, <1>b DEF AnswerRow, Factor!RegisterFailure, Factor!Goto
    <3> QED BY <3>1, <1>c DEF AnswerTaken, AcceptedOf
  <2> QED BY <2>1, <2>2
<1>7. ASSUME NEW w \in Work, Factor!Consume(w)
      PROVE  Goal
  <2>1. CASE z # w
    <3>1. work'[z] = work[z]
      BY <1>7, <2>1, <1>a DEF Factor!Consume, Factor!Goto
    <3> QED BY <3>1, <1>c DEF AnswerTaken, AcceptedOf
  <2>2. CASE z = w
    <3>1. /\ \E p \in {"issue"} : work'[z].pc = p
          /\ work[z].pc = "consume" /\ work'[z].kind = work[z].kind
          /\ work'[z].read = work[z].read
      BY <1>7, <2>2, <1>a, <1>b DEF AnswerRow, Factor!Consume, Factor!Goto
    <3> QED BY <3>1, <1>c DEF AnswerTaken, AcceptedOf
  <2> QED BY <2>1, <2>2
<1>8. ASSUME NEW w \in Work, Factor!IssueSession(w)
      PROVE  Goal
  <2>1. CASE z # w
    <3>1. work'[z] = work[z]
      BY <1>8, <2>1, <1>a DEF Factor!IssueSession, Factor!Goto
    <3> QED BY <3>1, <1>c DEF AnswerTaken, AcceptedOf
  <2>2. CASE z = w
    <3>1. /\ \E p \in {"done"} : work'[z].pc = p
          /\ work[z].pc = "issue" /\ work'[z].kind = work[z].kind
          /\ work'[z].read = work[z].read
      BY <1>8, <2>2, <1>a, <1>b DEF AnswerRow, Factor!IssueSession, Factor!Goto
    <3> QED BY <3>1, <1>c DEF AnswerTaken, AcceptedOf
  <2> QED BY <2>1, <2>2
<1>9. ASSUME NEW w \in Work, Factor!SavePendingSecret(w)
      PROVE  Goal
  <2>1. CASE z # w
    <3>1. work'[z] = work[z]
      BY <1>9, <2>1, <1>a DEF Factor!SavePendingSecret, Factor!Goto
    <3> QED BY <3>1, <1>c DEF AnswerTaken, AcceptedOf
  <2>2. CASE z = w
    <3>1. /\ \E p \in {"done"} : work'[z].pc = p
          /\ work[z].pc = "save" /\ work'[z].kind = work[z].kind
          /\ work'[z].read = work[z].read
      BY <1>9, <2>2, <1>a, <1>b DEF AnswerRow, Factor!SavePendingSecret, Factor!Goto
    <3> QED BY <3>1, <1>c DEF AnswerTaken, AcceptedOf
  <2> QED BY <2>1, <2>2
<1>10. ASSUME NEW w \in Work, Factor!SaveConfirmation(w)
      PROVE  Goal
  <2>1. CASE z # w
    <3>1. work'[z] = work[z]
      BY <1>10, <2>1, <1>a DEF Factor!SaveConfirmation, Factor!Goto
    <3> QED BY <3>1, <1>c DEF AnswerTaken, AcceptedOf
  <2>2. CASE z = w
    <3>1. /\ \E p \in {"done", "refused"} : work'[z].pc = p
          /\ work[z].pc = "save" /\ work'[z].kind = work[z].kind
          /\ work'[z].read = work[z].read
      BY <1>10, <2>2, <1>a, <1>b DEF AnswerRow, Factor!SaveConfirmation, Factor!Goto
    <3> QED BY <3>1, <1>c DEF AnswerTaken, AcceptedOf
  <2> QED BY <2>1, <2>2
<1>11. ASSUME NEW w \in Work, Factor!DeleteCodes(w)
      PROVE  Goal
  <2>1. CASE z # w
    <3>1. work'[z] = work[z]
      BY <1>11, <2>1, <1>a DEF Factor!DeleteCodes, Factor!Goto
    <3> QED BY <3>1, <1>c DEF AnswerTaken, AcceptedOf
  <2>2. CASE z = w
    <3>1. /\ \E p \in {"write"} : work'[z].pc = p
          /\ work[z].pc = "delete" /\ work'[z].kind = work[z].kind
          /\ work'[z].read = work[z].read
      BY <1>11, <2>2, <1>a, <1>b DEF AnswerRow, Factor!DeleteCodes, Factor!Goto
    <3> QED BY <3>1, <1>c DEF AnswerTaken, AcceptedOf
  <2> QED BY <2>1, <2>2
<1>12. ASSUME NEW w \in Work, Factor!ReplaceCodes(w)
      PROVE  Goal
  <2>1. CASE z # w
    <3>1. work'[z] = work[z]
      BY <1>12, <2>1, <1>a DEF Factor!ReplaceCodes, Factor!Goto
    <3> QED BY <3>1, <1>c DEF AnswerTaken, AcceptedOf
  <2>2. CASE z = w
    <3>1. /\ \E p \in {"done"} : work'[z].pc = p
          /\ work[z].pc = "write" /\ work'[z].kind = work[z].kind
          /\ work'[z].read = work[z].read
      BY <1>12, <2>2, <1>a, <1>b DEF AnswerRow, Factor!ReplaceCodes, Factor!Goto
    <3> QED BY <3>1, <1>c DEF AnswerTaken, AcceptedOf
  <2> QED BY <2>1, <2>2
<1>13. ASSUME NEW w \in Work, Factor!Clear(w)
      PROVE  Goal
  <2>1. CASE z # w
    <3>1. work'[z] = work[z]
      BY <1>13, <2>1, <1>a DEF Factor!Clear, Factor!Goto
    <3> QED BY <3>1, <1>c DEF AnswerTaken, AcceptedOf
  <2>2. CASE z = w
    <3>1. /\ \E p \in {"done"} : work'[z].pc = p
          /\ work[z].pc = "write" /\ work'[z].kind = work[z].kind
          /\ work'[z].read = work[z].read
      BY <1>13, <2>2, <1>a, <1>b DEF AnswerRow, Factor!Clear, Factor!Goto
    <3> QED BY <3>1, <1>c DEF AnswerTaken, AcceptedOf
  <2> QED BY <2>1, <2>2
<1>14. ASSUME NEW w \in Work, Factor!Stop(w)
      PROVE  Goal
  <2>1. CASE z # w
    <3>1. work'[z] = work[z]
      BY <1>14, <2>1, <1>a DEF Factor!Stop, Factor!Goto
    <3> QED BY <3>1, <1>c DEF AnswerTaken, AcceptedOf
  <2>2. CASE z = w
    <3>1. /\ \E p \in {"stopped"} : work'[z].pc = p
          /\ work'[z].kind = work[z].kind
          /\ work'[z].read = work[z].read
      BY <1>14, <2>2, <1>a, <1>b DEF AnswerRow, Factor!Stop, Factor!Goto
    <3> QED BY <3>1, <1>c DEF AnswerTaken, AcceptedOf
  <2> QED BY <2>1, <2>2
<1>15. ASSUME NEW w \in Work, NEW c \in Challenge, Factor!Claim(w, c)
      PROVE  Goal
  <2>1. CASE z # w
    <3>1. work'[z] = work[z]
      BY <1>15, <2>1, <1>a DEF Factor!Claim
    <3> QED BY <3>1, <1>c DEF AnswerTaken, AcceptedOf
  <2>2. CASE z = w
    BY <1>15, <2>2, <1>a, <1>b DEF AnswerRow, Factor!Claim
  <2> QED BY <2>1, <2>2
<1>16. ASSUME NEW w \in Work, NEW kind \in Kind, Factor!Ask(w, kind)
      PROVE  Goal
  <2>1. CASE z # w
    <3>1. work'[z] = work[z]
      BY <1>16, <2>1, <1>a DEF Factor!Ask
    <3> QED BY <3>1, <1>c DEF AnswerTaken, AcceptedOf
  <2>2. CASE z = w
    BY <1>16, <2>2, <1>a, <1>b DEF AnswerRow, Factor!Ask
  <2> QED BY <2>1, <2>2
<1>17. ASSUME NEW w \in Work, NEW secret \in 1..secrets, NEW d \in Steps,
             Factor!SpendCode(w, secret, now + d)
      PROVE  Goal
  <2>1. CASE z # w
    BY <1>17, <2>1, SpendCodeDoes, <1>c DEF AnswerTaken, AcceptedOf
  <2>2. CASE z = w
    <3> DEFINE t == [secret |-> secret, step |-> now + d]
               a == [by |-> w, answer |-> t]
    <3>1. /\ work'[z].read = work[z].read /\ t \in TotpAnswer
          /\ \/ work'[z].pc = "failed"
             \/ /\ work'[z].pc = "clear" /\ a \in accepted'
                /\ secret = work[z].read.secret
      BY <1>17, <2>2, SpendCodeDoes
    <3>2. a.by = z /\ a.answer = t /\ t.secret = secret
      BY <2>2
    <3> HIDE DEF a, t
    <3> QED BY <3>1, <3>2 DEF AcceptedOf
  <2> QED BY <2>1, <2>2
<1>18. ASSUME NEW w \in Work, NEW code \in work[w].codes, Factor!SpendRecovery(w, code)
      PROVE  Goal
  <2>1. CASE z # w
    BY <1>18, <2>1, SpendRecoveryDoes, <1>c DEF AnswerTaken, AcceptedOf
  <2>2. CASE z = w
    <3>1. /\ work'[z].kind = work[z].kind
          /\ work'[z].pc = "failed" \/ work[z].kind \in {"login", "disable"}
      BY <1>18, <2>2, SpendRecoveryDoes
    <3> QED BY <3>1
  <2> QED BY <2>1, <2>2
<1>19. ASSUME Factor!Tick
      PROVE  Goal
  BY <1>19, <1>a, <1>c DEF Factor!Tick, Factor!ghosts, AnswerTaken, AcceptedOf
<1> QED
  BY <1>0, <1>1, <1>2, <1>3, <1>4, <1>5, <1>6, <1>7, <1>8, <1>9, <1>10, <1>11, <1>12,
      <1>13, <1>14, <1>15, <1>16, <1>17, <1>18, <1>19 DEF Factor!Next

LEMMA AnswersTakenStep ==
  ASSUME NEW z, Factor!FactorAssumption, FInv, [Factor!Next]_Factor!vars, z \in Work
  PROVE  AnswerTaken(z)'
BY TakenStep, TakenOfItsSecretStep DEF AnswerTaken

LEMMA AcceptedDoes ==
  ASSUME NEW a, Factor!FactorAssumption, FInv, [Factor!Next]_Factor!vars,
         a \in accepted', a \notin accepted
  PROVE  \E z \in Work :
           /\ work[z].pc = "check" /\ a.by = z
           /\ \/ /\ a.answer \in TotpAnswer
                 /\ row # Factor!NoRow /\ row.last = work[z].read.last
                 /\ row.last = None \/ a.answer.step > row.last
                 /\ row' = [row EXCEPT !.last = a.answer.step] /\ codes' = codes
              \/ /\ a.answer \in RecoveryAnswer /\ a.answer.recovery \in codes
                 /\ codes' = codes \ {a.answer.recovery} /\ row' = row
           /\ accepted' = accepted \cup {a} /\ work'[z].pc = "clear"
<1>0. CASE UNCHANGED Factor!vars
  BY <1>0 DEF Factor!vars
<1> DEFINE Goal ==
         \E z \in Work :
           /\ work[z].pc = "check" /\ a.by = z
           /\ \/ /\ a.answer \in TotpAnswer
                 /\ row # Factor!NoRow /\ row.last = work[z].read.last
                 /\ row.last = None \/ a.answer.step > row.last
                 /\ row' = [row EXCEPT !.last = a.answer.step] /\ codes' = codes
              \/ /\ a.answer \in RecoveryAnswer /\ a.answer.recovery \in codes
                 /\ codes' = codes \ {a.answer.recovery} /\ row' = row
           /\ accepted' = accepted \cup {a} /\ work'[z].pc = "clear"
<1>1. ASSUME NEW w \in Work, Factor!Load(w)
      PROVE  Goal
  BY <1>1 DEF Factor!Load, Factor!Goto, Factor!ghosts
<1>2. ASSUME NEW w \in Work, Factor!Drop(w)
      PROVE  Goal
  BY <1>2 DEF Factor!Drop, Factor!Goto, Factor!ghosts
<1>3. ASSUME NEW w \in Work, Factor!Reserve(w)
      PROVE  Goal
  BY <1>3 DEF Factor!Reserve, Factor!Goto, Factor!ghosts
<1>4. ASSUME NEW w \in Work, Factor!Wrong(w)
      PROVE  Goal
  BY <1>4 DEF Factor!Wrong, Factor!Goto, Factor!ghosts
<1>5. ASSUME NEW w \in Work, Factor!ClearFailedAttempts(w)
      PROVE  Goal
  BY <1>5 DEF Factor!ClearFailedAttempts, Factor!Goto, Factor!ghosts
<1>6. ASSUME NEW w \in Work, Factor!RegisterFailure(w)
      PROVE  Goal
  BY <1>6 DEF Factor!RegisterFailure, Factor!Goto, Factor!ghosts
<1>7. ASSUME NEW w \in Work, Factor!Consume(w)
      PROVE  Goal
  BY <1>7 DEF Factor!Consume, Factor!Goto, Factor!ghosts
<1>8. ASSUME NEW w \in Work, Factor!IssueSession(w)
      PROVE  Goal
  BY <1>8 DEF Factor!IssueSession, Factor!Goto, Factor!ghosts
<1>9. ASSUME NEW w \in Work, Factor!SavePendingSecret(w)
      PROVE  Goal
  BY <1>9 DEF Factor!SavePendingSecret, Factor!Goto, Factor!ghosts
<1>10. ASSUME NEW w \in Work, Factor!SaveConfirmation(w)
      PROVE  Goal
  BY <1>10 DEF Factor!SaveConfirmation, Factor!Goto, Factor!ghosts
<1>11. ASSUME NEW w \in Work, Factor!DeleteCodes(w)
      PROVE  Goal
  BY <1>11 DEF Factor!DeleteCodes, Factor!Goto, Factor!ghosts
<1>12. ASSUME NEW w \in Work, Factor!ReplaceCodes(w)
      PROVE  Goal
  BY <1>12 DEF Factor!ReplaceCodes, Factor!Goto, Factor!ghosts
<1>13. ASSUME NEW w \in Work, Factor!Clear(w)
      PROVE  Goal
  BY <1>13 DEF Factor!Clear, Factor!Goto, Factor!ghosts
<1>14. ASSUME NEW w \in Work, Factor!Stop(w)
      PROVE  Goal
  BY <1>14 DEF Factor!Stop, Factor!Goto, Factor!ghosts
<1>15. ASSUME NEW w \in Work, NEW c \in Challenge, Factor!Claim(w, c)
      PROVE  Goal
  BY <1>15 DEF Factor!Claim, Factor!ghosts
<1>16. ASSUME NEW w \in Work, NEW kind \in Kind, Factor!Ask(w, kind)
      PROVE  Goal
  BY <1>16 DEF Factor!Ask, Factor!ghosts
<1>17. ASSUME NEW w \in Work, NEW secret \in 1..secrets, NEW d \in Steps,
             Factor!SpendCode(w, secret, now + d)
      PROVE  Goal
  <2> DEFINE t == [secret |-> secret, step |-> now + d]
             b == [by |-> w, answer |-> t]
  <2>0. a = b
    <3>1. accepted' = accepted \/ accepted' = accepted \cup {b}
      BY <1>17, SpendCodeDoes
    <3> HIDE DEF t, b
    <3> QED BY <3>1
  <2>1. /\ a = b /\ work[w].pc = "check" /\ t \in TotpAnswer
        /\ accepted' = accepted \cup {a} /\ work'[w].pc = "clear"
        /\ work[w].read.last = None \/ now + d > work[w].read.last
        /\ row # Factor!NoRow /\ row.last = work[w].read.last
        /\ row' = [row EXCEPT !.last = now + d] /\ codes' = codes
    BY <1>17, <2>0, SpendCodeDoes
  <2>2. b.by = w /\ b.answer = t /\ t.step = now + d
    OBVIOUS
  <2> HIDE DEF t, b
  <2> QED BY <2>1, <2>2
<1>18. ASSUME NEW w \in Work, NEW code \in work[w].codes, Factor!SpendRecovery(w, code)
      PROVE  Goal
  <2> DEFINE t == [recovery |-> code]
             b == [by |-> w, answer |-> t]
  <2>0. a = b
    <3>1. accepted' = accepted \/ accepted' = accepted \cup {b}
      BY <1>18, SpendRecoveryDoes
    <3> HIDE DEF t, b
    <3> QED BY <3>1
  <2>1. /\ a = b /\ work[w].pc = "check" /\ t \in RecoveryAnswer
        /\ accepted' = accepted \cup {a} /\ work'[w].pc = "clear"
        /\ code \in codes /\ codes' = codes \ {code} /\ row' = row
    BY <1>18, <2>0, SpendRecoveryDoes
  <2>2. b.by = w /\ b.answer = t /\ t.recovery = code
    OBVIOUS
  <2> HIDE DEF t, b
  <2> QED BY <2>1, <2>2
<1>19. ASSUME Factor!Tick
      PROVE  Goal
  BY <1>19 DEF Factor!Tick, Factor!ghosts
<1> QED
  BY <1>0, <1>1, <1>2, <1>3, <1>4, <1>5, <1>6, <1>7, <1>8, <1>9, <1>10, <1>11, <1>12,
      <1>13, <1>14, <1>15, <1>16, <1>17, <1>18, <1>19 DEF Factor!Next

LEMMA AcceptedByAskedStep ==
  ASSUME Factor!FactorAssumption, FInv, [Factor!Next]_Factor!vars
  PROVE  AcceptedByAsked'
<1>a. /\ work \in [Work -> AnswerRow] /\ accepted \subseteq AcceptedRow
      /\ \A a \in accepted : work[a.by].kind # "none"
      /\ \A v \in Work : KindSound(v)
  BY DEF FInv, FTyped, AcceptedByAsked, KindsSound
<1>1. ASSUME NEW a \in accepted'
      PROVE  a.by \in Work /\ work[a.by].kind # "none"
  <2>1. CASE a \in accepted
    BY <2>1, <1>a DEF AcceptedRow
  <2>2. CASE a \notin accepted
    <3>1. a.by \in Work /\ work[a.by].pc = "check"
      BY <1>1, <2>2, AcceptedDoes
    <3> QED BY <3>1, <1>a DEF KindSound
  <2> QED BY <2>1, <2>2
<1>2. \A a \in accepted' : work'[a.by].kind = work[a.by].kind
  BY <1>1, KindStays
<1> QED BY <1>1, <1>2 DEF AcceptedByAsked

LEMMA RowDoes ==
  ASSUME Factor!FactorAssumption, FInv, [Factor!Next]_Factor!vars
  PROVE  ~(row'.enabled = row.enabled /\ row'.secret = row.secret) /\ row'.enabled =>
           \E z \in Work : /\ work[z].pc = "save" /\ work[z].kind = "confirm"
                           /\ row'.secret = row.secret /\ row.secret = work[z].read.secret
<1>a. row \in FactorRow
  BY DEF FInv, FTyped
<1>0. CASE UNCHANGED Factor!vars
  BY <1>0, <1>a DEF Factor!vars, FactorRow
<1> DEFINE Goal ==
         ~(row'.enabled = row.enabled /\ row'.secret = row.secret) /\ row'.enabled =>
           \E z \in Work : /\ work[z].pc = "save" /\ work[z].kind = "confirm"
                           /\ row'.secret = row.secret /\ row.secret = work[z].read.secret
<1>1. ASSUME NEW w \in Work, Factor!Load(w)
      PROVE  Goal
  BY <1>1, <1>a DEF Factor!Load, Factor!Goto, Factor!ghosts, FactorRow
<1>2. ASSUME NEW w \in Work, Factor!Drop(w)
      PROVE  Goal
  BY <1>2, <1>a DEF Factor!Drop, Factor!Goto, Factor!ghosts, FactorRow
<1>3. ASSUME NEW w \in Work, Factor!Reserve(w)
      PROVE  Goal
  <2>1. \/ row' = row
        \/ row # Factor!NoRow /\ row' = Factor!CountedTo(work[w].read.failed + 1)
    BY <1>3 DEF Factor!Reserve, Factor!CountStands
  <2> QED BY <2>1, <1>a DEF FactorRow, Factor!CountedTo
<1>4. ASSUME NEW w \in Work, Factor!Wrong(w)
      PROVE  Goal
  BY <1>4, <1>a DEF Factor!Wrong, Factor!Goto, Factor!ghosts, FactorRow
<1>5. ASSUME NEW w \in Work, Factor!ClearFailedAttempts(w)
      PROVE  Goal
  BY <1>5, <1>a DEF Factor!ClearFailedAttempts, Factor!Goto, Factor!ghosts, FactorRow
<1>6. ASSUME NEW w \in Work, Factor!RegisterFailure(w)
      PROVE  Goal
  BY <1>6, <1>a DEF Factor!RegisterFailure, Factor!Goto, Factor!ghosts, FactorRow
<1>7. ASSUME NEW w \in Work, Factor!Consume(w)
      PROVE  Goal
  BY <1>7, <1>a DEF Factor!Consume, Factor!Goto, Factor!ghosts, FactorRow
<1>8. ASSUME NEW w \in Work, Factor!IssueSession(w)
      PROVE  Goal
  BY <1>8, <1>a DEF Factor!IssueSession, Factor!Goto, Factor!ghosts, FactorRow
<1>9. ASSUME NEW w \in Work, Factor!SavePendingSecret(w)
      PROVE  Goal
  BY <1>9, <1>a DEF Factor!SavePendingSecret, Factor!Goto, Factor!ghosts, FactorRow,
      Factor!NoRow
<1>10. ASSUME NEW w \in Work, Factor!SaveConfirmation(w)
      PROVE  Goal
  BY <1>10, <1>a DEF Factor!SaveConfirmation, Factor!Goto, Factor!ghosts, FactorRow,
      Factor!Confirms
<1>11. ASSUME NEW w \in Work, Factor!DeleteCodes(w)
      PROVE  Goal
  BY <1>11, <1>a DEF Factor!DeleteCodes, Factor!Goto, Factor!ghosts, FactorRow
<1>12. ASSUME NEW w \in Work, Factor!ReplaceCodes(w)
      PROVE  Goal
  BY <1>12, <1>a DEF Factor!ReplaceCodes, Factor!Goto, Factor!ghosts, FactorRow
<1>13. ASSUME NEW w \in Work, Factor!Clear(w)
      PROVE  Goal
  BY <1>13, <1>a DEF Factor!Clear, Factor!Goto, Factor!ghosts, FactorRow, Factor!NoRow
<1>14. ASSUME NEW w \in Work, Factor!Stop(w)
      PROVE  Goal
  BY <1>14, <1>a DEF Factor!Stop, Factor!Goto, Factor!ghosts, FactorRow
<1>15. ASSUME NEW w \in Work, NEW c \in Challenge, Factor!Claim(w, c)
      PROVE  Goal
  BY <1>15, <1>a DEF Factor!Claim, Factor!ghosts, FactorRow
<1>16. ASSUME NEW w \in Work, NEW kind \in Kind, Factor!Ask(w, kind)
      PROVE  Goal
  BY <1>16, <1>a DEF Factor!Ask, Factor!ghosts, FactorRow
<1>17. ASSUME NEW w \in Work, NEW secret \in 1..secrets, NEW d \in Steps,
             Factor!SpendCode(w, secret, now + d)
      PROVE  Goal
  <2>1. row' = row \/ (row # Factor!NoRow /\ row' = [row EXCEPT !.last = now + d])
    BY <1>17, SpendCodeDoes
  <2> QED BY <2>1, <1>a DEF FactorRow
<1>18. ASSUME NEW w \in Work, NEW code \in work[w].codes, Factor!SpendRecovery(w, code)
      PROVE  Goal
  BY <1>18, <1>a DEF Factor!SpendRecovery, Factor!Accept, Factor!Goto, Factor!ghosts,
      FactorRow
<1>19. ASSUME Factor!Tick
      PROVE  Goal
  BY <1>19, <1>a DEF Factor!Tick, Factor!ghosts, FactorRow
<1> QED
  BY <1>0, <1>1, <1>2, <1>3, <1>4, <1>5, <1>6, <1>7, <1>8, <1>9, <1>10, <1>11, <1>12,
      <1>13, <1>14, <1>15, <1>16, <1>17, <1>18, <1>19 DEF Factor!Next

LEMMA ConfirmedStep ==
  ASSUME Factor!FactorAssumption, FInv, [Factor!Next]_Factor!vars
  PROVE  ConfirmedSound'
<1> DEFINE Backed(s) == \E a \in accepted : /\ work[a.by].kind = "confirm"
                                            /\ a.answer \in TotpAnswer
                                            /\ a.answer.secret = s
           BackedAfter(s) == \E a \in accepted' : /\ work'[a.by].kind = "confirm"
                                                  /\ a.answer \in TotpAnswer
                                                  /\ a.answer.secret = s
<1>a. /\ accepted \subseteq AcceptedRow /\ row \in FactorRow
      /\ \A a \in accepted : work[a.by].kind # "none"
      /\ \A v \in Work : AnswerTaken(v)
      /\ row.enabled => (Confirmed /\ row.secret = 1) \/ Backed(row.secret)
  BY DEF FInv, FTyped, AcceptedByAsked, AnswersTaken, ConfirmedSound
<1>1. ASSUME NEW s, Backed(s)
      PROVE  BackedAfter(s)
  <2>1. PICK a \in accepted : work[a.by].kind = "confirm" /\ a.answer \in TotpAnswer
                              /\ a.answer.secret = s
    BY <1>1
  <2>2. a.by \in Work /\ a \in accepted'
    BY <1>a, AcceptedGrows DEF AcceptedRow
  <2>3. work'[a.by].kind = work[a.by].kind
    BY <2>2, <1>a, KindStays
  <2> QED BY <2>1, <2>2, <2>3
<1>2. CASE ~row'.enabled
  BY <1>2 DEF ConfirmedSound
<1>3. CASE row'.enabled = row.enabled /\ row'.secret = row.secret
  <2>1. row.enabled => (Confirmed /\ row'.secret = 1) \/ BackedAfter(row'.secret)
    BY <1>1, <1>3, <1>a
  <2> QED BY <1>3, <2>1 DEF ConfirmedSound
<1>4. ASSUME NEW z \in Work, work[z].pc = "save", work[z].kind = "confirm",
             row'.secret = row.secret, row.secret = work[z].read.secret
      PROVE  ConfirmedSound'
  <2>1. PICK a \in accepted : a.by = z /\ a.answer \in TotpAnswer
                              /\ a.answer.secret = work[z].read.secret
    BY <1>4, <1>a DEF AnswerTaken, AcceptedOf
  <2>2. Backed(row.secret)
    BY <2>1, <1>4
  <2>3. BackedAfter(row'.secret)
    BY <2>2, <1>1, <1>4
  <2> QED BY <2>3 DEF ConfirmedSound
<1> QED BY <1>2, <1>3, <1>4, RowDoes

LEMMA AnswersApart ==
  ASSUME NEW x \in TotpAnswer, NEW y \in RecoveryAnswer
  PROVE  x # y
<1>1. DOMAIN x = {"secret", "step"} /\ DOMAIN y = {"recovery"}
  BY DEF TotpAnswer, RecoveryAnswer
<1>2. "secret" \in DOMAIN x /\ "secret" \notin DOMAIN y
  BY <1>1
<1> QED BY <1>2

LEMMA CodesDo ==
  ASSUME Factor!FactorAssumption, FInv, [Factor!Next]_Factor!vars
  PROVE  codes' \subseteq codes
         \/ \E z \in Work : /\ work[z].pc \in {"save", "write"} /\ work'[z].pc = "done"
                            /\ codes' \subseteq codes \cup {z}
<1>a. work \in [Work -> AnswerRow]
  BY DEF FInv, FTyped
<1>0. CASE UNCHANGED Factor!vars
  BY <1>0 DEF Factor!vars
<1> DEFINE Goal ==
         codes' \subseteq codes
         \/ \E z \in Work : /\ work[z].pc \in {"save", "write"} /\ work'[z].pc = "done"
                            /\ codes' \subseteq codes \cup {z}
<1>1. ASSUME NEW w \in Work, Factor!Load(w)
      PROVE  Goal
  BY <1>1 DEF Factor!Load, Factor!Goto, Factor!ghosts
<1>2. ASSUME NEW w \in Work, Factor!Drop(w)
      PROVE  Goal
  BY <1>2 DEF Factor!Drop, Factor!Goto, Factor!ghosts
<1>3. ASSUME NEW w \in Work, Factor!Reserve(w)
      PROVE  Goal
  BY <1>3 DEF Factor!Reserve, Factor!Goto, Factor!ghosts
<1>4. ASSUME NEW w \in Work, Factor!Wrong(w)
      PROVE  Goal
  BY <1>4 DEF Factor!Wrong, Factor!Goto, Factor!ghosts
<1>5. ASSUME NEW w \in Work, Factor!ClearFailedAttempts(w)
      PROVE  Goal
  BY <1>5 DEF Factor!ClearFailedAttempts, Factor!Goto, Factor!ghosts
<1>6. ASSUME NEW w \in Work, Factor!RegisterFailure(w)
      PROVE  Goal
  BY <1>6 DEF Factor!RegisterFailure, Factor!Goto, Factor!ghosts
<1>7. ASSUME NEW w \in Work, Factor!Consume(w)
      PROVE  Goal
  BY <1>7 DEF Factor!Consume, Factor!Goto, Factor!ghosts
<1>8. ASSUME NEW w \in Work, Factor!IssueSession(w)
      PROVE  Goal
  BY <1>8 DEF Factor!IssueSession, Factor!Goto, Factor!ghosts
<1>9. ASSUME NEW w \in Work, Factor!SavePendingSecret(w)
      PROVE  Goal
  BY <1>9 DEF Factor!SavePendingSecret, Factor!Goto, Factor!ghosts
<1>10. ASSUME NEW w \in Work, Factor!SaveConfirmation(w)
      PROVE  Goal
  <2>1. \/ codes' = codes
        \/ codes' = {w} /\ work[w].pc = "save" /\ work' = [work EXCEPT ![w].pc = "done"]
    BY <1>10 DEF Factor!SaveConfirmation, Factor!Goto
  <2> QED BY <2>1, <1>a DEF AnswerRow
<1>11. ASSUME NEW w \in Work, Factor!DeleteCodes(w)
      PROVE  Goal
  BY <1>11 DEF Factor!DeleteCodes, Factor!Goto, Factor!ghosts
<1>12. ASSUME NEW w \in Work, Factor!ReplaceCodes(w)
      PROVE  Goal
  <2>1. /\ codes' \subseteq codes \cup {w} /\ work[w].pc = "write"
        /\ work' = [work EXCEPT ![w].pc = "done"]
    BY <1>12 DEF Factor!ReplaceCodes, Factor!Goto
  <2>2. work'[w].pc = "done"
    BY <2>1, <1>a DEF AnswerRow
  <2> QED BY <2>1, <2>2
<1>13. ASSUME NEW w \in Work, Factor!Clear(w)
      PROVE  Goal
  BY <1>13 DEF Factor!Clear, Factor!Goto, Factor!ghosts
<1>14. ASSUME NEW w \in Work, Factor!Stop(w)
      PROVE  Goal
  BY <1>14 DEF Factor!Stop, Factor!Goto, Factor!ghosts
<1>15. ASSUME NEW w \in Work, NEW c \in Challenge, Factor!Claim(w, c)
      PROVE  Goal
  BY <1>15 DEF Factor!Claim, Factor!ghosts
<1>16. ASSUME NEW w \in Work, NEW kind \in Kind, Factor!Ask(w, kind)
      PROVE  Goal
  BY <1>16 DEF Factor!Ask, Factor!ghosts
<1>17. ASSUME NEW w \in Work, NEW secret \in 1..secrets, NEW d \in Steps,
             Factor!SpendCode(w, secret, now + d)
      PROVE  Goal
  BY <1>17 DEF Factor!SpendCode, Factor!Accept, Factor!Goto, Factor!ghosts
<1>18. ASSUME NEW w \in Work, NEW code \in work[w].codes, Factor!SpendRecovery(w, code)
      PROVE  Goal
  BY <1>18 DEF Factor!SpendRecovery, Factor!Accept, Factor!Goto, Factor!ghosts
<1>19. ASSUME Factor!Tick
      PROVE  Goal
  BY <1>19 DEF Factor!Tick, Factor!ghosts
<1> QED
  BY <1>0, <1>1, <1>2, <1>3, <1>4, <1>5, <1>6, <1>7, <1>8, <1>9, <1>10, <1>11, <1>12,
      <1>13, <1>14, <1>15, <1>16, <1>17, <1>18, <1>19 DEF Factor!Next

LEMMA RecoveryStep ==
  ASSUME Factor!FactorAssumption, FInv, [Factor!Next]_Factor!vars
  PROVE  RecoverySound'
<1>a. /\ work \in [Work -> AnswerRow] /\ accepted \subseteq AcceptedRow
      /\ RecoverySound /\ None \notin Work
  BY DEF FInv, FTyped, Factor!FactorAssumption
<1>1. ASSUME NEW x, Issued(x)
      PROVE  Issued(x)'
  <2>1. x \in Work /\ work[x].pc = "done" => work'[x] = work[x]
    BY FinishedStays DEF Finished
  <2> QED BY <1>1, <2>1 DEF Issued
<1>2. ASSUME NEW x \in codes'
      PROVE  Issued(x)'
  <2>1. CASE x \in codes
    BY <2>1, <1>1, <1>a DEF RecoverySound
  <2>2. CASE x \notin codes
    <3>1. PICK z \in Work : work'[z].pc = "done" /\ codes' \subseteq codes \cup {z}
      BY <1>2, <2>2, CodesDo
    <3> QED BY <1>2, <2>2, <3>1 DEF Issued
  <2> QED BY <2>1, <2>2
<1>3. ASSUME NEW x, Issued(x), x \notin codes
      PROVE  x \notin codes'
  <2>1. CASE codes' \subseteq codes
    BY <1>3, <2>1
  <2>2. ASSUME NEW z \in Work, work[z].pc \in {"save", "write"},
               codes' \subseteq codes \cup {z}
        PROVE  x \notin codes'
    BY <1>3, <2>2, <1>a DEF Issued
  <2> QED BY <2>1, <2>2, CodesDo
<1>4. ASSUME NEW a \in accepted', a.answer \in RecoveryAnswer
      PROVE  Issued(a.answer.recovery)' /\ a.answer.recovery \notin codes'
  <2>1. CASE a \in accepted
    BY <2>1, <1>1, <1>3, <1>4, <1>a DEF RecoverySound
  <2>2. CASE a \notin accepted
    <3>1. \/ a.answer \in TotpAnswer
          \/ a.answer.recovery \in codes /\ codes' = codes \ {a.answer.recovery}
      BY <2>2, AcceptedDoes
    <3>2. a.answer.recovery \in codes /\ codes' = codes \ {a.answer.recovery}
      BY <3>1, <1>4, AnswersApart
    <3> QED BY <3>2, <1>1, <1>a DEF RecoverySound
  <2> QED BY <2>1, <2>2
<1>5. ASSUME NEW a \in accepted', NEW b \in accepted', a.answer \in RecoveryAnswer,
             a.answer = b.answer, a \in accepted
      PROVE  a = b
  <2>1. CASE b \in accepted
    BY <2>1, <1>5, <1>a DEF RecoverySound
  <2>2. CASE b \notin accepted
    <3>1. b.answer \in TotpAnswer \/ b.answer.recovery \in codes
      BY <2>2, AcceptedDoes
    <3>2. b.answer.recovery \in codes
      BY <3>1, <1>5, AnswersApart
    <3> QED BY <3>2, <1>5, <1>a DEF RecoverySound
  <2> QED BY <2>1, <2>2
<1>6. ASSUME NEW a \in accepted', NEW b \in accepted', a.answer \in RecoveryAnswer,
             a.answer = b.answer
      PROVE  a = b
  <2>1. CASE a \in accepted \/ b \in accepted
    BY <2>1, <1>5, <1>6
  <2>2. CASE a \notin accepted /\ b \notin accepted
    <3>1. accepted' = accepted \cup {a}
      BY <2>2, AcceptedDoes
    <3> QED BY <2>2, <3>1
  <2> QED BY <2>1, <2>2
<1> QED BY <1>2, <1>4, <1>6 DEF RecoverySound

LEMMA ConfirmsSome ==
  ASSUME FInv, NEW w \in Work, Factor!SaveConfirmation(w), row' # row
  PROVE  /\ row # Factor!NoRow /\ row' = [row EXCEPT !.enabled = TRUE]
<1>1. /\ row.secret = work[w].read.secret /\ row' = [row EXCEPT !.enabled = TRUE]
      /\ work[w].pc = "save" /\ work[w].kind = "confirm"
  BY DEF Factor!SaveConfirmation, Factor!Confirms
<1>2. PICK a \in accepted : a.answer \in TotpAnswer /\ a.answer.secret = row.secret
  BY <1>1 DEF FInv, AnswersTaken, AnswerTaken, AcceptedOf
<1>3. row.secret # 0
  BY <1>2 DEF TotpAnswer
<1> QED BY <1>1, <1>3 DEF Factor!NoRow

LEMMA LastDoes ==
  ASSUME Factor!FactorAssumption, FInv, [Factor!Next]_Factor!vars, "setup" \notin Kind
  PROVE  row' = row \/ row' = Factor!NoRow
         \/ (row # Factor!NoRow /\ row'.last = row.last)
         \/ \E a \in accepted' :
              /\ row # Factor!NoRow /\ a.answer \in TotpAnswer
              /\ accepted' = accepted \cup {a}
              /\ row.last = None \/ a.answer.step > row.last
              /\ row'.last = a.answer.step
<1>a. row \in FactorRow /\ work \in [Work -> AnswerRow]
  BY DEF FInv, FTyped
<1>b. \A v \in Work : work[v].kind # "setup"
  BY DEF FInv, KindsSound, KindSound
<1>0. CASE UNCHANGED Factor!vars
  BY <1>0 DEF Factor!vars
<1> DEFINE Goal ==
         row' = row \/ row' = Factor!NoRow
         \/ (row # Factor!NoRow /\ row'.last = row.last)
         \/ \E a \in accepted' :
              /\ row # Factor!NoRow /\ a.answer \in TotpAnswer
              /\ accepted' = accepted \cup {a}
              /\ row.last = None \/ a.answer.step > row.last
              /\ row'.last = a.answer.step
<1>1. ASSUME NEW w \in Work, Factor!Load(w)
      PROVE  Goal
  BY <1>1 DEF Factor!Load, Factor!Goto, Factor!ghosts
<1>2. ASSUME NEW w \in Work, Factor!Drop(w)
      PROVE  Goal
  BY <1>2 DEF Factor!Drop, Factor!Goto, Factor!ghosts
<1>3. ASSUME NEW w \in Work, Factor!Reserve(w)
      PROVE  Goal
  <2>1. \/ row' = row
        \/ row # Factor!NoRow /\ row' = Factor!CountedTo(work[w].read.failed + 1)
    BY <1>3 DEF Factor!Reserve, Factor!CountStands
  <2> QED BY <2>1, <1>a DEF FactorRow, Factor!CountedTo
<1>4. ASSUME NEW w \in Work, Factor!Wrong(w)
      PROVE  Goal
  BY <1>4 DEF Factor!Wrong, Factor!Goto, Factor!ghosts
<1>5. ASSUME NEW w \in Work, Factor!ClearFailedAttempts(w)
      PROVE  Goal
  <2>1. \/ row' = row
        \/ row # Factor!NoRow /\ row' = [row EXCEPT !.failed = 0, !.locked = 0]
    BY <1>5 DEF Factor!ClearFailedAttempts
  <2> QED BY <2>1, <1>a DEF FactorRow
<1>6. ASSUME NEW w \in Work, Factor!RegisterFailure(w)
      PROVE  Goal
  BY <1>6 DEF Factor!RegisterFailure, Factor!Goto, Factor!ghosts
<1>7. ASSUME NEW w \in Work, Factor!Consume(w)
      PROVE  Goal
  BY <1>7 DEF Factor!Consume, Factor!Goto, Factor!ghosts
<1>8. ASSUME NEW w \in Work, Factor!IssueSession(w)
      PROVE  Goal
  BY <1>8 DEF Factor!IssueSession, Factor!Goto, Factor!ghosts
<1>9. ASSUME NEW w \in Work, Factor!SavePendingSecret(w)
      PROVE  Goal
  <2> QED BY <1>9, <1>b DEF Factor!SavePendingSecret
<1>10. ASSUME NEW w \in Work, Factor!SaveConfirmation(w)
      PROVE  Goal
  <2>1. row' = row \/ (row # Factor!NoRow /\ row' = [row EXCEPT !.enabled = TRUE])
    BY <1>10, ConfirmsSome
  <2> QED BY <2>1, <1>a DEF FactorRow
<1>11. ASSUME NEW w \in Work, Factor!DeleteCodes(w)
      PROVE  Goal
  BY <1>11 DEF Factor!DeleteCodes, Factor!Goto, Factor!ghosts
<1>12. ASSUME NEW w \in Work, Factor!ReplaceCodes(w)
      PROVE  Goal
  BY <1>12 DEF Factor!ReplaceCodes, Factor!Goto, Factor!ghosts
<1>13. ASSUME NEW w \in Work, Factor!Clear(w)
      PROVE  Goal
  BY <1>13 DEF Factor!Clear, Factor!Goto, Factor!ghosts
<1>14. ASSUME NEW w \in Work, Factor!Stop(w)
      PROVE  Goal
  BY <1>14 DEF Factor!Stop, Factor!Goto, Factor!ghosts
<1>15. ASSUME NEW w \in Work, NEW c \in Challenge, Factor!Claim(w, c)
      PROVE  Goal
  BY <1>15 DEF Factor!Claim, Factor!ghosts
<1>16. ASSUME NEW w \in Work, NEW kind \in Kind, Factor!Ask(w, kind)
      PROVE  Goal
  BY <1>16 DEF Factor!Ask, Factor!ghosts
<1>17. ASSUME NEW w \in Work, NEW secret \in 1..secrets, NEW d \in Steps,
             Factor!SpendCode(w, secret, now + d)
      PROVE  Goal
  <2> DEFINE t == [secret |-> secret, step |-> now + d]
             a == [by |-> w, answer |-> t]
  <2>1. \/ row' = row
        \/ /\ row # Factor!NoRow /\ t \in TotpAnswer /\ accepted' = accepted \cup {a}
           /\ row.last = None \/ now + d > row.last
           /\ row' = [row EXCEPT !.last = now + d]
    BY <1>17, SpendCodeDoes
  <2>2. a.answer = t /\ t.step = now + d
    OBVIOUS
  <2> HIDE DEF a, t
  <2>3. row' = [row EXCEPT !.last = now + d] => row'.last = now + d
    BY <1>a DEF FactorRow
  <2> QED BY <2>1, <2>2, <2>3
<1>18. ASSUME NEW w \in Work, NEW code \in work[w].codes, Factor!SpendRecovery(w, code)
      PROVE  Goal
  BY <1>18 DEF Factor!SpendRecovery, Factor!Accept, Factor!Goto, Factor!ghosts
<1>19. ASSUME Factor!Tick
      PROVE  Goal
  BY <1>19 DEF Factor!Tick, Factor!ghosts
<1> QED
  BY <1>0, <1>1, <1>2, <1>3, <1>4, <1>5, <1>6, <1>7, <1>8, <1>9, <1>10, <1>11, <1>12,
      <1>13, <1>14, <1>15, <1>16, <1>17, <1>18, <1>19 DEF Factor!Next

LEMMA StepsStep ==
  ASSUME Factor!FactorAssumption, FInv, [Factor!Next]_Factor!vars
  PROVE  StepsSound'
<1> SUFFICES ASSUME "setup" \notin Kind
             PROVE  StepsSound'
  BY DEF StepsSound
<1>a. /\ accepted \subseteq AcceptedRow /\ row \in FactorRow /\ row' \in FactorRow
      /\ accepted' \subseteq AcceptedRow
  BY RowTypedStep, AnswersTypedStep DEF FInv, FTyped
<1>b. /\ row = Factor!NoRow \/ \A a \in accepted : a.answer \in TotpAnswer =>
                                 row.last # None /\ a.answer.step <= row.last
      /\ \A a, b \in accepted : a.answer \in TotpAnswer /\ a.answer = b.answer => a = b
  BY DEF FInv, StepsSound
<1>c. \A a : a.answer \in TotpAnswer => a.answer.step \in Int
  BY DEF TotpAnswer
<1>d. row.last \in Int \cup {None} /\ row'.last \in Int \cup {None} /\ None \notin Int
  BY <1>a DEF FactorRow, Factor!FactorAssumption
<1>e. ASSUME NEW a \in accepted', a \notin accepted, a.answer \in TotpAnswer
      PROVE  /\ row # Factor!NoRow /\ row'.last = a.answer.step
             /\ row.last = None \/ a.answer.step > row.last
  <2>1. \/ a.answer \in RecoveryAnswer
        \/ /\ row # Factor!NoRow /\ row' = [row EXCEPT !.last = a.answer.step]
           /\ row.last = None \/ a.answer.step > row.last
    BY <1>e, AcceptedDoes
  <2> QED BY <2>1, <1>a, <1>e, AnswersApart DEF FactorRow
<1>1. ASSUME row' # Factor!NoRow, NEW a \in accepted', a.answer \in TotpAnswer
      PROVE  row'.last # None /\ a.answer.step <= row'.last
  <2>1. CASE a \notin accepted
    BY <1>1, <2>1, <1>c, <1>d, <1>e
  <2>2. CASE a \in accepted
    <3>1. CASE row' = row \/ (row # Factor!NoRow /\ row'.last = row.last)
      BY <1>1, <2>2, <3>1, <1>b
    <3>2. ASSUME NEW b \in accepted', row # Factor!NoRow, b.answer \in TotpAnswer,
                 row.last = None \/ b.answer.step > row.last, row'.last = b.answer.step
          PROVE  row'.last # None /\ a.answer.step <= row'.last
      <4>1. row.last # None /\ a.answer.step <= row.last
        BY <1>1, <2>2, <3>2, <1>b
      <4>2. a.answer.step \in Int /\ b.answer.step \in Int /\ row.last \in Int
        BY <1>1, <3>2, <4>1, <1>c, <1>d
      <4> QED BY <3>2, <4>1, <4>2, <1>d
    <3> QED BY <1>1, <3>1, <3>2, LastDoes
  <2> QED BY <2>1, <2>2
<1>2. ASSUME NEW a \in accepted', NEW b \in accepted', a.answer \in TotpAnswer,
             a.answer = b.answer, a \in accepted, b \notin accepted
      PROVE  FALSE
  <2>1. row # Factor!NoRow /\ (row.last = None \/ b.answer.step > row.last)
    BY <1>2, <1>e
  <2>2. row.last # None /\ a.answer.step <= row.last
    BY <1>2, <2>1, <1>b
  <2> QED BY <1>2, <2>1, <2>2, <1>c, <1>d
<1>3. ASSUME NEW a \in accepted', NEW b \in accepted', a.answer \in TotpAnswer,
             a.answer = b.answer
      PROVE  a = b
  <2>1. CASE a \in accepted /\ b \in accepted
    BY <1>3, <2>1, <1>b
  <2>2. CASE a \notin accepted /\ b \notin accepted
    <3>1. accepted' = accepted \cup {a}
      BY <2>2, AcceptedDoes
    <3> QED BY <2>2, <3>1
  <2> QED BY <2>1, <2>2, <1>2, <1>3
<1> QED BY <1>1, <1>3 DEF StepsSound

LEMMA CountingGrows ==
  ASSUME Factor!FactorAssumption, FInv, [Factor!Next]_Factor!vars
  PROVE  Counting \subseteq Counting'
<1>a. work \in [Work -> AnswerRow]
  BY DEF FInv, FTyped
<1>0. CASE UNCHANGED Factor!vars
  BY <1>0, <1>a DEF Factor!vars, Counting, BeforeCount, AnswerRow
<1> DEFINE Goal == Counting \subseteq Counting'
<1>1. ASSUME NEW w \in Work, Factor!Load(w)
      PROVE  Goal
  BY <1>1, <1>a DEF Factor!Load, Factor!Goto, Factor!ghosts, Counting, BeforeCount,
      AnswerRow
<1>2. ASSUME NEW w \in Work, Factor!Drop(w)
      PROVE  Goal
  BY <1>2, <1>a DEF Factor!Drop, Factor!Goto, Factor!ghosts, Counting, BeforeCount,
      AnswerRow
<1>3. ASSUME NEW w \in Work, Factor!Reserve(w)
      PROVE  Goal
  BY <1>3, <1>a DEF Factor!Reserve, Factor!Goto, Factor!ghosts, Counting, BeforeCount,
      AnswerRow
<1>4. ASSUME NEW w \in Work, Factor!Wrong(w)
      PROVE  Goal
  BY <1>4, <1>a DEF Factor!Wrong, Factor!Goto, Factor!ghosts, Counting, BeforeCount,
      AnswerRow
<1>5. ASSUME NEW w \in Work, Factor!ClearFailedAttempts(w)
      PROVE  Goal
  BY <1>5, <1>a DEF Factor!ClearFailedAttempts, Factor!Goto, Factor!ghosts, Counting,
      BeforeCount, AnswerRow
<1>6. ASSUME NEW w \in Work, Factor!RegisterFailure(w)
      PROVE  Goal
  BY <1>6, <1>a DEF Factor!RegisterFailure, Factor!Goto, Factor!ghosts, Counting,
      BeforeCount, AnswerRow
<1>7. ASSUME NEW w \in Work, Factor!Consume(w)
      PROVE  Goal
  BY <1>7, <1>a DEF Factor!Consume, Factor!Goto, Factor!ghosts, Counting, BeforeCount,
      AnswerRow
<1>8. ASSUME NEW w \in Work, Factor!IssueSession(w)
      PROVE  Goal
  BY <1>8, <1>a DEF Factor!IssueSession, Factor!Goto, Factor!ghosts, Counting,
      BeforeCount, AnswerRow
<1>9. ASSUME NEW w \in Work, Factor!SavePendingSecret(w)
      PROVE  Goal
  BY <1>9, <1>a DEF Factor!SavePendingSecret, Factor!Goto, Factor!ghosts, Counting,
      BeforeCount, AnswerRow
<1>10. ASSUME NEW w \in Work, Factor!SaveConfirmation(w)
      PROVE  Goal
  BY <1>10, <1>a DEF Factor!SaveConfirmation, Factor!Goto, Factor!ghosts, Counting,
      BeforeCount, AnswerRow
<1>11. ASSUME NEW w \in Work, Factor!DeleteCodes(w)
      PROVE  Goal
  BY <1>11, <1>a DEF Factor!DeleteCodes, Factor!Goto, Factor!ghosts, Counting,
      BeforeCount, AnswerRow
<1>12. ASSUME NEW w \in Work, Factor!ReplaceCodes(w)
      PROVE  Goal
  BY <1>12, <1>a DEF Factor!ReplaceCodes, Factor!Goto, Factor!ghosts, Counting,
      BeforeCount, AnswerRow
<1>13. ASSUME NEW w \in Work, Factor!Clear(w)
      PROVE  Goal
  BY <1>13, <1>a DEF Factor!Clear, Factor!Goto, Factor!ghosts, Counting, BeforeCount,
      AnswerRow
<1>14. ASSUME NEW w \in Work, Factor!Stop(w)
      PROVE  Goal
  BY <1>14, <1>a DEF Factor!Stop, Factor!Goto, Factor!ghosts, Counting, BeforeCount,
      AnswerRow
<1>15. ASSUME NEW w \in Work, NEW c \in Challenge, Factor!Claim(w, c)
      PROVE  Goal
  BY <1>15, <1>a DEF Factor!Claim, Factor!ghosts, Counting, BeforeCount, AnswerRow
<1>16. ASSUME NEW w \in Work, NEW kind \in Kind, Factor!Ask(w, kind)
      PROVE  Goal
  BY <1>16, <1>a DEF Factor!Ask, Factor!ghosts, Counting, BeforeCount, AnswerRow
<1>17. ASSUME NEW w \in Work, NEW secret \in 1..secrets, NEW d \in Steps,
             Factor!SpendCode(w, secret, now + d)
      PROVE  Goal
  BY <1>17, <1>a DEF Factor!SpendCode, Factor!Accept, Factor!Goto, Factor!ghosts,
      Counting, BeforeCount, AnswerRow
<1>18. ASSUME NEW w \in Work, NEW code \in work[w].codes, Factor!SpendRecovery(w, code)
      PROVE  Goal
  BY <1>18, <1>a DEF Factor!SpendRecovery, Factor!Accept, Factor!Goto, Factor!ghosts,
      Counting, BeforeCount, AnswerRow
<1>19. ASSUME Factor!Tick
      PROVE  Goal
  BY <1>19, <1>a DEF Factor!Tick, Factor!ghosts, Counting, BeforeCount, AnswerRow
<1> QED
  BY <1>0, <1>1, <1>2, <1>3, <1>4, <1>5, <1>6, <1>7, <1>8, <1>9, <1>10, <1>11, <1>12,
      <1>13, <1>14, <1>15, <1>16, <1>17, <1>18, <1>19 DEF Factor!Next

LEMMA FailedDoes ==
  ASSUME Factor!FactorAssumption, FInv, [Factor!Next]_Factor!vars
  PROVE  row'.failed <= row.failed
         \/ \E z \in Work : /\ work[z].pc = "reserve" /\ work'[z].pc = "check"
                            /\ row'.failed = row.failed + 1
<1>a. row \in FactorRow /\ work \in [Work -> AnswerRow]
  BY DEF FInv, FTyped
<1>b. row.failed \in Nat
  BY <1>a DEF FactorRow
<1>0. CASE UNCHANGED Factor!vars
  BY <1>0, <1>a, <1>b DEF Factor!vars, FactorRow
<1> DEFINE Goal ==
         row'.failed <= row.failed
         \/ \E z \in Work : /\ work[z].pc = "reserve" /\ work'[z].pc = "check"
                            /\ row'.failed = row.failed + 1
<1>1. ASSUME NEW w \in Work, Factor!Load(w)
      PROVE  Goal
  BY <1>1, <1>a, <1>b DEF Factor!Load, Factor!Goto, Factor!ghosts, FactorRow
<1>2. ASSUME NEW w \in Work, Factor!Drop(w)
      PROVE  Goal
  BY <1>2, <1>a, <1>b DEF Factor!Drop, Factor!Goto, Factor!ghosts, FactorRow
<1>3. ASSUME NEW w \in Work, Factor!Reserve(w)
      PROVE  Goal
  <2>1. \/ row' = row
        \/ /\ row.failed = work[w].read.failed /\ work[w].pc = "reserve"
           /\ row' = Factor!CountedTo(work[w].read.failed + 1)
           /\ work' = [work EXCEPT ![w].pc = "check"]
    BY <1>3 DEF Factor!Reserve, Factor!CountStands, Factor!Goto
  <2>2. work' = [work EXCEPT ![w].pc = "check"] => work'[w].pc = "check"
    BY <1>a DEF AnswerRow
  <2>3. row' = Factor!CountedTo(work[w].read.failed + 1)
          => row'.failed = work[w].read.failed + 1
    BY <1>a DEF FactorRow, Factor!CountedTo
  <2> QED BY <2>1, <2>2, <2>3, <1>b
<1>4. ASSUME NEW w \in Work, Factor!Wrong(w)
      PROVE  Goal
  BY <1>4, <1>a, <1>b DEF Factor!Wrong, Factor!Goto, Factor!ghosts, FactorRow
<1>5. ASSUME NEW w \in Work, Factor!ClearFailedAttempts(w)
      PROVE  Goal
  <2>1. row' = row \/ row' = [row EXCEPT !.failed = 0, !.locked = 0]
    BY <1>5 DEF Factor!ClearFailedAttempts
  <2>2. row' = [row EXCEPT !.failed = 0, !.locked = 0] => row'.failed = 0
    BY <1>a DEF FactorRow
  <2> QED BY <2>1, <2>2, <1>b
<1>6. ASSUME NEW w \in Work, Factor!RegisterFailure(w)
      PROVE  Goal
  BY <1>6, <1>a, <1>b DEF Factor!RegisterFailure, Factor!Goto, Factor!ghosts, FactorRow
<1>7. ASSUME NEW w \in Work, Factor!Consume(w)
      PROVE  Goal
  BY <1>7, <1>a, <1>b DEF Factor!Consume, Factor!Goto, Factor!ghosts, FactorRow
<1>8. ASSUME NEW w \in Work, Factor!IssueSession(w)
      PROVE  Goal
  BY <1>8, <1>a, <1>b DEF Factor!IssueSession, Factor!Goto, Factor!ghosts, FactorRow
<1>9. ASSUME NEW w \in Work, Factor!SavePendingSecret(w)
      PROVE  Goal
  BY <1>9, <1>a, <1>b DEF Factor!SavePendingSecret, Factor!Goto, Factor!ghosts,
      FactorRow, Factor!NoRow
<1>10. ASSUME NEW w \in Work, Factor!SaveConfirmation(w)
      PROVE  Goal
  BY <1>10, <1>a, <1>b DEF Factor!SaveConfirmation, Factor!Goto, Factor!ghosts,
      FactorRow
<1>11. ASSUME NEW w \in Work, Factor!DeleteCodes(w)
      PROVE  Goal
  BY <1>11, <1>a, <1>b DEF Factor!DeleteCodes, Factor!Goto, Factor!ghosts, FactorRow
<1>12. ASSUME NEW w \in Work, Factor!ReplaceCodes(w)
      PROVE  Goal
  BY <1>12, <1>a, <1>b DEF Factor!ReplaceCodes, Factor!Goto, Factor!ghosts, FactorRow
<1>13. ASSUME NEW w \in Work, Factor!Clear(w)
      PROVE  Goal
  BY <1>13, <1>a, <1>b DEF Factor!Clear, Factor!Goto, Factor!ghosts, FactorRow,
      Factor!NoRow
<1>14. ASSUME NEW w \in Work, Factor!Stop(w)
      PROVE  Goal
  BY <1>14, <1>a, <1>b DEF Factor!Stop, Factor!Goto, Factor!ghosts, FactorRow
<1>15. ASSUME NEW w \in Work, NEW c \in Challenge, Factor!Claim(w, c)
      PROVE  Goal
  BY <1>15, <1>a, <1>b DEF Factor!Claim, Factor!ghosts, FactorRow
<1>16. ASSUME NEW w \in Work, NEW kind \in Kind, Factor!Ask(w, kind)
      PROVE  Goal
  BY <1>16, <1>a, <1>b DEF Factor!Ask, Factor!ghosts, FactorRow
<1>17. ASSUME NEW w \in Work, NEW secret \in 1..secrets, NEW d \in Steps,
             Factor!SpendCode(w, secret, now + d)
      PROVE  Goal
  <2>1. row' = row \/ row' = [row EXCEPT !.last = now + d]
    BY <1>17, SpendCodeDoes
  <2> QED BY <2>1, <1>a, <1>b DEF FactorRow
<1>18. ASSUME NEW w \in Work, NEW code \in work[w].codes, Factor!SpendRecovery(w, code)
      PROVE  Goal
  BY <1>18, <1>a, <1>b DEF Factor!SpendRecovery, Factor!Accept, Factor!Goto,
      Factor!ghosts, FactorRow
<1>19. ASSUME Factor!Tick
      PROVE  Goal
  BY <1>19, <1>a, <1>b DEF Factor!Tick, Factor!ghosts, FactorRow
<1> QED
  BY <1>0, <1>1, <1>2, <1>3, <1>4, <1>5, <1>6, <1>7, <1>8, <1>9, <1>10, <1>11, <1>12,
      <1>13, <1>14, <1>15, <1>16, <1>17, <1>18, <1>19 DEF Factor!Next

LEMMA FailedStep ==
  ASSUME Factor!FactorAssumption, FInv, [Factor!Next]_Factor!vars
  PROVE  FailedSound'
<1>a. /\ row \in FactorRow /\ row' \in FactorRow /\ work \in [Work -> AnswerRow]
      /\ FailedSound
  BY RowTypedStep DEF FInv, FTyped
<1>b. row.failed \in Nat /\ row'.failed \in Nat
  BY <1>a DEF FactorRow
<1>1. Counting \subseteq Counting' /\ Counting' \subseteq Work /\ Counting \subseteq Work
  BY CountingGrows DEF Counting
<1>2. /\ IsFiniteSet(Counting) /\ IsFiniteSet(Counting')
      /\ Cardinality(Counting) \in Nat /\ Cardinality(Counting') \in Nat
      /\ Cardinality(Counting) <= Cardinality(Counting')
  <2>1. IsFiniteSet(Work)
    BY DEF Factor!FactorAssumption, Factor!IsFiniteSet, IsFiniteSet
  <2> QED BY <1>1, <2>1, FS_Subset, FS_CardinalityType
<1>3. ASSUME NEW z \in Work, work[z].pc = "reserve", work'[z].pc = "check"
      PROVE  Cardinality(Counting) + 1 <= Cardinality(Counting')
  <2>1. z \notin Counting /\ z \in Counting'
    BY <1>3 DEF Counting, BeforeCount
  <2>2. Counting \cup {z} \subseteq Counting'
    BY <1>1, <2>1
  <2>3. /\ Cardinality(Counting \cup {z}) = Cardinality(Counting) + 1
        /\ Cardinality(Counting \cup {z}) <= Cardinality(Counting')
    BY <1>2, <2>1, <2>2, FS_AddElement, FS_Subset
  <2> QED BY <2>3
<1> QED BY <1>a, <1>b, <1>2, <1>3, FailedDoes DEF FailedSound

LEMMA CountDoes ==
  ASSUME Factor!FactorAssumption, FInv, [Factor!Next]_Factor!vars
  PROVE  (row' = Factor!NoRow)
         \/ (row # Factor!NoRow /\ row'.failed = row.failed /\ row'.locked = row.locked)
         \/ right' = right + 1
         \/ (row # Factor!NoRow /\ row'.failed = row.failed + 1)
<1>a. row \in FactorRow /\ work \in [Work -> AnswerRow]
  BY DEF FInv, FTyped
<1>b. row.failed \in Nat
  BY <1>a DEF FactorRow
<1>0. CASE UNCHANGED Factor!vars
  BY <1>0 DEF Factor!vars
<1> DEFINE Goal ==
         (row' = Factor!NoRow)
         \/ (row # Factor!NoRow /\ row'.failed = row.failed /\ row'.locked = row.locked)
         \/ right' = right + 1
         \/ (row # Factor!NoRow /\ row'.failed = row.failed + 1)
<1>1. ASSUME NEW w \in Work, Factor!Load(w)
      PROVE  Goal
  BY <1>1 DEF Factor!Load, Factor!Goto, Factor!ghosts
<1>2. ASSUME NEW w \in Work, Factor!Drop(w)
      PROVE  Goal
  BY <1>2 DEF Factor!Drop, Factor!Goto, Factor!ghosts
<1>3. ASSUME NEW w \in Work, Factor!Reserve(w)
      PROVE  Goal
  <2>1. \/ row' = row
        \/ /\ row.failed = work[w].read.failed /\ row # Factor!NoRow
           /\ row' = Factor!CountedTo(work[w].read.failed + 1)
    BY <1>3 DEF Factor!Reserve, Factor!CountStands
  <2>2. row' = Factor!CountedTo(work[w].read.failed + 1)
          => row'.failed = work[w].read.failed + 1
    BY <1>a DEF FactorRow, Factor!CountedTo
  <2> QED BY <2>1, <2>2, <1>b
<1>4. ASSUME NEW w \in Work, Factor!Wrong(w)
      PROVE  Goal
  BY <1>4 DEF Factor!Wrong, Factor!Goto, Factor!ghosts
<1>5. ASSUME NEW w \in Work, Factor!ClearFailedAttempts(w)
      PROVE  Goal
  BY <1>5 DEF Factor!ClearFailedAttempts, Factor!Goto, Factor!ghosts
<1>6. ASSUME NEW w \in Work, Factor!RegisterFailure(w)
      PROVE  Goal
  BY <1>6 DEF Factor!RegisterFailure, Factor!Goto, Factor!ghosts
<1>7. ASSUME NEW w \in Work, Factor!Consume(w)
      PROVE  Goal
  BY <1>7 DEF Factor!Consume, Factor!Goto, Factor!ghosts
<1>8. ASSUME NEW w \in Work, Factor!IssueSession(w)
      PROVE  Goal
  BY <1>8 DEF Factor!IssueSession, Factor!Goto, Factor!ghosts
<1>9. ASSUME NEW w \in Work, Factor!SavePendingSecret(w)
      PROVE  Goal
  BY <1>9 DEF Factor!SavePendingSecret, Factor!Goto, Factor!ghosts
<1>10. ASSUME NEW w \in Work, Factor!SaveConfirmation(w)
      PROVE  Goal
  <2>1. row' = row \/ (row # Factor!NoRow /\ row' = [row EXCEPT !.enabled = TRUE])
    BY <1>10, ConfirmsSome
  <2> QED BY <2>1, <1>a DEF FactorRow
<1>11. ASSUME NEW w \in Work, Factor!DeleteCodes(w)
      PROVE  Goal
  BY <1>11 DEF Factor!DeleteCodes, Factor!Goto, Factor!ghosts
<1>12. ASSUME NEW w \in Work, Factor!ReplaceCodes(w)
      PROVE  Goal
  BY <1>12 DEF Factor!ReplaceCodes, Factor!Goto, Factor!ghosts
<1>13. ASSUME NEW w \in Work, Factor!Clear(w)
      PROVE  Goal
  BY <1>13 DEF Factor!Clear, Factor!Goto, Factor!ghosts
<1>14. ASSUME NEW w \in Work, Factor!Stop(w)
      PROVE  Goal
  BY <1>14 DEF Factor!Stop, Factor!Goto, Factor!ghosts
<1>15. ASSUME NEW w \in Work, NEW c \in Challenge, Factor!Claim(w, c)
      PROVE  Goal
  BY <1>15 DEF Factor!Claim, Factor!ghosts
<1>16. ASSUME NEW w \in Work, NEW kind \in Kind, Factor!Ask(w, kind)
      PROVE  Goal
  BY <1>16 DEF Factor!Ask, Factor!ghosts
<1>17. ASSUME NEW w \in Work, NEW secret \in 1..secrets, NEW d \in Steps,
             Factor!SpendCode(w, secret, now + d)
      PROVE  Goal
  <2>1. \/ row' = row
        \/ row # Factor!NoRow /\ row' = [row EXCEPT !.last = now + d]
    BY <1>17, SpendCodeDoes
  <2> QED BY <2>1, <1>a DEF FactorRow
<1>18. ASSUME NEW w \in Work, NEW code \in work[w].codes, Factor!SpendRecovery(w, code)
      PROVE  Goal
  BY <1>18 DEF Factor!SpendRecovery, Factor!Accept, Factor!Goto, Factor!ghosts
<1>19. ASSUME Factor!Tick
      PROVE  Goal
  BY <1>19 DEF Factor!Tick, Factor!ghosts
<1> QED
  BY <1>0, <1>1, <1>2, <1>3, <1>4, <1>5, <1>6, <1>7, <1>8, <1>9, <1>10, <1>11, <1>12,
      <1>13, <1>14, <1>15, <1>16, <1>17, <1>18, <1>19 DEF Factor!Next

LEMMA RightGrows ==
  ASSUME Factor!FactorAssumption, FInv, [Factor!Next]_Factor!vars
  PROVE  right' \in {right, right + 1}
<1>0. CASE UNCHANGED Factor!vars
  BY <1>0 DEF Factor!vars
<1> DEFINE Goal == right' \in {right, right + 1}
<1>1. ASSUME NEW w \in Work, Factor!Load(w)
      PROVE  Goal
  BY <1>1 DEF Factor!Load, Factor!Goto, Factor!ghosts
<1>2. ASSUME NEW w \in Work, Factor!Drop(w)
      PROVE  Goal
  BY <1>2 DEF Factor!Drop, Factor!Goto, Factor!ghosts
<1>3. ASSUME NEW w \in Work, Factor!Reserve(w)
      PROVE  Goal
  BY <1>3 DEF Factor!Reserve, Factor!Goto, Factor!ghosts
<1>4. ASSUME NEW w \in Work, Factor!Wrong(w)
      PROVE  Goal
  BY <1>4 DEF Factor!Wrong, Factor!Goto, Factor!ghosts
<1>5. ASSUME NEW w \in Work, Factor!ClearFailedAttempts(w)
      PROVE  Goal
  BY <1>5 DEF Factor!ClearFailedAttempts, Factor!Goto, Factor!ghosts
<1>6. ASSUME NEW w \in Work, Factor!RegisterFailure(w)
      PROVE  Goal
  BY <1>6 DEF Factor!RegisterFailure, Factor!Goto, Factor!ghosts
<1>7. ASSUME NEW w \in Work, Factor!Consume(w)
      PROVE  Goal
  BY <1>7 DEF Factor!Consume, Factor!Goto, Factor!ghosts
<1>8. ASSUME NEW w \in Work, Factor!IssueSession(w)
      PROVE  Goal
  BY <1>8 DEF Factor!IssueSession, Factor!Goto, Factor!ghosts
<1>9. ASSUME NEW w \in Work, Factor!SavePendingSecret(w)
      PROVE  Goal
  BY <1>9 DEF Factor!SavePendingSecret, Factor!Goto, Factor!ghosts
<1>10. ASSUME NEW w \in Work, Factor!SaveConfirmation(w)
      PROVE  Goal
  BY <1>10 DEF Factor!SaveConfirmation, Factor!Goto, Factor!ghosts
<1>11. ASSUME NEW w \in Work, Factor!DeleteCodes(w)
      PROVE  Goal
  BY <1>11 DEF Factor!DeleteCodes, Factor!Goto, Factor!ghosts
<1>12. ASSUME NEW w \in Work, Factor!ReplaceCodes(w)
      PROVE  Goal
  BY <1>12 DEF Factor!ReplaceCodes, Factor!Goto, Factor!ghosts
<1>13. ASSUME NEW w \in Work, Factor!Clear(w)
      PROVE  Goal
  BY <1>13 DEF Factor!Clear, Factor!Goto, Factor!ghosts
<1>14. ASSUME NEW w \in Work, Factor!Stop(w)
      PROVE  Goal
  BY <1>14 DEF Factor!Stop, Factor!Goto, Factor!ghosts
<1>15. ASSUME NEW w \in Work, NEW c \in Challenge, Factor!Claim(w, c)
      PROVE  Goal
  BY <1>15 DEF Factor!Claim, Factor!ghosts
<1>16. ASSUME NEW w \in Work, NEW kind \in Kind, Factor!Ask(w, kind)
      PROVE  Goal
  BY <1>16 DEF Factor!Ask, Factor!ghosts
<1>17. ASSUME NEW w \in Work, NEW secret \in 1..secrets, NEW d \in Steps,
             Factor!SpendCode(w, secret, now + d)
      PROVE  Goal
  BY <1>17 DEF Factor!SpendCode, Factor!Accept, Factor!Goto, Factor!ghosts
<1>18. ASSUME NEW w \in Work, NEW code \in work[w].codes, Factor!SpendRecovery(w, code)
      PROVE  Goal
  BY <1>18 DEF Factor!SpendRecovery, Factor!Accept, Factor!Goto, Factor!ghosts
<1>19. ASSUME Factor!Tick
      PROVE  Goal
  BY <1>19 DEF Factor!Tick, Factor!ghosts
<1> QED
  BY <1>0, <1>1, <1>2, <1>3, <1>4, <1>5, <1>6, <1>7, <1>8, <1>9, <1>10, <1>11, <1>12,
      <1>13, <1>14, <1>15, <1>16, <1>17, <1>18, <1>19 DEF Factor!Next

LEMMA LockReader ==
  ASSUME NEW z, Factor!FactorAssumption, FInv, [Factor!Next]_Factor!vars, z \in Work
  PROVE  /\ (work'[z].right = work[z].right \/ work'[z].right = right)
         /\ (work'[z].pc = "reserve" =>
              \/ /\ work[z].pc = "reserve" /\ work'[z].read = work[z].read
                 /\ work'[z].right = work[z].right
              \/ work'[z].read = row /\ row' = row /\ right' = right)
<1>a. work \in [Work -> AnswerRow]
  BY DEF FInv, FTyped
<1>0. CASE UNCHANGED Factor!vars
  BY <1>0, <1>a DEF Factor!vars
<1> DEFINE Goal ==
         /\ (work'[z].right = work[z].right \/ work'[z].right = right)
         /\ (work'[z].pc = "reserve" =>
              \/ /\ work[z].pc = "reserve" /\ work'[z].read = work[z].read
                 /\ work'[z].right = work[z].right
              \/ work'[z].read = row /\ row' = row /\ right' = right)
<1>1. ASSUME NEW w \in Work, Factor!Load(w)
      PROVE  Goal
  <2>1. CASE z # w
    BY <1>1, <2>1, <1>a DEF Factor!Load
  <2>2. CASE z = w
    BY <1>1, <2>2, <1>a DEF Factor!Load, Factor!ghosts, AnswerRow
  <2> QED BY <2>1, <2>2
<1>2. ASSUME NEW w \in Work, Factor!Drop(w)
      PROVE  Goal
  <2>1. CASE z # w
    BY <1>2, <2>1, <1>a DEF Factor!Drop, Factor!Goto
  <2>2. CASE z = w
    <3>1. /\ \E p \in {"refused"} : work'[z].pc = p
          /\ work'[z].right = work[z].right
      BY <1>2, <2>2, <1>a DEF AnswerRow, Factor!Drop, Factor!Goto
    <3> QED BY <3>1
  <2> QED BY <2>1, <2>2
<1>3. ASSUME NEW w \in Work, Factor!Reserve(w)
      PROVE  Goal
  <2>1. CASE z # w
    BY <1>3, <2>1, <1>a DEF Factor!Reserve, Factor!Goto
  <2>2. CASE z = w
    <3>1. /\ \E p \in {"failed", "check"} : work'[z].pc = p
          /\ work'[z].right = work[z].right
      BY <1>3, <2>2, <1>a DEF AnswerRow, Factor!Reserve, Factor!Goto
    <3> QED BY <3>1
  <2> QED BY <2>1, <2>2
<1>4. ASSUME NEW w \in Work, Factor!Wrong(w)
      PROVE  Goal
  <2>1. CASE z # w
    BY <1>4, <2>1, <1>a DEF Factor!Wrong, Factor!Goto
  <2>2. CASE z = w
    <3>1. /\ \E p \in {"failed"} : work'[z].pc = p
          /\ work'[z].right = work[z].right
      BY <1>4, <2>2, <1>a DEF AnswerRow, Factor!Wrong, Factor!Goto
    <3> QED BY <3>1
  <2> QED BY <2>1, <2>2
<1>5. ASSUME NEW w \in Work, Factor!ClearFailedAttempts(w)
      PROVE  Goal
  <2>1. CASE z # w
    BY <1>5, <2>1, <1>a DEF Factor!ClearFailedAttempts, Factor!Goto
  <2>2. CASE z = w
    <3>1. /\ \E p \in {"consume", "save", "delete"} : work'[z].pc = p
          /\ work'[z].right = work[z].right
      BY <1>5, <2>2, <1>a DEF AnswerRow, Factor!ClearFailedAttempts, Factor!Goto
    <3> QED BY <3>1
  <2> QED BY <2>1, <2>2
<1>6. ASSUME NEW w \in Work, Factor!RegisterFailure(w)
      PROVE  Goal
  <2>1. CASE z # w
    BY <1>6, <2>1, <1>a DEF Factor!RegisterFailure, Factor!Goto
  <2>2. CASE z = w
    <3>1. /\ \E p \in {"drop", "refused"} : work'[z].pc = p
          /\ work'[z].right = work[z].right
      BY <1>6, <2>2, <1>a DEF AnswerRow, Factor!RegisterFailure, Factor!Goto
    <3> QED BY <3>1
  <2> QED BY <2>1, <2>2
<1>7. ASSUME NEW w \in Work, Factor!Consume(w)
      PROVE  Goal
  <2>1. CASE z # w
    BY <1>7, <2>1, <1>a DEF Factor!Consume, Factor!Goto
  <2>2. CASE z = w
    <3>1. /\ \E p \in {"issue"} : work'[z].pc = p
          /\ work'[z].right = work[z].right
      BY <1>7, <2>2, <1>a DEF AnswerRow, Factor!Consume, Factor!Goto
    <3> QED BY <3>1
  <2> QED BY <2>1, <2>2
<1>8. ASSUME NEW w \in Work, Factor!IssueSession(w)
      PROVE  Goal
  <2>1. CASE z # w
    BY <1>8, <2>1, <1>a DEF Factor!IssueSession, Factor!Goto
  <2>2. CASE z = w
    <3>1. /\ \E p \in {"done"} : work'[z].pc = p
          /\ work'[z].right = work[z].right
      BY <1>8, <2>2, <1>a DEF AnswerRow, Factor!IssueSession, Factor!Goto
    <3> QED BY <3>1
  <2> QED BY <2>1, <2>2
<1>9. ASSUME NEW w \in Work, Factor!SavePendingSecret(w)
      PROVE  Goal
  <2>1. CASE z # w
    BY <1>9, <2>1, <1>a DEF Factor!SavePendingSecret, Factor!Goto
  <2>2. CASE z = w
    <3>1. /\ \E p \in {"done"} : work'[z].pc = p
          /\ work'[z].right = work[z].right
      BY <1>9, <2>2, <1>a DEF AnswerRow, Factor!SavePendingSecret, Factor!Goto
    <3> QED BY <3>1
  <2> QED BY <2>1, <2>2
<1>10. ASSUME NEW w \in Work, Factor!SaveConfirmation(w)
      PROVE  Goal
  <2>1. CASE z # w
    BY <1>10, <2>1, <1>a DEF Factor!SaveConfirmation, Factor!Goto
  <2>2. CASE z = w
    <3>1. /\ \E p \in {"done", "refused"} : work'[z].pc = p
          /\ work'[z].right = work[z].right
      BY <1>10, <2>2, <1>a DEF AnswerRow, Factor!SaveConfirmation, Factor!Goto
    <3> QED BY <3>1
  <2> QED BY <2>1, <2>2
<1>11. ASSUME NEW w \in Work, Factor!DeleteCodes(w)
      PROVE  Goal
  <2>1. CASE z # w
    BY <1>11, <2>1, <1>a DEF Factor!DeleteCodes, Factor!Goto
  <2>2. CASE z = w
    <3>1. /\ \E p \in {"write"} : work'[z].pc = p
          /\ work'[z].right = work[z].right
      BY <1>11, <2>2, <1>a DEF AnswerRow, Factor!DeleteCodes, Factor!Goto
    <3> QED BY <3>1
  <2> QED BY <2>1, <2>2
<1>12. ASSUME NEW w \in Work, Factor!ReplaceCodes(w)
      PROVE  Goal
  <2>1. CASE z # w
    BY <1>12, <2>1, <1>a DEF Factor!ReplaceCodes, Factor!Goto
  <2>2. CASE z = w
    <3>1. /\ \E p \in {"done"} : work'[z].pc = p
          /\ work'[z].right = work[z].right
      BY <1>12, <2>2, <1>a DEF AnswerRow, Factor!ReplaceCodes, Factor!Goto
    <3> QED BY <3>1
  <2> QED BY <2>1, <2>2
<1>13. ASSUME NEW w \in Work, Factor!Clear(w)
      PROVE  Goal
  <2>1. CASE z # w
    BY <1>13, <2>1, <1>a DEF Factor!Clear, Factor!Goto
  <2>2. CASE z = w
    <3>1. /\ \E p \in {"done"} : work'[z].pc = p
          /\ work'[z].right = work[z].right
      BY <1>13, <2>2, <1>a DEF AnswerRow, Factor!Clear, Factor!Goto
    <3> QED BY <3>1
  <2> QED BY <2>1, <2>2
<1>14. ASSUME NEW w \in Work, Factor!Stop(w)
      PROVE  Goal
  <2>1. CASE z # w
    BY <1>14, <2>1, <1>a DEF Factor!Stop, Factor!Goto
  <2>2. CASE z = w
    <3>1. /\ \E p \in {"stopped"} : work'[z].pc = p
          /\ work'[z].right = work[z].right
      BY <1>14, <2>2, <1>a DEF AnswerRow, Factor!Stop, Factor!Goto
    <3> QED BY <3>1
  <2> QED BY <2>1, <2>2
<1>15. ASSUME NEW w \in Work, NEW c \in Challenge, Factor!Claim(w, c)
      PROVE  Goal
  <2>1. CASE z # w
    BY <1>15, <2>1, <1>a DEF Factor!Claim, Factor!Goto
  <2>2. CASE z = w
    <3>1. /\ \E p \in {"load"} : work'[z].pc = p
          /\ work'[z].right = work[z].right
      BY <1>15, <2>2, <1>a DEF AnswerRow, Factor!Claim, Factor!Goto
    <3> QED BY <3>1
  <2> QED BY <2>1, <2>2
<1>16. ASSUME NEW w \in Work, NEW kind \in Kind, Factor!Ask(w, kind)
      PROVE  Goal
  <2>1. CASE z # w
    BY <1>16, <2>1, <1>a DEF Factor!Ask, Factor!Goto
  <2>2. CASE z = w
    <3>1. /\ \E p \in {"load"} : work'[z].pc = p
          /\ work'[z].right = work[z].right
      BY <1>16, <2>2, <1>a DEF AnswerRow, Factor!Ask, Factor!Goto
    <3> QED BY <3>1
  <2> QED BY <2>1, <2>2
<1>17. ASSUME NEW w \in Work, NEW secret \in 1..secrets, NEW d \in Steps,
             Factor!SpendCode(w, secret, now + d)
      PROVE  Goal
  <2> QED BY <1>17, SpendCodeDoes
<1>18. ASSUME NEW w \in Work, NEW code \in work[w].codes, Factor!SpendRecovery(w, code)
      PROVE  Goal
  <2> QED BY <1>18, SpendRecoveryDoes
<1>19. ASSUME Factor!Tick
      PROVE  Goal
  BY <1>19, <1>a DEF Factor!Tick, Factor!ghosts
<1> QED
  BY <1>0, <1>1, <1>2, <1>3, <1>4, <1>5, <1>6, <1>7, <1>8, <1>9, <1>10, <1>11, <1>12,
      <1>13, <1>14, <1>15, <1>16, <1>17, <1>18, <1>19 DEF Factor!Next

LEMMA LocksReadStep ==
  ASSUME NEW z, Factor!FactorAssumption, FInv, [Factor!Next]_Factor!vars, z \in Work
  PROVE  LockRead(z)'
<1>a. /\ LockRead(z) /\ right \in Nat /\ work \in [Work -> AnswerRow]
      /\ row \in FactorRow /\ right' \in {right, right + 1}
  BY RightGrows DEF FInv, FTyped, LocksRead
<1>b. work[z].right \in Nat /\ work[z].read \in FactorRow
  BY <1>a DEF AnswerRow
<1>c. row.failed \in Nat /\ work[z].read.failed \in Nat
  BY <1>a, <1>b DEF FactorRow
<1>1. work'[z].right <= right'
  BY <1>a, <1>b, LockReader DEF LockRead
<1>2. ASSUME work'[z].pc = "reserve", work'[z].right = right', row' # Factor!NoRow
      PROVE  /\ work'[z].read.failed <= row'.failed
             /\ work'[z].read.failed = row'.failed => work'[z].read.locked = row'.locked
  <2>1. CASE work'[z].read = row /\ row' = row
    BY <2>1, <1>c
  <2>2. CASE work[z].pc = "reserve" /\ work'[z].read = work[z].read
             /\ work'[z].right = work[z].right
    <3>1. work[z].right = right /\ right' = right
      BY <2>2, <1>2, <1>a, <1>b DEF LockRead
    <3>2. /\ row # Factor!NoRow
          /\ \/ row'.failed = row.failed /\ row'.locked = row.locked
             \/ row'.failed = row.failed + 1
      BY <3>1, <1>2, <1>a, CountDoes
    <3>3. /\ work[z].read.failed <= row.failed
          /\ work[z].read.failed = row.failed => work[z].read.locked = row.locked
      BY <2>2, <3>1, <3>2, <1>a DEF LockRead
    <3> QED BY <2>2, <3>2, <3>3, <1>c
  <2> QED BY <1>2, <2>1, <2>2, LockReader
<1> QED BY <1>1, <1>2 DEF LockRead

LEMMA LockDoes ==
  ASSUME Factor!FactorAssumption, FInv, [Factor!Next]_Factor!vars
  PROVE  (checked' = checked /\ since' = since /\ stale' = stale /\ now' >= now
           /\ (row' = Factor!NoRow
                \/ (row # Factor!NoRow /\ row'.failed = row.failed
                     /\ row'.locked = row.locked)))
         \/ (checked' = 0 /\ since' = now /\ now' = now
              /\ (row' = Factor!NoRow \/ row'.failed = 0))
         \/ \E z \in Work :
              /\ now' = now /\ since' = since /\ checked' = checked + 1
              /\ stale' = (stale \/ work[z].right # right)
              /\ work[z].pc = "reserve" /\ work[z].read.locked <= now
              /\ row # Factor!NoRow /\ row.failed = work[z].read.failed
              /\ row' = Factor!CountedTo(row.failed + 1)
<1>a. row \in FactorRow /\ work \in [Work -> AnswerRow]
  BY DEF FInv, FTyped
<1>b. now \in Nat
  BY DEF FInv, FTyped, Factor!FactorAssumption
<1>0. CASE UNCHANGED Factor!vars
  BY <1>0, <1>b DEF Factor!vars
<1> DEFINE Goal ==
         (checked' = checked /\ since' = since /\ stale' = stale /\ now' >= now
           /\ (row' = Factor!NoRow
                \/ (row # Factor!NoRow /\ row'.failed = row.failed
                     /\ row'.locked = row.locked)))
         \/ (checked' = 0 /\ since' = now /\ now' = now
              /\ (row' = Factor!NoRow \/ row'.failed = 0))
         \/ \E z \in Work :
              /\ now' = now /\ since' = since /\ checked' = checked + 1
              /\ stale' = (stale \/ work[z].right # right)
              /\ work[z].pc = "reserve" /\ work[z].read.locked <= now
              /\ row # Factor!NoRow /\ row.failed = work[z].read.failed
              /\ row' = Factor!CountedTo(row.failed + 1)
<1>1. ASSUME NEW w \in Work, Factor!Load(w)
      PROVE  Goal
  BY <1>1, <1>b DEF Factor!Load, Factor!Goto, Factor!ghosts
<1>2. ASSUME NEW w \in Work, Factor!Drop(w)
      PROVE  Goal
  BY <1>2, <1>b DEF Factor!Drop, Factor!Goto, Factor!ghosts
<1>3. ASSUME NEW w \in Work, Factor!Reserve(w)
      PROVE  Goal
  <2>1. work[w].read \in FactorRow
    BY <1>a DEF AnswerRow
  <2>2. work[w].read.locked \in Int
    BY <2>1 DEF FactorRow
  <2>3. CASE work[w].read.locked > now \/ ~Factor!CountStands(w)
    <3>1. UNCHANGED <<now, row, since, checked, stale>>
      BY <1>3, <2>3 DEF Factor!Reserve
    <3> QED BY <3>1, <1>b
  <2>4. CASE ~(work[w].read.locked > now \/ ~Factor!CountStands(w))
    <3>1. work[w].read.locked <= now
      BY <2>2, <2>4, <1>b
    <3>2. row # Factor!NoRow /\ row.failed = work[w].read.failed
      BY <2>4 DEF Factor!CountStands
    <3>3. /\ now' = now /\ since' = since /\ checked' = checked + 1
          /\ stale' = (stale \/ work[w].right # right) /\ work[w].pc = "reserve"
          /\ row' = Factor!CountedTo(work[w].read.failed + 1)
      BY <1>3, <2>4 DEF Factor!Reserve
    <3>4. row' = Factor!CountedTo(row.failed + 1)
      BY <3>2, <3>3
    <3> QED BY <3>1, <3>2, <3>3, <3>4
  <2> QED BY <2>3, <2>4
<1>4. ASSUME NEW w \in Work, Factor!Wrong(w)
      PROVE  Goal
  BY <1>4, <1>b DEF Factor!Wrong, Factor!Goto, Factor!ghosts
<1>5. ASSUME NEW w \in Work, Factor!ClearFailedAttempts(w)
      PROVE  Goal
  <2>1. /\ checked' = 0 /\ since' = now /\ now' = now
        /\ \/ row' = Factor!NoRow
           \/ row' = [row EXCEPT !.failed = 0, !.locked = 0]
    BY <1>5 DEF Factor!ClearFailedAttempts
  <2>2. row' = [row EXCEPT !.failed = 0, !.locked = 0] => row'.failed = 0
    BY <1>a DEF FactorRow
  <2> QED BY <2>1, <2>2
<1>6. ASSUME NEW w \in Work, Factor!RegisterFailure(w)
      PROVE  Goal
  BY <1>6, <1>b DEF Factor!RegisterFailure, Factor!Goto, Factor!ghosts
<1>7. ASSUME NEW w \in Work, Factor!Consume(w)
      PROVE  Goal
  BY <1>7, <1>b DEF Factor!Consume, Factor!Goto, Factor!ghosts
<1>8. ASSUME NEW w \in Work, Factor!IssueSession(w)
      PROVE  Goal
  BY <1>8, <1>b DEF Factor!IssueSession, Factor!Goto, Factor!ghosts
<1>9. ASSUME NEW w \in Work, Factor!SavePendingSecret(w)
      PROVE  Goal
  <2>1. /\ checked' = 0 /\ since' = now /\ now' = now
        /\ row' = [Factor!NoRow EXCEPT !.secret = secrets + 1]
    BY <1>9 DEF Factor!SavePendingSecret
  <2>2. row'.failed = 0
    BY <2>1 DEF Factor!NoRow
  <2> QED BY <2>1, <2>2
<1>10. ASSUME NEW w \in Work, Factor!SaveConfirmation(w)
      PROVE  Goal
  <2>1. row' = row \/ (row # Factor!NoRow /\ row' = [row EXCEPT !.enabled = TRUE])
    BY <1>10, ConfirmsSome
  <2>2. checked' = checked /\ since' = since /\ stale' = stale /\ now' = now
    BY <1>10 DEF Factor!SaveConfirmation, Factor!ghosts
  <2>3. row' = [row EXCEPT !.enabled = TRUE]
          => row'.failed = row.failed /\ row'.locked = row.locked
    BY <1>a DEF FactorRow
  <2> QED BY <2>1, <2>2, <2>3, <1>b
<1>11. ASSUME NEW w \in Work, Factor!DeleteCodes(w)
      PROVE  Goal
  BY <1>11, <1>b DEF Factor!DeleteCodes, Factor!Goto, Factor!ghosts
<1>12. ASSUME NEW w \in Work, Factor!ReplaceCodes(w)
      PROVE  Goal
  BY <1>12, <1>b DEF Factor!ReplaceCodes, Factor!Goto, Factor!ghosts
<1>13. ASSUME NEW w \in Work, Factor!Clear(w)
      PROVE  Goal
  BY <1>13, <1>b DEF Factor!Clear, Factor!Goto, Factor!ghosts
<1>14. ASSUME NEW w \in Work, Factor!Stop(w)
      PROVE  Goal
  BY <1>14, <1>b DEF Factor!Stop, Factor!Goto, Factor!ghosts
<1>15. ASSUME NEW w \in Work, NEW c \in Challenge, Factor!Claim(w, c)
      PROVE  Goal
  BY <1>15, <1>b DEF Factor!Claim, Factor!ghosts
<1>16. ASSUME NEW w \in Work, NEW kind \in Kind, Factor!Ask(w, kind)
      PROVE  Goal
  BY <1>16, <1>b DEF Factor!Ask, Factor!ghosts
<1>17. ASSUME NEW w \in Work, NEW secret \in 1..secrets, NEW d \in Steps,
             Factor!SpendCode(w, secret, now + d)
      PROVE  Goal
  <2>1. /\ checked' = checked /\ since' = since /\ stale' = stale /\ now' = now
        /\ row' = row \/ (row # Factor!NoRow /\ row' = [row EXCEPT !.last = now + d])
    BY <1>17, SpendCodeDoes
  <2>2. row' = [row EXCEPT !.last = now + d]
          => row'.failed = row.failed /\ row'.locked = row.locked
    BY <1>a DEF FactorRow
  <2> QED BY <2>1, <2>2, <1>b
<1>18. ASSUME NEW w \in Work, NEW code \in work[w].codes, Factor!SpendRecovery(w, code)
      PROVE  Goal
  BY <1>18, <1>b DEF Factor!SpendRecovery, Factor!Accept, Factor!Goto, Factor!ghosts
<1>19. ASSUME Factor!Tick
      PROVE  Goal
  BY <1>19, <1>b DEF Factor!Tick, Factor!ghosts
<1> QED
  BY <1>0, <1>1, <1>2, <1>3, <1>4, <1>5, <1>6, <1>7, <1>8, <1>9, <1>10, <1>11, <1>12,
      <1>13, <1>14, <1>15, <1>16, <1>17, <1>18, <1>19 DEF Factor!Next

LEMMA LockValues ==
  ASSUME Factor!FactorAssumption
  PROVE  FirstLock \in Nat /\ SecondLock \in Nat
<1>1. /\ Threshold # 0 /\ Threshold % Threshold = 0 /\ Threshold \div Threshold = 1
      /\ 2 * Threshold # 0 /\ (2 * Threshold) % Threshold = 0
      /\ (2 * Threshold) \div Threshold = 2
  BY DEF Factor!FactorAssumption
<1>2. 2^(1 - 1) = 1 /\ 2^(2 - 1) = 2
  OBVIOUS
<1>3. LockBase \in Nat /\ LockMax \in Nat
  BY DEF Factor!FactorAssumption
<1>6. LockBase * 2^((Threshold \div Threshold) - 1) = LockBase
  <2> DEFINE n == Threshold \div Threshold
  <2>1. n = 1
    BY <1>1
  <2> HIDE DEF n
  <2>2. 2^(n - 1) = 1
    BY <2>1, <1>2
  <2>3. LockBase * 2^(n - 1) = LockBase
    BY <2>2, <1>3
  <2> QED BY <2>3 DEF n
<1>4. FirstLock = IF LockBase < LockMax THEN LockBase ELSE LockMax
  BY <1>1, <1>6 DEF FirstLock, Factor!LockDuration
<1>5. SecondLock = IF LockBase * 2 < LockMax THEN LockBase * 2 ELSE LockMax
  BY <1>1, <1>2, <1>3 DEF SecondLock, Factor!LockDuration
<1> QED BY <1>3, <1>4, <1>5

LEMMA LockDatesStep ==
  ASSUME Factor!FactorAssumption, FInv, [Factor!Next]_Factor!vars
  PROVE  LockDatesSound'
<1> SUFFICES ASSUME ~stale'
             PROVE  /\ row' # Factor!NoRow =>
                         /\ checked' = row'.failed
                         /\ row'.failed = Threshold /\ FirstLock > 0 =>
                              row'.locked >= since' + FirstLock
                         /\ row'.failed = 2 * Threshold /\ SecondLock > 0 =>
                              row'.locked >= since' + FirstLock + SecondLock
                    /\ checked' > Threshold => now' >= since' + FirstLock
                    /\ checked' > 2 * Threshold => now' >= since' + FirstLock + SecondLock
  BY DEF LockDatesSound, FirstLock, SecondLock, Factor!LockDuration
<1>a. /\ now \in Nat /\ since \in Nat /\ since <= now /\ checked \in Nat /\ right \in Nat
      /\ now' \in Nat
      /\ row \in FactorRow /\ row' \in FactorRow /\ work \in [Work -> AnswerRow]
  BY RowTypedStep, CountsTypedStep DEF FInv, FTyped, Factor!FactorAssumption
<1>b. /\ row.failed \in Nat /\ row.locked \in Int /\ row'.failed \in Nat
           /\ row'.locked \in Int
  BY <1>a DEF FactorRow
<1>c. Threshold \in Nat /\ Threshold > 0 /\ FirstLock \in Nat /\ SecondLock \in Nat
  BY LockValues DEF Factor!FactorAssumption
<1>d. LockDatesSound /\ \A v \in Work : LockRead(v)
  BY DEF FInv, LocksRead
<1>1. CASE /\ checked' = checked /\ since' = since /\ stale' = stale /\ now' >= now
           /\ \/ row' = Factor!NoRow
              \/ /\ row # Factor!NoRow /\ row'.failed = row.failed
                 /\ row'.locked = row.locked
  BY <1>1, <1>a, <1>b, <1>c, <1>d DEF LockDatesSound
<1>2. CASE /\ checked' = 0 /\ since' = now /\ now' = now
           /\ row' = Factor!NoRow \/ row'.failed = 0
  BY <1>2, <1>a, <1>b, <1>c
<1>3. ASSUME NEW z \in Work, now' = now, since' = since, checked' = checked + 1,
             stale' = (stale \/ work[z].right # right), work[z].pc = "reserve",
             work[z].read.locked <= now, row # Factor!NoRow,
             row.failed = work[z].read.failed, row' = Factor!CountedTo(row.failed + 1)
      PROVE  /\ row' # Factor!NoRow =>
                  /\ checked' = row'.failed
                  /\ row'.failed = Threshold /\ FirstLock > 0 =>
                       row'.locked >= since' + FirstLock
                  /\ row'.failed = 2 * Threshold /\ SecondLock > 0 =>
                       row'.locked >= since' + FirstLock + SecondLock
             /\ checked' > Threshold => now' >= since' + FirstLock
             /\ checked' > 2 * Threshold => now' >= since' + FirstLock + SecondLock
  <2>1. ~stale /\ work[z].right = right
    BY <1>3
  <2>2. row.locked <= now
    BY <1>3, <2>1, <1>d DEF LockRead
  <2>3. /\ row'.failed = row.failed + 1
        /\ row'.locked = IF Factor!LockDuration(row.failed + 1) > 0
                         THEN now + Factor!LockDuration(row.failed + 1) ELSE 0
    BY <1>3, <1>a DEF Factor!CountedTo, FactorRow
  <2>4. /\ row.failed + 1 = Threshold /\ FirstLock > 0 => row'.locked = now + FirstLock
        /\ row.failed + 1 = 2 * Threshold /\ SecondLock > 0
             => row'.locked = now + SecondLock
    BY <2>3 DEF FirstLock, SecondLock
  <2>5. /\ checked = row.failed
        /\ row.failed = Threshold /\ FirstLock > 0 => row.locked >= since + FirstLock
        /\ row.failed = 2 * Threshold /\ SecondLock > 0 =>
             row.locked >= since + FirstLock + SecondLock
        /\ checked > Threshold => now >= since + FirstLock
        /\ checked > 2 * Threshold => now >= since + FirstLock + SecondLock
    BY <1>3, <2>1, <1>d DEF LockDatesSound
  <2>6. checked' > Threshold => now >= since + FirstLock
    BY <1>3, <2>2, <2>5, <1>a, <1>b, <1>c
  <2>7. checked' > 2 * Threshold => now >= since + FirstLock + SecondLock
    BY <1>3, <2>2, <2>5, <1>a, <1>b, <1>c
  <2>8. row'.failed = Threshold /\ FirstLock > 0 => row'.locked >= since + FirstLock
    BY <2>3, <2>4, <1>a, <1>b, <1>c
  <2>9. row'.failed = 2 * Threshold /\ SecondLock > 0 =>
          row'.locked >= since + FirstLock + SecondLock
    BY <1>3, <2>3, <2>4, <2>5, <2>6, <1>a, <1>b, <1>c
  <2> QED BY <1>3, <2>3, <2>5, <2>6, <2>7, <2>8, <2>9
<1> QED BY <1>1, <1>2, <1>3, LockDoes

LEMMA FStep ==
  ASSUME Factor!FactorAssumption, FInv, [Factor!Next]_Factor!vars
  PROVE  FInv'
<1>1. FTyped'
  <2>1. /\ row' \in FactorRow /\ chal' \in [Challenge -> ChallengeRow]
        /\ work' \in [Work -> AnswerRow]
    BY RowTypedStep, ChallengeTypedStep, AnswerTypedStep
  <2> QED BY <2>1, CountsTypedStep, AnswersTypedStep DEF FTyped
<1>2. KindsSound' /\ ClaimsCounted'
  BY KindsStep, ClaimsCountedStep DEF KindsSound, ClaimsCounted
<1>3. ChallengesHeld' /\ SessionsOfLogins' /\ AnswersTaken'
  BY ChallengesHeldStep, SessionsOfLoginsStep, AnswersTakenStep
     DEF ChallengesHeld, AnswersTaken
<1>4. AcceptedByAsked' /\ ConfirmedSound' /\ RecoverySound' /\ StepsSound'
  BY AcceptedByAskedStep, ConfirmedStep, RecoveryStep, StepsStep
<1>5. FailedSound' /\ LocksRead' /\ LockDatesSound'
  BY FailedStep, LocksReadStep, LockDatesStep DEF LocksRead
<1> QED BY <1>1, <1>2, <1>3, <1>4, <1>5 DEF FInv

LEMMA FirstRowTyped ==
  ASSUME NEW b \in BOOLEAN, NEW n \in Nat
  PROVE  [enabled |-> b, secret |-> n, last |-> None, failed |-> 0,
           locked |-> 0] \in FactorRow
<1>1. 0 \in Nat /\ 0 \in Int /\ None \in Int \cup {None}
  OBVIOUS
<1> QED BY <1>1 DEF FactorRow

LEMMA FInit ==
  ASSUME Factor!FactorAssumption, Factor!Init
  PROVE  FInv
<1>a. /\ MaxTime \in Nat /\ MaxAttempts \in Nat /\ ChallengeTtl \in Nat
      /\ Threshold \in Nat /\ Threshold > 0 /\ Confirmed \in BOOLEAN /\ IsFiniteSet(Work)
      /\ None \notin Work /\ None \notin Challenge
  BY DEF Factor!FactorAssumption, Factor!IsFiniteSet, IsFiniteSet
<1>b. /\ now = 0 /\ codes \subseteq {None} /\ secrets = 1 /\ accepted = {}
           /\ sessions = {}
      /\ right = 0 /\ checked = 0 /\ since = 0 /\ stale = FALSE
      /\ work = [w \in Work |-> Factor!NoWork]
      /\ chal = [c \in Challenge |-> Factor!Open]
      /\ row = [enabled |-> Confirmed, secret |-> 1, last |-> None, failed |-> 0,
           locked |-> 0]
  BY DEF Factor!Init, Factor!FirstRow, Factor!NoRow
<1>c. [enabled |-> FALSE, secret |-> 0, last |-> None, failed |-> 0,
        locked |-> 0] \in FactorRow
  BY FirstRowTyped
<1>d. Factor!NoWork \in AnswerRow
  <2> DEFINE r == Factor!NoRow
  <2>1. r \in FactorRow
    BY <1>c DEF Factor!NoRow
  <2>2. Factor!NoWork = [kind |-> "none", pc |-> "idle", chal |-> None, answer |-> None,
                          read |-> r, codes |-> {}, right |-> 0, doomed |-> {}]
    BY DEF Factor!NoWork
  <2> HIDE DEF r
  <2> QED BY <2>1, <2>2 DEF AnswerRow, FactorPc
<1>1. FTyped
  <2>1. row \in FactorRow
    BY <1>a, <1>b, FirstRowTyped
  <2>2. chal \in [Challenge -> ChallengeRow]
    BY <1>a, <1>b DEF ChallengeRow, Factor!Open
  <2>3. work \in [Work -> AnswerRow]
    BY <1>b, <1>d
  <2>4. now \in 0..MaxTime /\ since \in Nat /\ since <= now /\ stale \in BOOLEAN
    <3>1. now = 0 /\ since = 0 /\ stale = FALSE
      BY <1>b
    <3>2. MaxTime \in Nat
      BY <1>a
    <3>3. stale \in BOOLEAN
      BY <3>1
    <3> QED BY <3>1, <3>2, <3>3
  <2>5. /\ codes \subseteq Work \cup {None} /\ secrets \in Nat /\ right \in Nat
        /\ checked \in Nat /\ accepted \subseteq AcceptedRow /\ sessions \subseteq Work
    BY <1>b
  <2> QED BY <2>1, <2>2, <2>3, <2>4, <2>5 DEF FTyped
<1>e. \A w \in Work : work[w] = Factor!NoWork
  BY <1>b
<1>f. \A w \in Work : /\ work[w].kind = "none" /\ work[w].pc = "idle"
                      /\ work[w].chal = None /\ work[w].right = 0
  <2>1. /\ Factor!NoWork.kind = "none" /\ Factor!NoWork.pc = "idle"
        /\ Factor!NoWork.chal = None /\ Factor!NoWork.right = 0
    BY DEF Factor!NoWork
  <2> QED BY <1>e, <2>1
<1>2. KindsSound /\ ChallengesHeld /\ SessionsOfLogins /\ AnswersTaken
  <2>1. KindsSound
    BY <1>e, <1>f DEF KindsSound, KindSound
  <2>2. ChallengesHeld
    BY <1>f DEF ChallengesHeld, ChallengeHeld
  <2>3. SessionsOfLogins
    BY <1>b DEF SessionsOfLogins
  <2>4. AnswersTaken
    BY <1>b, <1>f DEF AnswersTaken, AnswerTaken
  <2> QED BY <2>1, <2>2, <2>3, <2>4
<1>3. ClaimsCounted
  BY <1>b DEF ClaimsCounted, ClaimedChallenge, Factor!Open
<1>4. AcceptedByAsked /\ RecoverySound /\ StepsSound
  BY <1>b DEF AcceptedByAsked, RecoverySound, StepsSound, Issued
<1>g. row.enabled = Confirmed /\ row.secret = 1 /\ row.failed = 0
  BY <1>b
<1>5. ConfirmedSound
  BY <1>g DEF ConfirmedSound
<1>6. FailedSound
  <2>1. Counting \subseteq Work
    BY DEF Counting
  <2>2. Cardinality(Counting) \in Nat
    BY <1>a, <2>1, FS_Subset, FS_CardinalityType
  <2> QED BY <1>g, <2>2 DEF FailedSound
<1>7. LocksRead
  <2>1. right = 0
    BY <1>b
  <2>2. ASSUME NEW w \in Work PROVE LockRead(w)
    <3>1. work[w].pc = "idle" /\ work[w].right = 0
      BY <1>f
    <3>2. work[w].right <= right
      BY <2>1, <3>1
    <3> QED BY <3>1, <3>2 DEF LockRead
  <2> QED BY <2>2 DEF LocksRead
<1>8. LockDatesSound
  BY <1>a, <1>b, <1>g DEF LockDatesSound
<1> QED BY <1>1, <1>2, <1>3, <1>4, <1>5, <1>6, <1>7, <1>8 DEF FInv

LEMMA FSafe ==
  ASSUME Factor!FactorAssumption, FInv
  PROVE  /\ Factor!TypeOK /\ Factor!OneSessionPerChallenge /\ Factor!ConfirmedWithItsCode
         /\ Factor!GuessesCostTime /\ ("setup" \notin Kind => Factor!AcceptedOnce)
<1>a. /\ FTyped /\ \A w \in Work : KindSound(w) /\ ChallengeHeld(w) /\ AnswerTaken(w)
  BY DEF FInv, KindsSound, ChallengesHeld, AnswersTaken
<1>b. /\ row \in FactorRow /\ accepted \subseteq AcceptedRow /\ sessions \subseteq Work
      /\ work \in [Work -> AnswerRow] /\ chal \in [Challenge -> ChallengeRow]
  BY <1>a DEF FTyped
<1>1. Factor!TypeOK
  <2>a. /\ IsFiniteSet(Work) /\ None \notin Challenge
        /\ \A S : Factor!Cardinality(S) = Cardinality(S)
    BY DEF Factor!FactorAssumption, Factor!IsFiniteSet, IsFiniteSet,
           Factor!Cardinality, Cardinality
  <2>1. row.failed \in 0..Factor!Cardinality(Work)
    <3>1. Counting \subseteq Work
      BY DEF Counting
    <3>2. /\ Cardinality(Counting) <= Cardinality(Work)
          /\ Cardinality(Counting) \in Nat /\ Cardinality(Work) \in Nat
      BY <2>a, <3>1, FS_Subset, FS_CardinalityType
    <3>3. row.failed \in Nat /\ row.failed <= Cardinality(Counting)
      BY <1>b DEF FInv, FailedSound, FactorRow
    <3> QED BY <2>a, <3>2, <3>3
  <2>2. ASSUME NEW c \in Challenge
        PROVE  /\ chal[c].attempts \in 0..MaxAttempts
               /\ Factor!Cardinality({w \in Work : work[w].chal = c /\ work[w].pc \notin
                    {"refused", "done", "stopped", "drop", "issue"}}) <= 1
    <3> DEFINE S == {w \in Work : work[w].chal = c /\ work[w].pc \notin
                       {"refused", "done", "stopped", "drop", "issue"}}
    <3>1. chal[c].attempts \in 0..MaxAttempts
      BY <1>b DEF ChallengeRow
    <3>2. \A w \in S : work[w].kind = "login" /\ work[w].pc \in Answering
      BY <1>a, <2>a DEF KindSound, Finished
    <3>3. \A v, w \in S : v = w
      BY <1>a, <3>2 DEF ChallengeHeld
    <3>4. Cardinality(S) <= 1
      <4>1. CASE S = {}
        BY <4>1, FS_EmptySet
      <4>2. ASSUME NEW x \in S
            PROVE  Cardinality(S) <= 1
        <5>1. S = {x}
          BY <3>3
        <5>2. Cardinality({x}) = 1
          BY FS_Singleton
        <5> QED BY <5>1, <5>2
      <4> QED BY <4>1, <4>2
    <3> QED BY <2>a, <3>1, <3>4
  <2>3. now \in 0..MaxTime
    BY <1>a DEF FTyped
  <2> QED BY <2>1, <2>2, <2>3 DEF Factor!TypeOK
<1>2. Factor!OneSessionPerChallenge
  <2>1. \A w \in sessions : w \in Work /\ work[w].kind = "login"
    BY <1>b DEF FInv, SessionsOfLogins
  <2> QED
      BY <1>a, <2>1
         DEF Factor!OneSessionPerChallenge, ChallengeHeld, AnswerTaken, AcceptedFor
<1>3. Factor!ConfirmedWithItsCode
  BY DEF FInv, ConfirmedSound, Factor!ConfirmedWithItsCode
<1>4. Factor!GuessesCostTime
  <2>1. /\ now \in Nat /\ since \in Nat /\ checked \in Nat /\ Threshold \in Nat
        /\ FirstLock \in Nat /\ SecondLock \in Nat
    BY <1>a, LockValues DEF FTyped, Factor!FactorAssumption
  <2>2. \/ stale
        \/ /\ checked > Threshold => now >= since + FirstLock
           /\ checked > 2 * Threshold => now >= since + FirstLock + SecondLock
    BY DEF FInv, LockDatesSound
  <2>3. \/ stale \/ checked <= Threshold
        \/ now >= since + (IF checked <= 2 * Threshold THEN FirstLock
                           ELSE FirstLock + SecondLock)
    BY <2>1, <2>2
  <2> QED BY <2>3 DEF Factor!GuessesCostTime, FirstLock, SecondLock
<1>5. "setup" \notin Kind => Factor!AcceptedOnce
  BY <1>b DEF FInv, RecoverySound, StepsSound, Factor!AcceptedOnce, AcceptedRow
<1> QED BY <1>1, <1>2, <1>3, <1>4, <1>5

(* The second factor of one account (TwoFactorLoginService,                *)
(* TwoFactorVerificationService, TwoFactorService and their stores), for   *)
(* any requests at once: a challenge is held by one request and gives one  *)
(* session, to one whose answer was accepted; a factor that is on was      *)
(* confirmed with a code of its own secret; and looking at answers costs   *)
(* the time of the locks.                                                  *)
THEOREM FactorSafe ==
  ASSUME Factor!FactorAssumption
  PROVE  Factor!Spec =>
           [](/\ Factor!TypeOK /\ Factor!OneSessionPerChallenge
              /\ Factor!ConfirmedWithItsCode /\ Factor!GuessesCostTime)
<1>1. Factor!Init => FInv
  BY FInit
<1>2. FInv /\ [Factor!Next]_Factor!vars => FInv'
  BY FStep
<1>3. FInv => /\ Factor!TypeOK /\ Factor!OneSessionPerChallenge
              /\ Factor!ConfirmedWithItsCode /\ Factor!GuessesCostTime
  BY FSafe
<1> QED BY <1>1, <1>2, <1>3, PTL DEF Factor!Spec

(* An authenticator code of a step, and a recovery code, is accepted once  *)
(* (spendPostgresTotpStep, spendRecovery), and a challenge gives one       *)
(* session, where no request sets the factor up anew: a code of the secret *)
(* before is not compared with what that secret had spent.                 *)
THEOREM AnswersAcceptedOnce ==
  ASSUME Factor!FactorAssumption, "setup" \notin Kind
  PROVE  Factor!Spec => [](Factor!AnsweredOnce /\ AnsweredOnce)
<1>1. Factor!Init => FInv
  BY FInit
<1>2. FInv /\ [Factor!Next]_Factor!vars => FInv'
  BY FStep
<1>3. FInv => Factor!AnsweredOnce /\ AnsweredOnce
  BY FSafe DEF Factor!AnsweredOnce, AnsweredOnce
<1> QED BY <1>1, <1>2, <1>3, PTL DEF Factor!Spec
=============================================================================
