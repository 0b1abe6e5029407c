---------------------------- MODULE PendingCodes ----------------------------
(***************************************************************************)
(* Mailed codes of one address and purpose: MailCounterService,            *)
(* PendingRegistrationIssuer, VerificationCodeService and the guess lock,  *)
(* on the rows of mail_counters and pending_registrations.                 *)
(*                                                                         *)
(* Every statement of a store is a step; each works with the clock its     *)
(* call read before, so calls overtake each other and clocks are old when  *)
(* used.  A code is named by the request that made it.                     *)
(***************************************************************************)
EXTENDS Integers, FiniteSets

CONSTANTS
  Issue,         \* requests and resends of a code, each with its own code
  Guess,         \* callers that submit codes, one after the other
  Window,        \* mailedCodeWindowMs, in ticks
  MailLimit,     \* MAILED_CODE_LIMIT_PER_ADDRESS
  ExpiresIn,     \* activation.codeExpiresIn
  MaxAttempts,   \* activation.maxAttempts
  Limit, LockBase, LockMax, MaxLevel, Memory, \* CODE_GUESS_RULE
  Passes,        \* PENDING_STORE_PASSES
  Slow,          \* longest time between reading the clock and a statement
  MaxGuesses,    \* guesses a run counts
  MaxTime

CodesAssumption ==
  /\ {Window, MailLimit, ExpiresIn, MaxAttempts, Limit, LockBase, LockMax,
      MaxLevel, Memory, Passes, Slow, MaxTime} \subseteq Nat
  /\ Limit > 0 /\ LockBase > 0 /\ IsFiniteSet(Guess)

VARIABLES
  now,
  row,       \* the counter: mails in their window, guesses and their lock
  rec,       \* the pending registration
  issue,     \* requests for a code
  guess,     \* codes being checked
  mails,     \* history: when codes were mailed
  counted,   \* history: guesses counted since the last success
  compared   \* history: per code, how often it was compared

vars == <<now, row, rec, issue, guess, mails, counted, compared>>

Larger(a, b) == IF a > b THEN a ELSE b
Smaller(a, b) == IF a < b THEN a ELSE b

(* No row, and no record.  A mail window of a row a guess made is over.    *)
NoRow == [st |-> "none", mailed |-> 0, started |-> -Window, exp |-> 0,
          failed |-> 0, level |-> 0, locked |-> 0, memory |-> 0]
NoRec == [st |-> "none", code |-> "none", attempts |-> 0, exp |-> 0]

Init ==
  /\ now = 0 /\ row = NoRow /\ rec = NoRec
  /\ issue = [i \in Issue |-> [pc |-> "idle", at |-> 0, resend |-> FALSE,
                               pass |-> 0]]
  /\ guess = [g \in Guess |-> [pc |-> "idle", at |-> 0, tried |-> "none",
                               code |-> "none"]]
  /\ mails = {} /\ counted = 0 /\ compared = [i \in Issue |-> 0]

(***************************************************************************)
(* Requests: the mail counter.                                             *)
(***************************************************************************)

GotoI(i, pc) == issue' = [issue EXCEPT ![i].pc = pc]
RolledOver(at) == row.started <= at - Window

Ask(i, resend) ==
  /\ issue[i].pc = "idle"
  /\ issue' = [issue EXCEPT ![i] = [pc |-> "record", at |-> now,
                                    resend |-> resend, pass |-> 1]]
  /\ UNCHANGED <<now, row, rec, guess, mails, counted, compared>>

(* Fault: the row is kept for the mail window only. *)
RecordedForWindow(at) ==
  [row EXCEPT !.mailed = IF RolledOver(at) THEN 1 ELSE @ + 1,
              !.started = IF RolledOver(at) THEN at ELSE @,
              !.exp = (IF RolledOver(at) THEN at ELSE row.started) + Window]

(* The row after one more mail.                                            *)
Recorded(at) ==
  [row EXCEPT !.mailed = IF RolledOver(at) THEN 1 ELSE @ + 1,
              !.started = IF RolledOver(at) THEN at ELSE @,
              !.exp = Larger((IF RolledOver(at) THEN at ELSE row.started)
                               + Window, row.memory)]

(* Fault: a request that finds a row is let through. *)
RoomAlways(at) == row.st = "row"

(* Is there a row, and room in its window. *)
Room(at) == row.st = "row" /\ (RolledOver(at) \/ row.mailed < MailLimit)

RecordWithinCap(i) ==
  LET at == issue[i].at IN
  /\ issue[i].pc = "record"
  /\ IF Room(at) THEN row' = Recorded(at) /\ GotoI(i, "generate")
     ELSE GotoI(i, "counter") /\ UNCHANGED row
  /\ UNCHANGED <<now, rec, guess, mails, counted, compared>>

HasCounter(i) ==
  /\ issue[i].pc = "counter"
  /\ GotoI(i, IF row.st = "row" THEN "refused" ELSE "open")
  /\ UNCHANGED <<now, row, rec, guess, mails, counted, compared>>

(* A row that came meanwhile sends the request around, or away.            *)
OpenCounter(i) ==
  /\ issue[i].pc = "open"
  /\ IF row.st = "none"
     THEN /\ GotoI(i, "generate")
          /\ row' = [NoRow EXCEPT !.st = "row", !.mailed = 1,
                       !.started = issue[i].at, !.exp = issue[i].at + Window]
     ELSE /\ issue' = IF issue[i].pass < Passes
                      THEN [issue EXCEPT ![i].pc = "record", ![i].pass = @ + 1]
                      ELSE [issue EXCEPT ![i].pc = "refused"]
          /\ UNCHANGED row
  /\ UNCHANGED <<now, rec, guess, mails, counted, compared>>

(***************************************************************************)
(* Requests: the record.                                                   *)
(***************************************************************************)

Stored(i) == [st |-> "rec", code |-> i, attempts |-> 0,
              exp |-> issue[i].at + ExpiresIn]
Mail(i) == GotoI(i, "mailed") /\ mails' = mails \cup {<<i, now>>}

(* newGeneration: the code is hashed, then the clock is read again.        *)
NewGeneration(i) ==
  /\ issue[i].pc = "generate"
  /\ issue' = [issue EXCEPT ![i].pc = "rotate", ![i].at = now, ![i].pass = 1]
  /\ UNCHANGED <<now, row, rec, guess, mails, counted, compared>>

RotateLiveCode(i) ==
  /\ issue[i].pc = "rotate"
  /\ IF rec.st = "rec" /\ rec.exp > issue[i].at
     THEN Mail(i) /\ rec' = Stored(i)
     ELSE GotoI(i, IF issue[i].resend THEN "has" ELSE "replace")
          /\ UNCHANGED <<rec, mails>>
  /\ UNCHANGED <<now, row, guess, counted, compared>>

ReplaceExpiredCode(i) ==
  /\ issue[i].pc = "replace"
  /\ IF rec.st = "rec" /\ rec.exp <= issue[i].at
     THEN Mail(i) /\ rec' = Stored(i)
     ELSE GotoI(i, "has") /\ UNCHANGED <<rec, mails>>
  /\ UNCHANGED <<now, row, guess, counted, compared>>

HasRecord(i) ==
  /\ issue[i].pc = "has"
  /\ GotoI(i, CASE rec.st = "rec" /\ issue[i].resend -> "drop"
                [] rec.st = "rec" -> "left"
                [] issue[i].resend -> "absent"
                [] OTHER -> "insert")
  /\ UNCHANGED <<now, row, rec, guess, mails, counted, compared>>

DropExpired(at) == rec' = IF rec.exp <= at THEN NoRec ELSE rec

DropRecord(i) ==
  /\ issue[i].pc = "drop"
  /\ DropExpired(issue[i].at)
  /\ GotoI(i, "absent")
  /\ UNCHANGED <<now, row, guess, mails, counted, compared>>

InsertRecord(i) ==
  /\ issue[i].pc = "insert"
  /\ IF rec.st = "none" THEN Mail(i) /\ rec' = Stored(i)
     ELSE /\ issue' = IF issue[i].pass < Passes
                      THEN [issue EXCEPT ![i].pc = "rotate", ![i].pass = @ + 1]
                      ELSE [issue EXCEPT ![i].pc = "failed"]
          /\ UNCHANGED <<rec, mails>>
  /\ UNCHANGED <<now, row, guess, counted, compared>>

(***************************************************************************)
(* Checking a code.                                                        *)
(***************************************************************************)

GotoG(g, pc) == guess' = [guess EXCEPT ![g].pc = pc]

(* A caller submits a code that was mailed, or another.                    *)
VerifyCode(g, c) ==
  /\ guess[g].pc = "idle"
  /\ c # "wrong" => issue[c].pc = "mailed"
  /\ guess' = [guess EXCEPT ![g] = [pc |-> "reserve", at |-> now, tried |-> c,
                                    code |-> "none"]]
  /\ UNCHANGED <<now, row, rec, issue, mails, counted, compared>>

(* Fault: attempts are counted and not limited. *)
AttemptLeftAlways(at) == rec.st = "rec" /\ rec.exp > at

AttemptLeft(at) ==
  rec.st = "rec" /\ rec.exp > at /\ rec.attempts < MaxAttempts

(* reserveAttempt's first statement. *)
ReserveAttempt(g) ==
  /\ guess[g].pc = "reserve"
  /\ IF AttemptLeft(guess[g].at)
     THEN /\ rec' = [rec EXCEPT !.attempts = @ + 1]
          /\ guess' = [guess EXCEPT ![g].pc = "guess", ![g].code = rec.code]
     ELSE GotoG(g, "drop") /\ UNCHANGED rec
  /\ UNCHANGED <<now, row, issue, mails, counted, compared>>

Remembered(at) == row.memory > at
Locked(at) == Remembered(at) /\ row.locked > at

(* The length of the lock after `level` earlier ones. *)
LockFor(level) == Smaller(LockBase * 2^level, LockMax)

(* Fault: a lock is forgotten as soon as it is over. *)
CountedForgetful(at) ==
  LET failed == IF Remembered(at) THEN row.failed ELSE 0
      locks == failed + 1 >= Limit
      end == IF locks THEN at + LockFor(0) ELSE at
  IN [row EXCEPT !.st = "row",
                 !.failed = IF locks THEN 0 ELSE failed + 1,
                 !.locked = IF locks THEN end ELSE 0,
                 !.memory = end + Memory,
                 !.exp = Larger(row.exp, end + Memory)]

(* The row after one more guess, on a new row too.                         *)
Counted(at) ==
  LET failed == IF Remembered(at) THEN row.failed ELSE 0
      level == IF Remembered(at) THEN row.level ELSE 0
      locks == failed + 1 >= Limit
      end == IF locks THEN at + LockFor(level) ELSE at
  IN [row EXCEPT !.st = "row",
                 !.failed = IF locks THEN 0 ELSE failed + 1,
                 !.level = IF locks THEN Smaller(level + 1, MaxLevel) ELSE level,
                 !.locked = IF locks THEN end ELSE 0,
                 !.memory = end + Memory,
                 !.exp = Larger(row.exp, end + Memory)]

(* Its second statement counts the guess, and the code is compared.        *)
ReserveGuess(g) ==
  /\ guess[g].pc = "guess"
  /\ IF Locked(guess[g].at)
     THEN GotoG(g, "drop") /\ UNCHANGED <<row, counted, compared>>
     ELSE /\ counted < MaxGuesses
          /\ row' = Counted(guess[g].at)
          /\ counted' = counted + 1
          /\ compared' = [compared EXCEPT ![guess[g].code] = @ + 1]
          /\ GotoG(g, IF guess[g].tried = guess[g].code THEN "consume"
                      ELSE "idle")
  /\ UNCHANGED <<now, rec, issue, mails>>

(* dropExpiredRecord, and the shared failure. *)
Refuse(g) ==
  /\ guess[g].pc = "drop"
  /\ DropExpired(guess[g].at)
  /\ GotoG(g, "idle")
  /\ UNCHANGED <<now, row, issue, mails, counted, compared>>

(* Fault: the record is found by its id. *)
ClaimableById(g) == rec.st = "rec" /\ rec.exp > now

(* claimCode matches the generation that was compared. *)
Claimable(g) == rec.st = "rec" /\ rec.code = guess[g].code /\ rec.exp > now

(* The unit of work that spends the code and forgets the guesses, and that *)
(* is rolled back with the account it should make.                         *)
ConsumeCode(g, account) ==
  /\ guess[g].pc = "consume"
  /\ GotoG(g, "idle")
  /\ IF account /\ Claimable(g)
     THEN /\ rec' = NoRec /\ counted' = 0
          /\ row' = IF row.st = "none" THEN row
                    ELSE [row EXCEPT !.failed = 0, !.level = 0, !.locked = 0,
                                     !.memory = 0]
     ELSE UNCHANGED <<rec, row, counted>>
  /\ UNCHANGED <<now, issue, mails, compared>>

(***************************************************************************)
(* Time.                                                                   *)
(***************************************************************************)

RemoveRow ==
  /\ row.st = "row" /\ row.exp <= now
  /\ row' = NoRow
  /\ UNCHANGED <<now, rec, issue, guess, mails, counted, compared>>

RemoveRecord ==
  /\ rec.st = "rec" /\ rec.exp <= now
  /\ rec' = NoRec
  /\ UNCHANGED <<now, row, issue, guess, mails, counted, compared>>

Ended == {"idle", "mailed", "refused", "left", "absent", "failed"}

Tick ==
  /\ now < MaxTime /\ now' = now + 1
  /\ \A i \in Issue : issue[i].pc \notin Ended => now - issue[i].at < Slow
  /\ \A g \in Guess : guess[g].pc # "idle" => now - guess[g].at < Slow
  /\ UNCHANGED <<row, rec, issue, guess, mails, counted, compared>>

Next ==
  \/ \E i \in Issue :
       \/ \E resend \in BOOLEAN : Ask(i, resend)
       \/ RecordWithinCap(i) \/ HasCounter(i) \/ OpenCounter(i)
       \/ NewGeneration(i) \/ RotateLiveCode(i) \/ ReplaceExpiredCode(i)
       \/ HasRecord(i) \/ DropRecord(i) \/ InsertRecord(i)
  \/ \E g \in Guess :
       \/ \E c \in Issue \cup {"wrong"} : VerifyCode(g, c)
       \/ ReserveAttempt(g) \/ ReserveGuess(g) \/ Refuse(g)
       \/ \E account \in BOOLEAN : ConsumeCode(g, account)
  \/ RemoveRow \/ RemoveRecord \/ Tick

Spec == Init /\ [][Next]_vars

(***************************************************************************)
(* Properties.                                                             *)
(***************************************************************************)

(* Types; a code is compared no more often than attempts are allowed.      *)
TypeOK ==
  /\ now \in 0..MaxTime /\ row.st \in {"none", "row"} /\ row.level <= MaxLevel
  /\ rec.st \in {"none", "rec"} /\ rec.code \in Issue \cup {"none"}
  /\ \A i \in Issue : compared[i] <= MaxAttempts

(* Retention takes nothing that is still needed: the row stays for the     *)
(* window of its mails and for the memory of its guesses, whichever of the *)
(* two was written last.                                                   *)
RowKeptLongEnough ==
  row.st = "row" =>
    /\ row.exp >= row.memory
    /\ row.mailed > 0 => row.exp >= row.started + Window

(* The cap on mails: in any window, shortened by what a call may take, at  *)
(* most twice the limit is mailed, with removals, new rows made by guesses *)
(* and requests that overtake each other.                                  *)
MailsAreCapped ==
  \A t \in 0..MaxTime :
    Cardinality({m \in mails : m[2] >= t /\ m[2] < t + Window - 2 * Slow})
      <= 2 * MailLimit

(* Wrong codes cost time: more than k times the limit is not counted       *)
(* before k locks, each twice the one before, have passed - less what the  *)
(* calls may take - however many codes were asked for meanwhile and        *)
(* whatever was removed.                                                   *)
GuessesCostTime ==
  /\ counted > Limit => now >= LockFor(0) - Slow
  /\ counted > 2 * Limit => now >= LockFor(0) + LockFor(1) - 2 * Slow
  /\ counted > 3 * Limit => now >= LockFor(0) + LockFor(1) + LockFor(2) - 3 * Slow

(* A code is consumed as it was compared: it was mailed, nothing newer was *)
(* stored for the address, and nobody consumed it before.                  *)
OnlyCurrentCode ==
  \A g \in Guess :
    (guess[g].pc = "consume" /\ rec.st = "rec" /\ rec'.st = "none"
       /\ guess'[g].pc = "idle")
    => rec.code = guess[g].tried

(* tryRecord, on what is left when nothing could be recorded: "A counter   *)
(* that is left is full inside its window."                                *)
RefusedMeansFull ==
  \A i \in Issue :
    (issue[i].pc = "counter" /\ issue'[i].pc = "refused")
    => row.mailed >= MailLimit /\ ~RolledOver(issue[i].at)

(* issue, on what is left when nothing was rotated: "A record that is left *)
(* is expired."                                                            *)
LeftRecordIsExpired ==
  \A i \in Issue :
    (issue[i].pc = "has" /\ issue'[i].pc \in {"left", "drop"})
    => rec.exp <= issue[i].at
=============================================================================
