--------------------------- MODULE MCNativeSignIn ---------------------------
(***************************************************************************)
(* NativeAttempts and CodeExchange for TLC.  Each instance below or in     *)
(* CodePromises is a case of one of them; a behaviour is of the case its   *)
(* first state picks, and the variables that the case has no use for stay  *)
(* None.                                                                   *)
(***************************************************************************)
EXTENDS CodePromises, Integers, FiniteSets, TLC

CONSTANTS Cases, w1, w2, w3, w4, u1, u2, t1, t2, j1

VARIABLES att, mailed, recovery, codes, resets

vars == <<case, now, acct, app, grant, work, changes, withdrawn,
          att, mailed, recovery, codes, resets, txn, sessions, proofIds>>

ofAttempts == <<att, mailed, recovery, codes, resets>>
ofCodes == <<txn, sessions, proofIds>>

NoAttempts == att = None /\ mailed = None /\ recovery = None /\ codes = None /\ resets = None
NoCodes == txn = None /\ sessions = None /\ proofIds = None

Sym == Permutations({w1, w2, w3, w4})

(***************************************************************************)
(* Attempts.                                                               *)
(***************************************************************************)

(* The password of an account that has a second factor, or of another. *)
Passwords == INSTANCE NativeAttempts WITH
  Work <- {w1, w2, w3, w4}, Kind <- {"password", "factor", "consent", "cancel"},
  User <- {u1}, Registered <- {u1}, WithFactor <- {u1}, Flow <- "signIn",
  Lifetime <- 1, MailLifetime <- 2, ReplyLifetime <- 1, GuessLimit <- 2, Passes <- 2,
  MaxTime <- 1, MaxChanges <- 1
Accounts == INSTANCE NativeAttempts WITH
  Work <- {w1, w2, w3}, Kind <- {"password", "factor", "consent", "cancel"},
  User <- {u1, u2}, Registered <- {u1, u2}, WithFactor <- {u1}, Flow <- "signIn",
  Lifetime <- 1, MailLifetime <- 2, ReplyLifetime <- 1, GuessLimit <- 2, Passes <- 2,
  MaxTime <- 1, MaxChanges <- 1

(* Codes and links to two addresses, of which one has no account. *)
Mails == INSTANCE NativeAttempts WITH
  Work <- {w1, w2, w3}, Kind <- {"mail", "code", "link", "cancel"},
  User <- {u1, u2}, Registered <- {u1}, WithFactor <- {}, Flow <- "signIn",
  Lifetime <- 2, MailLifetime <- 2, ReplyLifetime <- 1, GuessLimit <- 2, Passes <- 2,
  MaxTime <- 2, MaxChanges <- 1

(* A registration of an address. *)
Registration == INSTANCE NativeAttempts WITH
  Work <- {w1, w2, w3, w4}, Kind <- {"mail", "code", "cancel"},
  User <- {u1}, Registered <- {}, WithFactor <- {}, Flow <- "registration",
  Lifetime <- 2, MailLifetime <- 2, ReplyLifetime <- 1, GuessLimit <- 2, Passes <- 2,
  MaxTime <- 2, MaxChanges <- 1

(* A recovery, also of an address that has no account. *)
Recovery == INSTANCE NativeAttempts WITH
  Work <- {w1, w2, w3}, Kind <- {"mail", "code", "cancel"},
  User <- {u1, u2}, Registered <- {u1}, WithFactor <- {}, Flow <- "recovery",
  Lifetime <- 2, MailLifetime <- 2, ReplyLifetime <- 1, GuessLimit <- 2, Passes <- 2,
  MaxTime <- 2, MaxChanges <- 1

(***************************************************************************)
(* Authorization codes.                                                    *)
(***************************************************************************)

(* Answers has two accounts that answer one transaction.  In Exchange      *)
(* (CodePromises) an account with room for one session exchanges the codes *)
(* of two.                                                                 *)
Answers == INSTANCE CodeExchange WITH
  Work <- {w1, w2, w3}, User <- {u1, u2}, Txn <- {t1}, ProofId <- {},
  MaxSessions <- 1, PendingLifetime <- 1, CodeLifetime <- 1, MaxTime <- 1, MaxChanges <- 1

ASSUME /\ Passwords!AttemptAssumption /\ Accounts!AttemptAssumption
       /\ Mails!AttemptAssumption /\ Registration!AttemptAssumption
       /\ Recovery!AttemptAssumption
       /\ Answers!ExchangeAssumption /\ Exchange!ExchangeAssumption

Init ==
  /\ case \in Cases
  /\ \/ /\ NoCodes
        /\ \/ case = "passwords" /\ Passwords!Init
           \/ case = "accounts" /\ Accounts!Init
           \/ case = "mails" /\ Mails!Init
           \/ case = "registration" /\ Registration!Init
           \/ case = "recovery" /\ Recovery!Init
     \/ /\ NoAttempts
        /\ \/ case = "answers" /\ Answers!Init
           \/ case = "exchanges" /\ Exchange!Init

Next ==
  /\ UNCHANGED case
  /\ \/ /\ UNCHANGED ofCodes
        /\ \/ case = "passwords" /\ Passwords!Next
           \/ case = "accounts" /\ Accounts!Next
           \/ case = "mails" /\ Mails!Next
           \/ case = "registration" /\ Registration!Next
           \/ case = "recovery" /\ Recovery!Next
     \/ /\ UNCHANGED ofAttempts
        /\ \/ case = "answers" /\ Answers!Next
           \/ case = "exchanges" /\ Exchange!Next

Spec == Init /\ [][Next]_vars

(***************************************************************************)
(* Properties, each in the case that is made for it; CodePromises has      *)
(* another.                                                                *)
(***************************************************************************)

(* An attempt goes forward: what ended stays as it is, and the account     *)
(* that was verified stays the one (native-attempt.service release,        *)
(* transition).                                                            *)
Forward == [][/\ case = "passwords" => Passwords!Forward
              /\ case = "accounts" => Accounts!Forward]_vars

(* Types; an attempt gives one code, for the account that was verified,    *)
(* with the second factor it owed and the authority its credentials had    *)
(* (approveVerifiedIn); a cancelled one gives no code and changes no       *)
(* password (cancel); and a transaction that two accounts answer has one   *)
(* answer, a code or a denial (NativeAuthorizeBrowserService.deny).        *)
OneEarnedCode ==
  /\ case = "passwords" => /\ Passwords!TypeOK /\ Passwords!OneEarnedCode
                           /\ Passwords!CancelledGivesNothing
  /\ case = "accounts" => Accounts!TypeOK /\ Accounts!OneEarnedCode
  /\ case = "recovery" => Recovery!CancelledGivesNothing
  /\ case = "answers" => /\ Answers!TypeOK /\ Answers!OneAnswer
                         /\ Answers!WithdrawnGivesNothing

(* Codes are used up only by what they were used for (spendIn); a proof by *)
(* mail is of a code that this attempt sent to this address (verify,       *)
(* activate, confirm); and what is answered as done was stored, also when  *)
(* its commit was not heard of.                                            *)
AnswersAreBacked ==
  /\ case = "passwords" => Passwords!SpentForProgress
  /\ case = "mails" => Mails!SpentForProgress /\ Mails!OwnCode
  /\ case = "registration" => Registration!OwnCode /\ Registration!AnsweredIsStored
  /\ case = "recovery" => Recovery!OwnCode /\ Recovery!AnsweredIsStored
=============================================================================
