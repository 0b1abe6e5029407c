------------------------------ MODULE MCMails -------------------------------
(***************************************************************************)
(* PendingCodes, MagicLink and AddressClaims for TLC.  Each instance below *)
(* or in MailPromises is a case of one of them; a behaviour is of the case *)
(* its first state picks, and the variables that the case has no use for   *)
(* stay None.                                                              *)
(*                                                                         *)
(* r1 to r3 are the requests of a case, which are alike, and so are the    *)
(* two v (guessers, visits, users) and the two b (browsers, addresses).    *)
(***************************************************************************)
EXTENDS MailPromises, Integers, FiniteSets, TLC

CONSTANTS Cases, r1, r2, r3, v1, v2, b1, b2

vars == <<case, now, mails, rec, row, issue, guess, counted, compared,
          link, counter, cookie, signed, account, reserved, visit, barred,
          acct, claim, work, held>>

ofCodes == <<row, issue, guess, counted, compared>>
ofLinks == <<link, counter, cookie, signed, account, reserved, visit, barred>>
ofClaims == <<acct, claim, work, held>>

NoCodes == row = None /\ issue = None /\ guess = None /\ counted = None /\ compared = None
NoLinks == /\ link = None /\ counter = None /\ cookie = None /\ signed = None
           /\ account = None /\ reserved = None /\ visit = None /\ barred = None
NoClaims == acct = None /\ claim = None /\ work = None /\ held = None

Sym == Permutations({r1, r2, r3}) \cup Permutations({v1, v2}) \cup Permutations({b1, b2})

(***************************************************************************)
(* Mailed codes.                                                           *)
(***************************************************************************)

(* Two requests or resends, and two callers that check codes. *)
Resends == INSTANCE PendingCodes WITH
  Issue <- {r1, r2}, Guess <- {v1, v2}, Window <- 1, MailLimit <- 2, ExpiresIn <- 1,
  MaxAttempts <- 2, Limit <- 2, LockBase <- 1, LockMax <- 2, MaxLevel <- 2, Memory <- 2,
  Passes <- 2, Slow <- 1, MaxGuesses <- 3, MaxTime <- 1

(* Three requests and a caller around the edge of a window. *)
Windows == INSTANCE PendingCodes WITH
  Issue <- {r1, r2, r3}, Guess <- {v1}, Window <- 4, MailLimit <- 1, ExpiresIn <- 2,
  MaxAttempts <- 2, Limit <- 2, LockBase <- 1, LockMax <- 2, MaxLevel <- 2, Memory <- 2,
  Passes <- 2, Slow <- 1, MaxGuesses <- 1, MaxTime <- 4

(* In Codes (MailPromises) two callers guess through two locks. *)

(* Two requests and nobody who guesses. *)
Requests == INSTANCE PendingCodes WITH
  Issue <- {r1, r2}, Guess <- {}, Window <- 4, MailLimit <- 2, ExpiresIn <- 2,
  MaxAttempts <- 2, Limit <- 2, LockBase <- 1, LockMax <- 2, MaxLevel <- 2, Memory <- 2,
  Passes <- 2, Slow <- 1, MaxGuesses <- 3, MaxTime <- 1

(***************************************************************************)
(* Mailed links.                                                           *)
(***************************************************************************)

(* Links (MailPromises) has two links, two browsers and two visits;        *)
(* LinkWindows three requests over two windows.                            *)
LinkWindows == INSTANCE MagicLink WITH
  Link <- {r1, r2, r3}, Browser <- {b1}, Visit <- {}, MaxPerHour <- 1, Window <- 3,
  ExpiresIn <- 1, Slow <- 1, MaxTime <- 6

(***************************************************************************)
(* Addresses: Claims (MailPromises) has three units of work over two users *)
(* and two addresses.                                                      *)
(***************************************************************************)

ASSUME /\ Resends!CodesAssumption /\ Windows!CodesAssumption
       /\ Codes!CodesAssumption /\ Requests!CodesAssumption
       /\ Links!LinkAssumption /\ LinkWindows!LinkAssumption /\ Claims!ClaimsAssumption

Init ==
  /\ case \in Cases
  /\ \/ /\ NoLinks /\ NoClaims
        /\ \/ case = "codes" /\ Resends!Init
           \/ case = "windows" /\ Windows!Init
           \/ case = "guesses" /\ Codes!Init
           \/ case = "requests" /\ Requests!Init
     \/ /\ NoCodes /\ NoClaims /\ rec = None
        /\ \/ case = "links" /\ Links!Init
           \/ case = "linkWindows" /\ LinkWindows!Init
     \/ /\ NoCodes /\ NoLinks /\ mails = None
        /\ case = "claims" /\ Claims!Init

Next ==
  /\ UNCHANGED case
  /\ \/ /\ UNCHANGED <<ofLinks, ofClaims>>
        /\ \/ case = "codes" /\ Resends!Next
           \/ case = "windows" /\ Windows!Next
           \/ case = "guesses" /\ Codes!Next
           \/ case = "requests" /\ Requests!Next
     \/ /\ UNCHANGED <<ofCodes, ofClaims, rec>>
        /\ \/ case = "links" /\ Links!Next
           \/ case = "linkWindows" /\ LinkWindows!Next
     \/ /\ UNCHANGED <<ofCodes, ofLinks, mails>>
        /\ case = "claims" /\ Claims!Next

Spec == Init /\ [][Next]_vars

(***************************************************************************)
(* Properties, each in the case that is made for it; MailPromises has the  *)
(* others.                                                                 *)
(***************************************************************************)

(* Types; the cap on mailed codes and the hourly one on links hold around  *)
(* the edge of a window (MailCounterService, takeRequestSlot), as          *)
(* retention takes no counter that is still needed (recordWithinCap,       *)
(* reservePostgresGuess).                                                  *)
MailsAreCapped ==
  /\ case = "codes" => Resends!TypeOK /\ Resends!RowKeptLongEnough
  /\ case = "windows" => Windows!MailsAreCapped
  /\ case = "linkWindows" => LinkWindows!MailsAreCapped

(* What was checked still stands when it is used: the code that is         *)
(* consumed is the one that was compared and nothing newer was stored      *)
(* (consumeCode), and while a claim is live no other account is put on its *)
(* address (confirmEmailChange, createActivatedAccount).                   *)
CheckedStillStands == [][/\ case = "codes" => Resends!OnlyCurrentCode
                         /\ case = "claims" => Claims!ClaimIsKept]_vars

(* What MailCounterService says: a counter that is left is full.           *)
RefusedMeansFull == [][case = "requests" => Requests!RefusedMeansFull]_vars

(* What PendingRegistrationIssuer says: a record that is left is expired.  *)
LeftRecordIsExpired == [][case = "requests" => Requests!LeftRecordIsExpired]_vars
=============================================================================
