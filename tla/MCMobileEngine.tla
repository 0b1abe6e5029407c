--------------------------- MODULE MCMobileEngine ---------------------------
(***************************************************************************)
(* MobileEngine for TLC: every order of calls, answers, deadlines, storage *)
(* results and restarts around one session.  Each instance below is a case *)
(* and a behaviour is of the case its first state picks.                   *)
(***************************************************************************)
EXTENDS Integers, Sequences, FiniteSets

CONSTANT Cases

VARIABLES case, slot, up, eng, held, flight, pc, ans, cur, queue, nextDrain, net,
          replies, lates, sends, calls, outcome, gaveUp, open, status, parent, used

vars == <<case, slot, up, eng, held, flight, pc, ans, cur, queue, nextDrain, net,
          replies, lates, sends, calls, outcome, gaveUp, open, status, parent, used>>

(* A session without a device key, whose slot may fail to be read; one     *)
(* whose revocation is tried twice; and one with a device key.             *)
Unbound == INSTANCE MobileEngine WITH
  Bound <- FALSE, ReadsFail <- TRUE, Disposes <- TRUE,
  MaxSends <- 1, MaxCalls <- 5, MaxAttempts <- 1
Revoking == INSTANCE MobileEngine WITH
  Bound <- FALSE, ReadsFail <- FALSE, Disposes <- TRUE,
  MaxSends <- 1, MaxCalls <- 5, MaxAttempts <- 2
Keyed == INSTANCE MobileEngine WITH
  Bound <- TRUE, ReadsFail <- TRUE, Disposes <- TRUE,
  MaxSends <- 2, MaxCalls <- 4, MaxAttempts <- 1

(* Calls without disposal; a key with a slot that is always read; and a    *)
(* slot that is not.                                                       *)
Late == INSTANCE MobileEngine WITH
  Bound <- FALSE, ReadsFail <- FALSE, Disposes <- FALSE,
  MaxSends <- 1, MaxCalls <- 3, MaxAttempts <- 2
Readable == INSTANCE MobileEngine WITH
  Bound <- TRUE, ReadsFail <- FALSE, Disposes <- TRUE,
  MaxSends <- 2, MaxCalls <- 4, MaxAttempts <- 2
Unread == INSTANCE MobileEngine WITH
  Bound <- FALSE, ReadsFail <- TRUE, Disposes <- FALSE,
  MaxSends <- 1, MaxCalls <- 4, MaxAttempts <- 2

ASSUME /\ Unbound!EngineAssumption /\ Revoking!EngineAssumption
       /\ Keyed!EngineAssumption /\ Late!EngineAssumption
       /\ Readable!EngineAssumption /\ Unread!EngineAssumption

Init ==
  /\ case \in Cases
  /\ \/ case = "unbound" /\ Unbound!Init
     \/ case = "revoking" /\ Revoking!Init
     \/ case = "keyed" /\ Keyed!Init
     \/ case = "late" /\ Late!Init
     \/ case = "readable" /\ Readable!Init
     \/ case = "unread" /\ Unread!Init

Next ==
  /\ UNCHANGED case
  /\ \/ case = "unbound" /\ Unbound!Next
     \/ case = "revoking" /\ Revoking!Next
     \/ case = "keyed" /\ Keyed!Next
     \/ case = "late" /\ Late!Next
     \/ case = "readable" /\ Readable!Next
     \/ case = "unread" /\ Unread!Next

Spec == Init /\ [][Next]_vars

(***************************************************************************)
(* Properties, each in the case that is made for it.                       *)
(***************************************************************************)

(* Whatever was lost, delayed or killed on the way: a token that is stored *)
(* without a marker, or that an engine which says signed in holds, was not *)
(* spent on the server; with a device key it was not, or the server still  *)
(* answers it again (performRefresh, signOut, refresh-token-request).      *)
StoredIsUsable ==
  /\ case = "unbound" => Unbound!StoredIsUnspent /\ Unbound!SignedInIsUnspent
  /\ case = "keyed" => Keyed!StoredIsRepairable

(* After a sign-out was reported no late write or restore stores a session *)
(* (bumpEpoch), and one that reports the session revoked has ended it on   *)
(* the server (revokeWithDeadline).                                        *)
SignOutHolds ==
  case = "unbound" => Unbound!SignedOutStays /\ Unbound!RevokedMeansEnded

(* A stored token is never replaced by an older one (credential writes,    *)
(* late corrections).                                                      *)
NeverOlder == [][case = "unbound" => Unbound!NeverOlder]_vars

(* Types; a stored sign-out keeps its revocation until it was carried out  *)
(* or given up (pending-revocations), after a bounded number of attempts   *)
(* (PENDING_REVOCATION_MAX_ATTEMPTS).                                      *)
NothingForgotten == case = "revoking" => Revoking!TypeOK /\ Revoking!NothingForgotten

(* What finishLateSignOut says: once the sign-out is stored, memory        *)
(* follows the device.                                                     *)
StoredSignOutStays == case = "late" => Late!StoredSignOutStays

(* What the package's README says of a marker that is cleared, and of      *)
(* proofs that revocations carry.                                          *)
ClearedIsUnspent == case = "readable" => Readable!StoredIsUnspent
RevokesCarryProof == case = "readable" => Readable!RevokesCarryProof

(* What credential-write says: removing the session keeps revocations.     *)
UnreadForgetsNothing == case = "unread" => Unread!NothingForgotten
=============================================================================
