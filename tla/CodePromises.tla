---------------------------- MODULE CodePromises ----------------------------
(***************************************************************************)
(* What CodeExchange promises, in a system in which it takes turns with    *)
(* NativeAttempts: the case says which of them runs.  TLC checks it        *)
(* (MCNativeSignIn) for the values of a configuration, and SignInProofs    *)
(* proves it for every value.                                              *)
(***************************************************************************)
EXTENDS SignInShared

CONSTANTS Txn, ProofId, MaxSessions, PendingLifetime, CodeLifetime, MaxChanges

VARIABLES txn, app, grant, sessions, proofIds, changes, withdrawn

Exchange == INSTANCE CodeExchange

(* A transaction has one answer, a code or a denial                        *)
(* (NativeAuthorizeService.approve, NativeAuthorizeBrowserService.deny); a *)
(* code, and a proof id, gives one session (NativeTokenService.exchange)   *)
(* under the cap (assertSessionLimit), without authority when the approval *)
(* was withdrawn since it was read; a full account, a replayed proof or a  *)
(* lost unit of work leave the code usable.                                *)
OneSessionPerCode ==
  case = "exchanges" => /\ Exchange!TypeOK /\ Exchange!OneAnswer
                        /\ Exchange!OneSessionPerCode /\ Exchange!SessionCap
                        /\ Exchange!WithdrawnGivesNothing
                        /\ Exchange!SpentForAReason
=============================================================================
