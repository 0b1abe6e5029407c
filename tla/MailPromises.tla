---------------------------- MODULE MailPromises ----------------------------
(***************************************************************************)
(* What PendingCodes, MagicLink and AddressClaims promise, in a system in  *)
(* which they take turns: the case says which of them runs.  TLC checks it *)
(* (MCMails) for the values of a configuration, and SignInProofs proves it *)
(* for every value.                                                        *)
(***************************************************************************)
EXTENDS SignInShared

CONSTANTS
  Link, Browser, Visit, Addr, MaxPerHour, Window, ExpiresIn, Slow,
  Issue, Guess, CodeWindow, MailLimit, CodeExpiresIn, MaxAttempts, Limit,
  LockBase, LockMax, MaxLevel, Memory, Passes, MaxGuesses, CodeTime

VARIABLES link, counter, cookie, signed, account, reserved, visit, mails, barred,
          claim, rec, held,
          row, issue, guess, counted, compared

Codes == INSTANCE PendingCodes WITH
  Window <- CodeWindow, ExpiresIn <- CodeExpiresIn, MaxTime <- CodeTime
Links == INSTANCE MagicLink
Claims == INSTANCE AddressClaims

(* Each limit of wrong codes costs a lock twice as long as the one before  *)
(* (reservePostgresGuess).                                                 *)
GuessesCostTime == case = "guesses" => Codes!GuessesCostTime

(* Of the visits of a link one gets past the claim (claimLink), without a  *)
(* confirmation only in the browser that asked for it                      *)
(* (MagicLinkBrowserService), and not too late (MagicLinkService.verify);  *)
(* and it then reaches the account, where issuance may still refuse it     *)
(* (SessionIssuanceService), unless that or the address is gone            *)
(* (MagicLinkAccountCreation).                                             *)
LinkSignsInOnce == case = "links" => Links!LinkSignsInOnce

(* Nobody who went through the ledger finds the address taken when it      *)
(* writes (PostgresAddressLedger); a code that can be confirmed has a      *)
(* claim that lasts as long (AdminEmailChangeService); and asking for      *)
(* another address gives the claim before back (release).                  *)
LedgerDecides ==
  case = "claims" => /\ Claims!TypeOK /\ Claims!LedgerDecides
                     /\ Claims!CodeHasItsClaim /\ Claims!OneLiveClaimEach
=============================================================================
