---------------------------- MODULE SignInShared ----------------------------
(***************************************************************************)
(* What the promises about mails (MailPromises) and about authorization    *)
(* codes (CodePromises) have in common.                                    *)
(***************************************************************************)

CONSTANTS
  Work,         \* requests or units of work
  User,         \* accounts
  MaxTime,      \* the clock stops here
  None

VARIABLES
  case,         \* which component, and with which constants, is running
  now, acct, work
=============================================================================
