--------------------------- MODULE FactorPromises ---------------------------
(***************************************************************************)
(* What SecondFactor and PasskeyCeremonies promise, in a system in which   *)
(* they take turns with other components: the case says which of them      *)
(* runs.  TLC checks it (MCFactors) for the values of a configuration, and *)
(* FactorProofs and PasskeyProofs prove it for every value.                *)
(***************************************************************************)

CONSTANTS
  (* The second factor. *)
  Work, Kind, Challenge, Confirmed, Steps, Window, Threshold, LockBase, LockMax,
  MaxAttempts, ChallengeTtl, MaxTime,
  (* Passkeys. *)
  Ceremony, CeremonyKind, Chal, Held, Key, User, Session, OwnerOf, Native,
  Registered, FirstOwner, WithFactor, MaxCounter, Verifies, HeldAttempts,
  OptionsTtl, EndTime,
  None

VARIABLES case, now, work, chal, sessions, active, made,
          row, codes, secrets, accepted, right, checked, since, stale,
          key, held, factor, uses

Factor == INSTANCE SecondFactor
Passkeys == INSTANCE PasskeyCeremonies WITH
  Work <- Ceremony, Kind <- CeremonyKind, MaxAttempts <- HeldAttempts,
  ChallengeTtl <- OptionsTtl, MaxTime <- EndTime

(* An authenticator code of a step, and a recovery code, is accepted once  *)
(* (spendPostgresTotpStep), and a held sign-in gives one session, to an    *)
(* answer that was accepted (TwoFactorLoginService.verify).                *)
AnsweredOnce == case = "answers" => Factor!AnsweredOnce

(* A session of an account that owed a second factor had one               *)
(* (PasskeyLoginService, PasskeySecondFactorVerifier).                     *)
TwoFactorsShown ==
  case = "signIns" => Passkeys!TypeOK /\ Passkeys!TwoFactorsShown
=============================================================================
