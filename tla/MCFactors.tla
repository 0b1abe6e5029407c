----------------------------- MODULE MCFactors ------------------------------
(***************************************************************************)
(* SecondFactor, PasskeyCeremonies and SignInMethods for TLC.  Each        *)
(* instance below or in FactorPromises is a case of one of them; a         *)
(* behaviour is of the case its first state picks, and the variables that  *)
(* the case has no use for stay None.  Requests and challenges of one case *)
(* are alike.                                                              *)
(***************************************************************************)
EXTENDS FactorPromises, Integers, Sequences, FiniteSets, TLC

CONSTANTS Cases, w1, w2, w3, w4, c1, c2, c3, h1, h2, k1, k2, k3, u1, u2,
          s1, s2, s3, p1, p2

VARIABLES conf, links, primary, keys, app, grant, hold

vars == <<case, now, work, chal, sessions, active, made,
          row, codes, secrets, accepted, right, checked, since, stale,
          key, held, factor, uses,
          conf, links, primary, keys, app, grant, hold>>

ofFactor == <<row, codes, secrets, accepted, right, checked, since, stale>>
ofKeys == <<key, held, factor, uses>>
ofMethods == <<conf, links, primary, keys, app, grant, hold>>

NoFactor == /\ row = None /\ codes = None /\ secrets = None /\ accepted = None
            /\ right = None /\ checked = None /\ since = None /\ stale = None
NoKeys == key = None /\ held = None /\ factor = None /\ uses = None
NoMethods == /\ conf = None /\ links = None /\ primary = None /\ keys = None
             /\ app = None /\ grant = None /\ hold = None

Sym == Permutations({w1, w2, w3}) \cup Permutations({c1, c2})

(***************************************************************************)
(* The second factor.                                                      *)
(***************************************************************************)

(* In Factor (FactorPromises) four sign-ins answer two challenges with     *)
(* codes of two steps.                                                     *)

(* Three requests of any kind on a factor that is being set up. *)
Settings == INSTANCE SecondFactor WITH
  Work <- {w1, w2, w3}, Kind <- {"login", "setup", "confirm", "disable", "regenerate"},
  Challenge <- {c1}, Confirmed <- FALSE, Steps <- {0}, Window <- 1, Threshold <- 2,
  LockBase <- 1, LockMax <- 3, MaxAttempts <- 2, ChallengeTtl <- 2, MaxTime <- 1

(* Three answers at once, each of which locks the account. *)
Locks == INSTANCE SecondFactor WITH
  Work <- {w1, w2, w3}, Kind <- {"login"}, Challenge <- {c1, c2}, Confirmed <- TRUE,
  Steps <- {0}, Window <- 1, Threshold <- 1, LockBase <- 1, LockMax <- 3,
  MaxAttempts <- 3, ChallengeTtl <- 9, MaxTime <- 3

(* The same with a challenge more, and less time. *)
Recounts == INSTANCE SecondFactor WITH
  Work <- {w1, w2, w3, w4}, Kind <- {"login"}, Challenge <- {c1, c2, c3},
  Confirmed <- TRUE, Steps <- {0}, Window <- 1, Threshold <- 1, LockBase <- 1,
  LockMax <- 3, MaxAttempts <- 3, ChallengeTtl <- 9, MaxTime <- 1

(* Two setups and confirmations, or two requests for new recovery codes. *)
Setups == INSTANCE SecondFactor WITH
  Work <- {w1, w2}, Kind <- {"setup", "confirm"}, Challenge <- {c1}, Confirmed <- FALSE,
  Steps <- {0}, Window <- 1, Threshold <- 2, LockBase <- 1, LockMax <- 3,
  MaxAttempts <- 2, ChallengeTtl <- 2, MaxTime <- 0
Batches == INSTANCE SecondFactor WITH
  Work <- {w1, w2}, Kind <- {"regenerate"}, Challenge <- {c1}, Confirmed <- TRUE,
  Steps <- {0, 1}, Window <- 1, Threshold <- 2, LockBase <- 1, LockMax <- 3,
  MaxAttempts <- 2, ChallengeTtl <- 2, MaxTime <- 1

(***************************************************************************)
(* Passkeys.                                                               *)
(***************************************************************************)

(* Two sign-ins with one key, or a copy of it, that counts. *)
Counters == INSTANCE PasskeyCeremonies WITH
  Work <- {w1, w2}, Kind <- {"login"}, Chal <- {c1, c2}, Held <- {}, Key <- {k1},
  User <- {u1}, Session <- {}, OwnerOf <- <<>>, Native <- {}, Registered <- {k1},
  FirstOwner <- u1, WithFactor <- {}, MaxCounter <- 3, Verifies <- {TRUE},
  MaxAttempts <- 2, ChallengeTtl <- 1, MaxTime <- 0

(* Passkeys (FactorPromises) has first and second steps of two accounts,   *)
(* of which one owes a second; and nobody registers keys.                  *)
NoOwners == <<>>

(* Two browsers of an account and an app of another one register keys. *)
Registrations == INSTANCE PasskeyCeremonies WITH
  Work <- {w1, w2}, Kind <- {"register"}, Chal <- {c1, c2}, Held <- {},
  Key <- {k1, k2}, User <- {u1, u2}, Session <- {s1, s2, s3},
  OwnerOf <- [s \in {s1, s2, s3} |-> IF s = s3 THEN u2 ELSE u1], Native <- {s3},
  Registered <- {}, FirstOwner <- u1, WithFactor <- {}, MaxCounter <- 0,
  Verifies <- BOOLEAN, MaxAttempts <- 2, ChallengeTtl <- 1, MaxTime <- 1

(* Sign-ins of an account that turns its second factor on. *)
Overtaken == INSTANCE PasskeyCeremonies WITH
  Work <- {w1, w2}, Kind <- {"login"}, Chal <- {c1, c2}, Held <- {h1}, Key <- {k1},
  User <- {u1}, Session <- {}, OwnerOf <- <<>>, Native <- {}, Registered <- {k1},
  FirstOwner <- u1, WithFactor <- {}, MaxCounter <- 0, Verifies <- BOOLEAN,
  MaxAttempts <- 2, ChallengeTtl <- 1, MaxTime <- 0

(***************************************************************************)
(* The ways into an account.                                               *)
(***************************************************************************)

Off == [password |-> FALSE, magicLink |-> FALSE, emailCode |-> FALSE,
        emailSignIn |-> FALSE, hasPassword |-> FALSE]
SomeConfs == {Off, [Off EXCEPT !.emailCode = TRUE, !.emailSignIn = TRUE],
              [Off EXCEPT !.password = TRUE, !.emailSignIn = TRUE],
              [Off EXCEPT !.password = TRUE, !.hasPassword = TRUE],
              [Off EXCEPT !.magicLink = TRUE]}

(* Two requests link, unlink and remove at once. *)
Methods == INSTANCE SignInMethods WITH
  Work <- {w1, w2}, Kind <- {"link", "unlink", "remove"}, Provider <- {p1, p2},
  Id <- {1, 2}, Elsewhere <- {<<p2, 2>>}, Key <- {k1, k2, k3}, AppKeys <- {k1},
  MaxLinks <- 1, Confs <- SomeConfs

(* Two requests, one of which may choose the primary provider. *)
Chosen == INSTANCE SignInMethods WITH
  Work <- {w1, w2}, Kind <- {"link", "unlink", "primary"}, Provider <- {p1, p2},
  Id <- {1}, Elsewhere <- {}, Key <- {k1, k2}, AppKeys <- {k1},
  MaxLinks <- 1, Confs <- SomeConfs

ASSUME /\ Factor!FactorAssumption /\ Settings!FactorAssumption /\ Locks!FactorAssumption
       /\ Recounts!FactorAssumption
       /\ Setups!FactorAssumption /\ Batches!FactorAssumption
       /\ Counters!CeremonyAssumption /\ Passkeys!CeremonyAssumption
       /\ Registrations!CeremonyAssumption /\ Overtaken!CeremonyAssumption
       /\ Methods!MethodsAssumption /\ Chosen!MethodsAssumption

Init ==
  /\ case \in Cases
  /\ \/ /\ NoKeys /\ NoMethods /\ active = None /\ made = None
        /\ \/ case = "answers" /\ Factor!Init
           \/ case = "settings" /\ Settings!Init
           \/ case = "locks" /\ Locks!Init
           \/ case = "recounts" /\ Recounts!Init
           \/ case = "setups" /\ Setups!Init
           \/ case = "batches" /\ Batches!Init
     \/ /\ NoFactor /\ NoMethods
        /\ \/ case = "counters" /\ Counters!Init
           \/ case = "signIns" /\ Passkeys!Init
           \/ case = "registrations" /\ Registrations!Init
           \/ case = "overtaken" /\ Overtaken!Init
     \/ /\ NoFactor /\ NoKeys /\ now = None /\ chal = None /\ sessions = None
        /\ \/ case = "methods" /\ Methods!Init
           \/ case = "chosen" /\ Chosen!Init

Next ==
  /\ UNCHANGED case
  /\ \/ /\ UNCHANGED <<ofKeys, ofMethods, active, made>>
        /\ \/ case = "answers" /\ Factor!Next
           \/ case = "settings" /\ Settings!Next
           \/ case = "locks" /\ Locks!Next
           \/ case = "recounts" /\ Recounts!Next
           \/ case = "setups" /\ Setups!Next
           \/ case = "batches" /\ Batches!Next
     \/ /\ UNCHANGED <<ofFactor, ofMethods>>
        /\ \/ case = "counters" /\ Counters!Next
           \/ case = "signIns" /\ Passkeys!Next
           \/ case = "registrations" /\ Registrations!Next
           \/ case = "overtaken" /\ Overtaken!Next
     \/ /\ UNCHANGED <<ofFactor, ofKeys, now, chal, sessions>>
        /\ \/ case = "methods" /\ Methods!Next
           \/ case = "chosen" /\ Chosen!Next

Spec == Init /\ [][Next]_vars

(***************************************************************************)
(* Properties, each in the case that is made for it; FactorPromises has    *)
(* the others.                                                             *)
(***************************************************************************)

(* Looking at answers costs time, however many are on their way            *)
(* (reserveAttempt), and a factor that is on was confirmed with a code of  *)
(* its own secret (confirmSecondFactorIn).                                 *)
FactorHolds ==
  /\ case = "locks" => Locks!GuessesCostTime
  /\ case = "settings" => Settings!ConfirmedWithItsCode

(* A challenge of a passkey is good for one ceremony                       *)
(* (PasskeyChallengeService.consume), in the session that proved itself    *)
(* for it (PasskeyRegistrationService), and counters of a key and its copy *)
(* only go up (advanceCounter).                                            *)
OneUsePerChallenge ==
  /\ case = "counters" => Counters!OneUsePerChallenge /\ Counters!CountersIncrease
  /\ case = "registrations" => /\ Registrations!OneUsePerChallenge
                               /\ Registrations!RegisteredWhereProved

(* A removal leaves a way into the account as it is then                   *)
(* (SignInMethodRule.holdForRemoval), and every step a primary provider    *)
(* that is linked (unlinkHeld); an account that was deactivated meanwhile  *)
(* gets no passkey (PasskeyRecorder).                                      *)
WaysInKept ==
  [][/\ case = "methods" => Methods!RemovalLeavesAWay /\ Methods!PrimaryIsLinked'
     /\ case = "registrations" => Registrations!StandingGetsKey]_vars

(* What setPrimaryProvider says: the provider that is chosen is linked.    *)
PrimaryIsLinked == case = "chosen" => Chosen!PrimaryIsLinked

(* What TwoFactorService.setup says: nothing about how the account signs   *)
(* in changes before it is confirmed.                                      *)
SetupKeepsTheFactor == [][case = "setups" => Setups!SetupKeepsTheFactor]_vars

(* What regenerateRecoveryCodes says: the old batch stops working.         *)
OneBatch == case = "batches" => Batches!OneBatch

(* What TwoFactorVerificationService says: nothing is checked while the    *)
(* lock holds.                                                             *)
LockHolds == [][case = "recounts" => Recounts!LockHolds]_vars

(* What SignInCompletion says: an account with a confirmed second factor   *)
(* gets a challenge instead of a session.                                  *)
SecondFactorOwed == [][case = "overtaken" => Overtaken!SecondFactorOwed]_vars
=============================================================================
