-------------------------- MODULE MCAccountSessions -------------------------
(***************************************************************************)
(* AccountSessions for TLC.  The module itself is AccountSessions on       *)
(* PostgreSQL, with time passing; the other cases differ in the constants  *)
(* that they list.  A behaviour is of the case its first state picks.      *)
(***************************************************************************)
EXTENDS AccountSessions, TLC

CONSTANT Cases

VARIABLE case

(* Sign-ins are alike. *)
Alike == Permutations(SignInWorker)

(* PostgreSQL within one instant, with a session more than the cap.        *)
Caps == INSTANCE AccountSessions WITH MaxClock <- 0, MaxIssued <- 3

(* MongoDB, within one instant. *)
Mongo == INSTANCE AccountSessions WITH
  Backend <- "mongo", MaxClock <- 0, MaxChanges <- 1

(* MongoDB, with time passing. *)
MongoInTime == INSTANCE AccountSessions WITH Backend <- "mongo", MaxChanges <- 0

ASSUME Caps!PolicyAssumption /\ Mongo!PolicyAssumption /\ MongoInTime!PolicyAssumption

MCInit == case \in Cases /\ AInit
MCNext ==
  /\ UNCHANGED case
  /\ \/ case = "postgres" /\ ANext
     \/ case = "caps" /\ Caps!ANext
     \/ case = "mongo" /\ Mongo!ANext
     \/ case = "inTime" /\ MongoInTime!ANext

MCSpec == MCInit /\ [][MCNext]_<<case, avars>>
=============================================================================
