--------------------------- MODULE MCFamilyStores ---------------------------
(***************************************************************************)
(* FamilyStores for TLC: two units of work on one family at once, on the   *)
(* database that the first state picks.  The module itself is              *)
(* FamilyStores on PostgreSQL.                                             *)
(***************************************************************************)
EXTENDS FamilyStores, TLC

CONSTANT Cases

VARIABLE case

Mongo == INSTANCE FamilyStores WITH Backend <- "mongo"

(* The two connections are alike. *)
Connections == Permutations(Worker)

MCInit == case \in Cases /\ SInit
MCNext ==
  /\ UNCHANGED case
  /\ \/ case = "postgres" /\ SNext
     \/ case = "mongo" /\ Mongo!SNext

MCSpec == MCInit /\ [][MCNext]_<<case, svars>>

(***************************************************************************)
(* Properties, besides those of the family itself.                         *)
(***************************************************************************)

(* On PostgreSQL what is committed is what NativeFamily's atomic units of  *)
(* work would have done one after the other, each at its commit; once a    *)
(* write to a family has returned no other unit of work changes the family *)
(* until this one ends (native-credential.store); and no statement waits,  *)
(* as the lock is taken first and NOWAIT (findPresentedCredential).        *)
AtomicOnPostgres ==
  /\ Init /\ [][case = "postgres" => Next]_vars
  /\ [][case = "postgres" => OneUnitOfWorkAtATime]_svars
  /\ [](case = "postgres" => NoStatementWaits)

(* What the store's contract says of every database: once a write has      *)
(* returned the family is taken.                                           *)
EveryStoreTakesFamily == [][OneUnitOfWorkAtATime]_svars
=============================================================================
