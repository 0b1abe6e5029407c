---------------------------- MODULE MCAuthority -----------------------------
(***************************************************************************)
(* AdminAuthority and RoleSweeps for TLC.  RolePromises is AdminAuthority  *)
(* on PostgreSQL and its Sweeps changes of a role on MongoDB; each         *)
(* instance below is another case, and a behaviour is of the case its      *)
(* first state picks.  The variables that the case has no use for stay as  *)
(* they were at first.                                                     *)
(***************************************************************************)
EXTENDS RolePromises, TLC

CONSTANTS Cases, t1, t2, t3, a1, a2, a3, a4, admin, lead, staff, user,
          r0, r1, r2, s0, s1, s2, s3

ofRoles == <<role, hold, ver, history, deletion, sweep>>
NoRoles == /\ role = None /\ hold = None /\ ver = None /\ history = None
           /\ deletion = None /\ sweep = None

ThreeTasks == {t1, t2, t3}
FourAccounts == {a1, a2, a3, a4}
AllKinds == Kinds
Roles == {admin, lead, staff, user}
Levels == [r \in Roles |-> IF r = admin THEN 3 ELSE IF r = lead THEN 2
                           ELSE IF r = staff THEN 1 ELSE 0]
Manage == {admin, lead, staff}
OfRole(r) == [role |-> r, active |-> TRUE, granted |-> FALSE, rev |-> 0]
TwoAdmins == [a \in FourAccounts |->
  IF a \in {a1, a2} THEN OfRole(admin) ELSE IF a = a3 THEN OfRole(lead)
  ELSE [OfRole(user) EXCEPT !.granted = TRUE]]
Ranks == [a \in FourAccounts |->
  IF a = a4 THEN [OfRole(user) EXCEPT !.active = FALSE]
  ELSE OfRole(IF a = a1 THEN admin ELSE IF a = a2 THEN lead ELSE user)]

Sym == Permutations(ThreeTasks)

(***************************************************************************)
(* Changes to accounts.                                                    *)
(***************************************************************************)

(* On MongoDB, accounts that leave or are deactivated; and changes that    *)
(* hold their actor.                                                       *)
Leaving == INSTANCE AdminAuthority WITH
  Store <- "mongo", Kind <- {"leave", "status"}
Holding == INSTANCE AdminAuthority WITH
  Store <- "mongo", Kind <- {"role", "grant"}, First <- Ranks

(* Changes of all kinds, and of the role alone, on PostgreSQL. *)
Unfenced == INSTANCE AdminAuthority WITH First <- Ranks
RolesOnly == INSTANCE AdminAuthority WITH Kind <- {"role"}, First <- Ranks

(***************************************************************************)
(* Roles and who holds them.                                               *)
(***************************************************************************)

AllChanges == {"edit", "delete", "insert", "assign", "create", "boot"}
FirstSlugs == (r0 :> s0) @@ (r1 :> s1)
BothSlugs == (r0 :> s0) @@ (r1 :> s1) @@ (r2 :> s2)
OneEach == (a1 :> s2) @@ (a2 :> None)

(* Changes of one custom role, which Sweeps has on MongoDB. *)
ChangesOfOne == {"edit", "delete", "assign", "boot"}
TwoRoles == {r0, r1}
OneCustom == {r1}
ThreeSlugs == {s0, s1, s2}
OneUser == {a1}
OfUserRole == a1 :> s0

(* Renames, and slugs that are used again. *)
Renames == INSTANCE RoleSweeps WITH
  task <- sweep, Store <- "postgres", Kind <- {"edit", "insert", "assign", "create", "boot"},
  Role <- {r0, r1, r2}, UserRole <- r0, First <- {r1}, SlugOf <- FirstSlugs,
  Slug <- {s0, s1, s2}, Task <- {t1, t2, t3}, User <- {a1}, Held <- (a1 :> s0),
  Passes <- 3, Limit <- 2

(* Deletions without renames. *)
Deletes == INSTANCE RoleSweeps WITH
  task <- sweep, Store <- "postgres", Kind <- {"delete", "assign", "create", "boot"},
  Role <- {r0, r1, r2}, UserRole <- r0, First <- {r1, r2}, SlugOf <- BothSlugs,
  Slug <- {s0, s1, s2}, Task <- {t1, t2, t3}, User <- {a1, a2}, Held <- OneEach,
  Passes <- 3, Limit <- 2

(* Both, with slugs that are used again. *)
Reuses == INSTANCE RoleSweeps WITH
  task <- sweep, Store <- "postgres", Kind <- AllChanges,
  Role <- {r0, r1, r2}, UserRole <- r0, First <- {r1, r2}, SlugOf <- BothSlugs,
  Slug <- {s0, s1, s2}, Task <- {t1, t2, t3}, User <- {a1, a2}, Held <- OneEach,
  Passes <- 3, Limit <- 2

(* Renames of one role and of the role its holders fall back to. *)
Moves == INSTANCE RoleSweeps WITH
  task <- sweep, Store <- "postgres", Kind <- {"edit", "assign", "boot"},
  Role <- {r0, r1}, UserRole <- r0, First <- {r1}, SlugOf <- FirstSlugs,
  Slug <- {s0, s1, s2, s3}, Task <- {t1, t2, t3}, User <- {a1}, Held <- (a1 :> s0),
  Passes <- 3, Limit <- 2
Repairs == INSTANCE RoleSweeps WITH
  task <- sweep, Store <- "postgres", Kind <- {"edit", "delete", "assign", "boot"},
  Role <- {r0, r1, r2}, UserRole <- r0, First <- {r1, r2}, SlugOf <- BothSlugs,
  Slug <- {s0, s1, s2, s3}, Task <- {t1, t2, t3}, User <- {a1}, Held <- (a1 :> s0),
  Passes <- 3, Limit <- 3

ASSUME /\ Leaving!AuthorityAssumption /\ Holding!AuthorityAssumption
       /\ Unfenced!AuthorityAssumption /\ RolesOnly!AuthorityAssumption
       /\ Sweeps!RoleAssumption /\ Renames!RoleAssumption /\ Deletes!RoleAssumption
       /\ Reuses!RoleAssumption /\ Moves!RoleAssumption /\ Repairs!RoleAssumption

MCInit ==
  /\ case \in Cases
  /\ \/ /\ NoRoles
        /\ \/ case = "postgres" /\ Init
           \/ case = "leaving" /\ Leaving!Init
           \/ case = "fenced" /\ Holding!Init
           \/ case = "unfenced" /\ Unfenced!Init
           \/ case = "rolesOnly" /\ RolesOnly!Init
     \/ /\ Init
        /\ \/ case = "roles" /\ Sweeps!Init
           \/ case = "renames" /\ Renames!Init
           \/ case = "deletes" /\ Deletes!Init
           \/ case = "reuses" /\ Reuses!Init
           \/ case = "moves" /\ Moves!Init
           \/ case = "repairs" /\ Repairs!Init

MCNext ==
  /\ UNCHANGED case
  /\ \/ /\ UNCHANGED ofRoles
        /\ \/ case = "postgres" /\ Next
           \/ case = "leaving" /\ Leaving!Next
           \/ case = "fenced" /\ Holding!Next
           \/ case = "unfenced" /\ Unfenced!Next
           \/ case = "rolesOnly" /\ RolesOnly!Next
     \/ /\ UNCHANGED vars
        /\ \/ case = "roles" /\ Sweeps!Next
           \/ case = "renames" /\ Renames!Next
           \/ case = "deletes" /\ Deletes!Next
           \/ case = "reuses" /\ Reuses!Next
           \/ case = "moves" /\ Moves!Next
           \/ case = "repairs" /\ Repairs!Next

MCSpec == MCInit /\ [][MCNext]_<<case, vars, ofRoles>>

(***************************************************************************)
(* Properties, each in the case that is made for it, besides AdminRemains, *)
(* HandedOutByHolder and RolesSettle.                                      *)
(***************************************************************************)

(* On MongoDB what a unit of work has judged still holds at its commit:    *)
(* the actor of a change that fences it is active and outranks the account *)
(* (assertFreshActorCanModify), and a repair that a role owes is taken off *)
(* its list only by the sweep that has done it (clearPendingSweep).        *)
FencesHold == /\ [][case = "fenced" => ActsWithRank]_vars
              /\ [][case = "roles" => Sweeps!OwedIsKept]_ofRoles

(* Types of accounts and roles: no two roles have one slug, and no more    *)
(* repairs are owed than the limit (recordPendingSweepIfRoom).  When every *)
(* request has ended and nothing failed every account holds a role that    *)
(* exists (sweepRoleHolders, reconcileAssignedRole), and one undisturbed   *)
(* start of the process leaves no repair owed on PostgreSQL either.        *)
HoldersHaveRoles ==
  /\ TypeOK
  /\ case = "roles" => Sweeps!TypeOK
  /\ case = "renames" => Renames!SettledHoldsARole
  /\ case = "deletes" => Deletes!SettledHoldsARole /\ Deletes!StartSettles

(* What assertFreshActorCanModify says of every change of an account.      *)
EveryoneActsWithRank == [][(case \in {"unfenced", "rolesOnly"}) => ActsWithRank]_vars

(* What RoleHolderSweep says: a fenced move lands on the slug the role     *)
(* carries; a repair that is owed is not lost; nobody keeps a slug that    *)
(* no role carries.                                                        *)
FencedMoveLands == [][case = "moves" => Moves!FencedMoveLands]_ofRoles
RepairsAreKept == [][case = "repairs" => Repairs!OwedIsKept]_ofRoles
ReusedSlugSettles == case = "reuses" => Reuses!SettledHoldsARole
=============================================================================
