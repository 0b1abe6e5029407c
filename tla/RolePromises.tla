---------------------------- MODULE RolePromises ----------------------------
(***************************************************************************)
(* AdminAuthority and, beside it, what RoleSweeps promises on either       *)
(* store: the case says which of them runs.  TLC checks it (MCAuthority)   *)
(* for the values of a configuration, and AdminAuthorityProofs proves it   *)
(* for every value.                                                        *)
(***************************************************************************)
EXTENDS AdminAuthority

CONSTANTS SweepStore, SweepTask, SweepKind, RoleId, UserRole, FirstRoles,
          Slug, SlugOf, User, Held, Passes, Limit

VARIABLES case, role, hold, ver, history, deletion, sweep

Sweeps == INSTANCE RoleSweeps WITH
  Store <- SweepStore, Task <- SweepTask, Kind <- SweepKind,
  Role <- RoleId, First <- FirstRoles, task <- sweep

(* One undisturbed start of the process leaves no repair owed              *)
(* (RoleSweepBootstrapService).  On MongoDB an assignment and a change of  *)
(* its role do not both commit: readRoleAuthorityBySlug writes the role,   *)
(* so that nobody is ever left on a slug that no role carries.             *)
RolesSettle ==
  case = "roles" => /\ Sweeps!StartSettles
                    /\ Sweeps!Mongo => Sweeps!NobodyStranded
=============================================================================
