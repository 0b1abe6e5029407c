--------------------------- MODULE AdminAuthority ---------------------------
(***************************************************************************)
(* Who may change accounts, and who may leave: UserProfileService          *)
(* (deactivateAccount with the fence on the administrator role), and the   *)
(* changes of AdminUsersService and AdminPermissionsService to the status, *)
(* the role and the permissions of another account, with the checks of the *)
(* actor inside the unit of work.                                          *)
(*                                                                         *)
(* On PostgreSQL a statement reads what is committed, and rows are taken   *)
(* or shared, refused at once when another unit of work has them.  On      *)
(* MongoDB a unit of work reads one snapshot, and is refused when a row it *)
(* writes has changed since.  A refused unit of work runs again.  One      *)
(* permission stands for the one a route asks for and the one handed out.  *)
(***************************************************************************)
EXTENDS Integers, FiniteSets

CONSTANTS
  Store,        \* "postgres" or "mongo"
  Task, Kind,   \* requests, and what they may do
  Account, First, \* accounts, and how they are at first
  Role, Admin,  \* role slugs, and the one of administrators
  Level,        \* the level of a role
  Carries,      \* the roles that carry the permission
  None

Kinds == {"leave", "status", "role", "grant", "revoke"}
Row == [role : Role, active : BOOLEAN, granted : BOOLEAN, rev : Nat]

ASSUME AuthorityAssumption ==
  /\ Store \in {"postgres", "mongo"} /\ Kind \subseteq Kinds
  /\ Admin \in Role /\ Level \in [Role -> Nat] /\ Carries \subseteq Role
  /\ \A r \in Role : Level[r] <= Level[Admin]
  /\ First \in [Account -> Row]
  /\ \E a \in Account : First[a].role = Admin /\ First[a].active
  /\ None \notin Account

VARIABLES
  acct,   \* the accounts
  fence,  \* the version of the administrator role on MongoDB
  task    \* the requests

vars == <<acct, fence, task>>

NoTask == [kind |-> "leave", pc |-> "idle", actor |-> None, target |-> None, to |-> Admin,
           snap |-> First, mark |-> 0]

Init == acct = First /\ fence = 0 /\ task = [t \in Task |-> NoTask]

Mongo == Store = "mongo"

(* The account a unit of work reads. *)
Sees(t, a) == IF Mongo THEN task[t].snap[a] ELSE acct[a]

Set(t, x) == task' = [task EXCEPT ![t] = x]
Goto(t, pc) == Set(t, [task[t] EXCEPT !.pc = pc]) /\ UNCHANGED <<acct, fence>>
End(t, pc) == Set(t, [NoTask EXCEPT !.pc = pc])
Rerun(t) == End(t, "idle") /\ UNCHANGED <<acct, fence>>
Refuse(t) == End(t, "refused") /\ UNCHANGED <<acct, fence>>

(* Versions matter on MongoDB alone. *)
Later(n) == IF Mongo THEN n + 1 ELSE n
Written(row) == [row EXCEPT !.rev = Later(@)]

Fenced(t) == task[t].kind \in {"role", "grant", "revoke"}
Running(t) == task[t].pc \notin {"idle", "done", "refused"}

(* Row locks of PostgreSQL, to the end of the unit of work. *)
Takes(t, a) == ~Mongo /\ Running(t) /\ task[t].target = a
Shares(t, a) == ~Mongo /\ Fenced(t) /\ task[t].pc = "save" /\ task[t].actor = a
HasFence(t) == /\ ~Mongo /\ task[t].kind = "leave" /\ task[t].pc = "save"
               /\ acct[task[t].actor].role = Admin
SharesFence(t) == /\ ~Mongo /\ Fenced(t) /\ task[t].pc = "save"
                  /\ acct[task[t].actor].role = Admin
Free(t, a) == ~\E v \in Task \ {t} : Takes(v, a) \/ Shares(v, a)

Begin(t, kind, actor, target, to) ==
  /\ task[t].pc = "idle" /\ kind \in Kind /\ acct[actor].active /\ Free(t, target)
  /\ Set(t, [kind |-> kind, pc |-> IF kind = "leave" THEN "count" ELSE "check",
             actor |-> actor, target |-> target, to |-> to,
             snap |-> IF Mongo THEN acct ELSE First, mark |-> fence])
  /\ UNCHANGED <<acct, fence>>

(***************************************************************************)
(* An account leaves.                                                      *)
(***************************************************************************)

(* Fault: the own account is read and not taken. *)
DeactivateUntaken(t, a) == Begin(t, "leave", a, None, Admin)

(* deactivateAccount: the own account is taken. *)
DeactivateAccount(t, a) == Begin(t, "leave", a, a, Admin)

OtherActiveAdmins(t) ==
  {b \in Account \ {task[t].actor} : Sees(t, b).role = Admin /\ Sees(t, b).active}

(* Fault: the fence does not come before the count. *)
CountedUnfenced(t) == TRUE

(* takeFence: the administrator role, refused when it is taken.  On        *)
(* MongoDB the fence is a write, and decides at the commit.                *)
FenceFree(t) == ~\E v \in Task \ {t} : HasFence(v) \/ SharesFence(v)

(* assertAnotherActiveAdmin: the count of the others, behind the fence. *)
AssertAnotherActiveAdmin(t) ==
  /\ task[t].kind = "leave" /\ task[t].pc = "count"
  /\ IF Sees(t, task[t].actor).role # Admin THEN Goto(t, "save")
     ELSE IF ~FenceFree(t) THEN Rerun(t)
     ELSE IF OtherActiveAdmins(t) = {} THEN Refuse(t)
     ELSE Goto(t, "save")

(* Fault: the administrator role is not written. *)
AccountConflict(t) == Mongo /\ acct[task[t].actor].rev # task[t].snap[task[t].actor].rev

(* What an account that leaves has written has changed since. *)
LeaveConflicts(t) ==
  LET x == task[t] IN
  /\ Mongo
  /\ \/ acct[x.actor].rev # x.snap[x.actor].rev
     \/ x.snap[x.actor].role = Admin /\ fence # x.mark

(* saveDeactivation, and the commit. *)
SaveDeactivation(t) ==
  LET x == task[t] IN
  /\ x.kind = "leave" /\ x.pc = "save"
  /\ IF LeaveConflicts(t) THEN Rerun(t)
     ELSE /\ acct' = [acct EXCEPT ![x.actor] = Written([@ EXCEPT !.active = FALSE])]
          /\ fence' = IF acct[x.actor].role = Admin THEN Later(fence) ELSE fence
          /\ End(t, "done")

(***************************************************************************)
(* An account changes another one.                                         *)
(***************************************************************************)

(* updateUserStatus, deleteUser, updateUserRole, addPermission and         *)
(* removePermission: loadAuthorizedUser takes the target, which is         *)
(* another account.                                                        *)
ChangeAccount(t, kind, actor, target, to) ==
  /\ actor # target /\ kind # "leave" /\ (kind = "role" <=> to # Admin)
  /\ Begin(t, kind, actor, target, to)

CanModify(row, role) == Level[row.role] > Level[role]

(* Fault: the level of the actor is not looked at again. *)
ActiveActor(t) == Sees(t, task[t].actor).active

(* assertFreshActorCanModify: the actor is read again, for the role of the *)
(* target and the role it is to have.                                      *)
MayModify(t) ==
  LET x == task[t] row == Sees(t, x.actor) IN
  /\ row.active /\ CanModify(row, Sees(t, x.target).role)
  /\ x.kind = "role" => CanModify(row, x.to)

Check(t) ==
  /\ task[t].pc = "check"
  /\ IF ~MayModify(t) THEN Refuse(t) ELSE Goto(t, IF Fenced(t) THEN "hold" ELSE "save")

Holds(row) == row.role \in Carries \/ row.granted

(* Fault: the actor is read and not kept from changing. *)
ActorAnyway(t) == TRUE

(* readActor and readRoleAuthorityBySlug share the actor's row and that of *)
(* its role, refused when another unit of work has one of them.            *)
ActorFree(t) ==
  ~\E v \in Task \ {t} : \/ Takes(v, task[t].actor)
                         \/ acct[task[t].actor].role = Admin /\ HasFence(v)

(* assertFreshRolePermission: the actor is read a last time and held; it   *)
(* must be active and hold what the route asks for and what it hands out.  *)
HoldActor(t) ==
  LET row == Sees(t, task[t].actor) IN
  /\ task[t].pc = "hold"
  /\ IF ~ActorFree(t) THEN Rerun(t)
     ELSE IF ~(row.active /\ Holds(row)) THEN Refuse(t)
     ELSE Goto(t, "save")

(* Fault: the actor's row is not written. *)
TargetConflict(t) == Mongo /\ acct[task[t].target].rev # task[t].snap[task[t].target].rev

(* The target is written, and by a fenced change the actor and its role.   *)
(* (Of the roles only that of administrators is modelled.)                 *)
ChangeConflicts(t) ==
  LET x == task[t] IN
  /\ Mongo
  /\ \/ acct[x.target].rev # x.snap[x.target].rev
     \/ Fenced(t) /\ acct[x.actor].rev # x.snap[x.actor].rev
     \/ Fenced(t) /\ x.snap[x.actor].role = Admin /\ fence # x.mark

(* The row after the change.  (A status changes one way or the other.) *)
Changed(t, row) ==
  CASE task[t].kind = "status" -> [row EXCEPT !.active = ~@]
    [] task[t].kind = "role" -> [row EXCEPT !.role = task[t].to]
    [] OTHER -> [row EXCEPT !.granted = task[t].kind = "grant"]

(* A change of the role or of permissions needs an active account, and     *)
(* permissions that differ.                                                *)
Allowed(t, row) ==
  /\ Fenced(t) => row.active
  /\ task[t].kind = "grant" => ~row.granted
  /\ task[t].kind = "revoke" => row.granted

(* saveActivation, saveRole and savePermissions, and the commit. *)
Save(t) ==
  LET x == task[t] IN
  /\ x.kind # "leave" /\ x.pc = "save"
  /\ IF ~Allowed(t, Sees(t, x.target)) THEN Refuse(t)
     ELSE IF ChangeConflicts(t) THEN Rerun(t)
     ELSE /\ acct' = [a \in Account |->
               IF a = x.target THEN Written(Changed(t, acct[a]))
               ELSE IF a = x.actor /\ Fenced(t) THEN Written(acct[a])
               ELSE acct[a]]
          /\ fence' = IF Fenced(t) /\ acct[x.actor].role = Admin THEN Later(fence) ELSE fence
          /\ End(t, "done")

Next ==
  \E t \in Task :
    \/ AssertAnotherActiveAdmin(t) \/ SaveDeactivation(t)
    \/ Check(t) \/ HoldActor(t) \/ Save(t)
    \/ \E a \in Account : DeactivateAccount(t, a)
    \/ \E kind \in Kind, actor, target \in Account, to \in Role :
         ChangeAccount(t, kind, actor, target, to)

Spec == Init /\ [][Next]_vars

(***************************************************************************)
(* Properties.                                                             *)
(***************************************************************************)

TaskType ==
  [kind : Kinds, pc : {"idle", "count", "check", "hold", "save", "done", "refused"},
   actor : Account \cup {None}, target : Account \cup {None}, to : Role,
   snap : [Account -> Row], mark : Nat]

(* Types; a request that runs has its accounts. *)
TypeOK ==
  /\ acct \in [Account -> Row] /\ fence \in Nat /\ task \in [Task -> TaskType]
  /\ \A t \in Task : Running(t) => /\ task[t].actor \in Account /\ task[t].target \in Account
                                   /\ task[t].kind = "leave" => task[t].target = task[t].actor

(* An administrator remains, however many of them leave at once: each      *)
(* counts the others behind the fence on the administrator role.           *)
AdminRemains == \E a \in Account : acct[a].role = Admin /\ acct[a].active

Commits(t) == task[t].pc = "save" /\ task'[t].pc = "done" /\ task[t].kind # "leave"

(* A role or a permission is handed out, or taken away, only while the     *)
(* actor is active and holds what it hands out: a revocation from the      *)
(* actor and the actor's own grant do not both commit in that order.       *)
HandedOutByHolder ==
  [][\A t \in Task : Commits(t) /\ Fenced(t) =>
       acct[task[t].actor].active /\ Holds(acct[task[t].actor])]_vars

(* Every change is made by an actor that is active and outranks the        *)
(* account: a demotion or deactivation is not acted against.               *)
ActsWithRank ==
  \A t \in Task : Commits(t) =>
    /\ acct[task[t].actor].active
    /\ CanModify(acct[task[t].actor], acct[task[t].target].role)
=============================================================================
