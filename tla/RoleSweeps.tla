----------------------------- MODULE RoleSweeps -----------------------------
(***************************************************************************)
(* Roles and the accounts that hold them: RoleEditService (edit, delete),  *)
(* the repair of holders after it and at start-up, and the assignment of a *)
(* role by an administrator with its reconciliation.                       *)
(*                                                                         *)
(* An account names its role by the slug, and a slug may change or go.  A  *)
(* rename moves the holders in its own unit of work and leaves a note of   *)
(* the repair that is owed, in case an assignment still writes the old     *)
(* slug; sweeps then move whoever is left on a slug that no role carries.  *)
(*                                                                         *)
(* On PostgreSQL a statement reads what is committed and rows are locked,  *)
(* refused at once when they are taken; on MongoDB a unit of work reads    *)
(* one snapshot and is refused when a row it writes has changed since.  A  *)
(* refused unit of work runs again.  The actor's own permissions are not   *)
(* modelled.                                                               *)
(***************************************************************************)
EXTENDS Integers, FiniteSets

CONSTANTS
  Store,        \* "postgres" or "mongo"
  Task, Kind,   \* requests and starts of a process, and what they may do
  Role, UserRole, First, \* ids; the default role; the custom roles at first
  Slug, SlugOf, \* slugs, and those the roles have at first
  User, Held,   \* accounts, and the slugs they hold at first
  Passes,       \* ROLE_HOLDER_SWEEP_PASSES
  Limit,        \* ROLE_PENDING_SWEEP_LIMIT
  None

RoleAssumption ==
  /\ Store \in {"postgres", "mongo"} /\ {Passes, Limit} \subseteq Nat \ {0}
  /\ UserRole \in Role /\ First \subseteq Role \ {UserRole}
  /\ SlugOf \in [First \cup {UserRole} -> Slug] /\ None \notin Slug
  /\ \A r, q \in First \cup {UserRole} : SlugOf[r] = SlugOf[q] => r = q
  /\ Held \in [User -> {SlugOf[r] : r \in First \cup {UserRole}} \cup {None}]
  /\ Kind \subseteq {"edit", "delete", "insert", "assign", "create", "boot"}

VARIABLES
  role,      \* [Role -> [state, slug, owed, rev]]
  hold,      \* the slug of every account; None for no account
  ver,       \* session versions
  history,   \* the latest assignment event of an account
  deletion,  \* deletion events of roles: None or [slug, by, pending]
  task       \* the requests, with what they have read

vars == <<role, hold, ver, history, deletion, task>>
rows == <<role, hold, ver, history, deletion>>

NoSweep == [role |-> None, from |-> None, fence |-> FALSE, prev |-> None,
            sources |-> {}, pass |-> 0, plan |-> <<>>, owner |-> None, ref |-> None,
            recorded |-> FALSE]
NoTask == [kind |-> "none", pc |-> "idle", role |-> None, slug |-> None, user |-> None,
           was |-> None, rev |-> 0, uver |-> 0, owed |-> {}, fall |-> {}, fallRev |-> 0,
           held |-> None, prev |-> None, todo |-> {}, tried |-> {}, sweep |-> NoSweep,
           failed |-> FALSE, idle |-> {}]
NoAssignment == [role |-> None, prev |-> None]

Init ==
  /\ role = [r \in Role |->
       IF r \in First \cup {UserRole}
       THEN [state |-> "live", slug |-> SlugOf[r], owed |-> {}, rev |-> 0]
       ELSE [state |-> "none", slug |-> None, owed |-> {}, rev |-> 0]]
  /\ hold = Held /\ ver = [u \in User |-> 0]
  /\ history = [u \in User |-> NoAssignment]
  /\ deletion = [r \in Role |-> None]
  /\ task = [t \in Task |-> NoTask]

(***************************************************************************)
(* The stores.                                                             *)
(***************************************************************************)

Live(r) == role[r].state = "live"
Carriers(s) == {r \in Role : Live(r) /\ role[r].slug = s}
BySlug(s) == IF Carriers(s) = {} THEN None ELSE CHOOSE r \in Carriers(s) : TRUE
Stranded(u) == hold[u] # None /\ Carriers(hold[u]) = {}

Mongo == Store = "mongo"

(* Row locks of PostgreSQL, to the end of the unit of work. *)
Takes(t, r) == ~Mongo /\ task[t].role = r /\ task[t].pc \in {"save", "remove"}
Shares(t, r) == ~Mongo /\ task[t].held = r /\ task[t].pc = "assign"
RoleFree(t, r) == ~\E v \in Task \ {t} : Takes(v, r) \/ Shares(v, r)
TakesUser(t, u) == /\ ~Mongo /\ task[t].kind = "assign" /\ task[t].user = u
                   /\ task[t].pc \in {"hold", "assign"}
UserFree(t, u) == ~\E v \in Task \ {t} : TakesUser(v, u)

(* On MongoDB: the document is as the unit of work read it. *)
Same(r, rev) == Mongo => role[r].rev = rev
Write(rl) == IF Mongo THEN [rl EXCEPT !.rev = @ + 1] ELSE rl

Set(t, x) == task' = [task EXCEPT ![t] = x]
Goto(t, pc) == task' = [task EXCEPT ![t].pc = pc]
Only(t, pc) == Goto(t, pc) /\ UNCHANGED rows

(* A refused unit of work runs again. *)
Rerun(t) == Set(t, NoTask) /\ UNCHANGED rows

(* moveHolders: the accounts get the slug and lose their sessions. *)
MoveHolders(us, to) ==
  /\ hold' = [u \in User |-> IF u \in us THEN to[u] ELSE hold[u]]
  /\ ver' = [u \in User |-> IF u \in us THEN ver[u] + 1 ELSE ver[u]]

(***************************************************************************)
(* Edit, delete and create a role.                                         *)
(***************************************************************************)

(* editInWork: the role is taken ... *)
TakeForEdit(t, r, s) ==
  /\ "edit" \in Kind /\ task[t].pc = "idle" /\ r # UserRole /\ Live(r) /\ RoleFree(t, r)
  /\ Set(t, [NoTask EXCEPT !.kind = "edit", !.pc = "save", !.role = r, !.slug = s,
             !.was = role[r].slug, !.rev = role[r].rev, !.owed = role[r].owed])
  /\ UNCHANGED rows

OwedBy(t) == [role |-> task[t].role, slug |-> task[t].was, by |-> t]

(* A rename owes a repair. *)
Notes(t) == IF task[t].slug = task[t].was THEN task[t].owed ELSE task[t].owed \cup {OwedBy(t)}

Repairs(owner, refs, recorded) ==
  {[owner |-> owner, ref |-> f, recorded |-> recorded] : f \in refs}

(* Fault: a role may owe any number of repairs. *)
AnyNumberOwed(t) == Carriers(task[t].slug) \ {task[t].role} # {}

(* The slug of another role is refused, and a rename past the limit.       *)
Forbidden(t) ==
  LET x == task[t] IN
  \/ Carriers(x.slug) \ {x.role} # {}
  \/ x.slug # x.was /\ Cardinality(x.owed) >= Limit

(* ... and saved with its holders moved.  (An edit that keeps the slug     *)
(* changes permissions or the level, which ends sessions as well.)         *)
SaveEdit(t) ==
  LET x == task[t] us == {u \in User : hold[u] = x.was} IN
  /\ x.kind = "edit" /\ x.pc = "save"
  /\ IF \/ ~Same(x.role, x.rev)
        \/ Mongo /\ ~Live(x.role)
        \/ \E u \in us : ~UserFree(t, u)
     THEN Rerun(t)
     ELSE IF Forbidden(t) THEN Only(t, "refused")
     ELSE /\ role' = [role EXCEPT ![x.role] =
               Write([@ EXCEPT !.slug = x.slug, !.owed = Notes(t)])]
          /\ MoveHolders(us, [u \in us |-> x.slug])
          /\ Set(t, [x EXCEPT !.pc = "repair", !.todo = Repairs(x.role, Notes(t), TRUE)])
          /\ UNCHANGED <<history, deletion>>

(* deleteInWork: a role without holders is taken; what the default role    *)
(* owes is read ...                                                        *)
TakeForDelete(t, r) ==
  /\ "delete" \in Kind /\ task[t].pc = "idle" /\ r # UserRole /\ Live(r) /\ RoleFree(t, r)
  /\ ~\E u \in User : hold[u] = role[r].slug
  /\ Set(t, [NoTask EXCEPT !.kind = "delete", !.pc = "remove", !.role = r,
             !.was = role[r].slug, !.rev = role[r].rev, !.owed = role[r].owed,
             !.fall = role[UserRole].owed, !.fallRev = role[UserRole].rev])
  /\ UNCHANGED rows

(* ... and the role removed; the default role takes over what it owed.     *)
RemoveRole(t) ==
  LET x == task[t]
      recorded == x.owed # {}
      refs == {OwedBy(t)} \cup x.owed
  IN
  /\ x.kind = "delete" /\ x.pc = "remove"
  /\ IF recorded /\ Cardinality(x.fall \cup refs) > Limit THEN Only(t, "refused")
     ELSE IF \/ ~Same(x.role, x.rev)
             \/ Mongo /\ ~Live(x.role)
             \/ recorded /\ (~RoleFree(t, UserRole) \/ ~Same(UserRole, x.fallRev))
     THEN Rerun(t)
     ELSE /\ role' = [role EXCEPT ![x.role].state = "gone", ![x.role].owed = {},
               ![UserRole] = IF recorded THEN Write([@ EXCEPT !.owed = x.fall \cup refs])
                             ELSE @]
          /\ deletion' = [deletion EXCEPT ![x.role] =
               [slug |-> x.was, by |-> t, pending |-> TRUE]]
          /\ Set(t, [x EXCEPT !.pc = "repair", !.todo = Repairs(UserRole, refs, recorded)])
          /\ UNCHANGED <<hold, ver, history>>

InsertCustomRole(t, r, s) ==
  /\ "insert" \in Kind /\ task[t].pc = "idle" /\ role[r].state = "none"
  /\ Carriers(s) = {}
  /\ role' = [role EXCEPT ![r] = [@ EXCEPT !.state = "live", !.slug = s]]
  /\ Set(t, [NoTask EXCEPT !.kind = "insert", !.pc = "done"])
  /\ UNCHANGED <<hold, ver, history, deletion>>

(***************************************************************************)
(* Assign a role to an account, or create an account with one.             *)
(***************************************************************************)

(* The account is taken and the role found by its slug ... *)
TakeAccount(t, u, s) ==
  /\ task[t].pc = "idle" /\ Carriers(s) # {}
  /\ IF hold[u] = None THEN "create" \in Kind ELSE "assign" \in Kind /\ UserFree(t, u)
  /\ LET r == BySlug(s) IN
     Set(t, [NoTask EXCEPT !.kind = IF hold[u] = None THEN "create" ELSE "assign",
             !.pc = "hold", !.user = u, !.slug = s, !.role = r, !.rev = role[r].rev,
             !.uver = ver[u], !.was = hold[u]])
  /\ UNCHANGED rows

(* ... readRoleAuthorityBySlug holds the role that has the slug now, if    *)
(* there is one ...                                                        *)
HoldRole(t) ==
  LET x == task[t] r == BySlug(x.slug) IN
  /\ x.pc = "hold"
  /\ IF \/ Mongo /\ (~Live(x.role) \/ ~Same(x.role, x.rev))
        \/ r # None /\ \E v \in Task \ {t} : Takes(v, r)
     THEN Rerun(t)
     ELSE /\ Set(t, [x EXCEPT !.pc = "assign", !.held = r]) /\ UNCHANGED rows

(* Fault: the role may have changed. *)
AccountConflicts(t) == Mongo /\ ver[task[t].user] # task[t].uver

(* On MongoDB the role is written as well, for nothing but the conflict.   *)
Conflicts(t) ==
  LET x == task[t] IN
  Mongo /\ (~Live(x.role) \/ ~Same(x.role, x.rev) \/ ver[x.user] # x.uver)

(* ... and the account is saved, with the role it had before.              *)
SaveRole(t) ==
  LET x == task[t] IN
  /\ x.kind = "assign" /\ x.pc = "assign"
  /\ IF Conflicts(t) THEN Rerun(t)
     ELSE /\ hold' = [hold EXCEPT ![x.user] = x.slug]
          /\ ver' = [ver EXCEPT ![x.user] = @ + 1]
          /\ history' = [history EXCEPT ![x.user] =
               [role |-> x.role, prev |-> BySlug(x.was)]]
          /\ role' = [role EXCEPT ![x.role] = Write(@)]
          /\ Set(t, [x EXCEPT !.pc = "reconcile", !.held = None, !.prev = BySlug(x.was)])
          /\ UNCHANGED deletion

(* ... or the new account is stored, if nobody has the address.            *)
InsertAccount(t) ==
  LET x == task[t] IN
  /\ x.kind = "create" /\ x.pc = "assign"
  /\ IF hold[x.user] # None THEN Only(t, "refused")
     ELSE IF Conflicts(t) THEN Rerun(t)
     ELSE /\ hold' = [hold EXCEPT ![x.user] = x.slug]
          /\ role' = [role EXCEPT ![x.role] = Write(@)]
          /\ Set(t, [x EXCEPT !.pc = "reconcile", !.held = None])
          /\ UNCHANGED <<ver, history, deletion>>

(* Fault: the assignment is taken to stand. *)
ReconcileNothing(t) == task[t].pc = "reconcile" /\ Only(t, "done")

SweepFor(t, from, prev) ==
  Set(t, [task[t] EXCEPT !.pc = "sweep", !.sweep =
    [NoSweep EXCEPT !.role = task[t].role, !.from = from, !.sources = {from},
                    !.prev = prev]])

(* reconcileAssignedRole: the role may have moved or gone meanwhile. *)
Reconcile(t) ==
  LET x == task[t] IN
  /\ x.pc = "reconcile"
  /\ IF Live(x.role)
     THEN IF role[x.role].slug = x.slug THEN Goto(t, "done") ELSE SweepFor(t, x.slug, None)
     ELSE IF x.kind = "create" THEN Goto(t, "undo") ELSE SweepFor(t, x.slug, x.prev)
  /\ UNCHANGED rows

(* removeCreatedAccount: a new account nobody has changed is taken back. *)
RemoveCreated(t) ==
  LET x == task[t] IN
  /\ x.pc = "undo"
  /\ IF hold[x.user] = x.slug /\ ver[x.user] = 0
     THEN /\ hold' = [hold EXCEPT ![x.user] = None] /\ Goto(t, "done")
          /\ UNCHANGED <<role, ver, history, deletion>>
     ELSE IF Stranded(x.user) THEN SweepFor(t, hold[x.user], None) /\ UNCHANGED rows
     ELSE Only(t, "done")

(***************************************************************************)
(* Sweeps.                                                                 *)
(***************************************************************************)

(* repairPendingRoleSweeps: one owed repair after the other ... *)
NextRepair(t, p) ==
  /\ task[t].pc = "repair" /\ p \in task[t].todo
  /\ Set(t, [task[t] EXCEPT !.pc = "sweep", !.todo = @ \ {p}, !.sweep =
       [NoSweep EXCEPT !.role = p.ref.role, !.from = p.ref.slug, !.fence = TRUE,
          !.sources = {p.ref.slug}, !.owner = p.owner, !.ref = p.ref,
          !.recorded = p.recorded]])
  /\ UNCHANGED rows

(* Where a sweep puts an account: on its role, or on the role it had       *)
(* before, or on the default one.                                          *)
Destination(t, u) ==
  LET w == task[t].sweep
      restore == IF history[u].role = w.role /\ history[u].prev # None THEN history[u].prev
                 ELSE IF u = task[t].user THEN w.prev ELSE None
  IN IF Live(w.role) THEN w.role
     ELSE IF restore # None /\ Live(restore) THEN restore ELSE UserRole

(* Fault: only the first slug is looked at. *)
StaleAtFirst(t) == {u \in User : hold[u] = task[t].sweep.from /\ Stranded(u)}

Stale(t) == {u \in User : hold[u] \in task[t].sweep.sources /\ Stranded(u)}

(* sweepPass reads ... *)
SweepRead(t) ==
  LET w == task[t].sweep IN
  /\ task[t].pc = "sweep"
  /\ IF Carriers(w.from) \ {w.role} # {} \/ Stale(t) = {} THEN Goto(t, "swept")
     ELSE task' = [task EXCEPT ![t].pc = "move", ![t].sweep.plan =
            [u \in Stale(t) |-> LET d == Destination(t, u) IN
               [role |-> d, slug |-> role[d].slug, rev |-> role[d].rev,
                from |-> hold[u], ver |-> ver[u]]]]
  /\ UNCHANGED rows

(* Fenced destinations are taken; the accounts are taken too. *)
Refused(t) ==
  LET w == task[t].sweep us == DOMAIN w.plan IN
  \/ w.fence /\ \E u \in us : \/ ~RoleFree(t, w.plan[u].role)
                              \/ ~Same(w.plan[u].role, w.plan[u].rev)
                              \/ Mongo /\ ~Live(w.plan[u].role)
  \/ \E u \in us : ~UserFree(t, u) \/ (Mongo /\ ver[u] # w.plan[u].ver)

(* ... and moves who is still there.  A pass that moves nobody is the last *)
(* one.                                                                    *)
SweepMove(t) ==
  LET w == task[t].sweep
      us == {u \in DOMAIN w.plan : \E v \in DOMAIN w.plan : hold[u] = w.plan[v].from}
      dests == {w.plan[u].role : u \in us}
  IN
  /\ task[t].pc = "move"
  /\ IF Refused(t) THEN Only(t, "sweep")
     ELSE /\ MoveHolders(us, [u \in us |-> w.plan[u].slug])
          /\ role' = [r \in Role |-> IF w.fence /\ r \in dests THEN Write(role[r])
                                     ELSE role[r]]
          /\ task' = [task EXCEPT ![t].sweep.plan = <<>>, ![t].sweep.pass = @ + 1,
               ![t].sweep.sources = @ \cup {w.plan[u].slug : u \in DOMAIN w.plan},
               ![t].pc = IF us = {} THEN "swept"
                         ELSE IF w.pass + 1 < Passes THEN "sweep" ELSE "last"]
          /\ UNCHANGED <<history, deletion>>

Fails(t) == Set(t, [task[t] EXCEPT !.pc = "failed", !.failed = TRUE]) /\ UNCHANGED rows

(* After the last pass nobody may be left. *)
SweepLast(t) ==
  /\ task[t].pc = "last"
  /\ IF Stale(t) = {} THEN Only(t, "swept") ELSE Fails(t)

(* The store fails, or refuses too often. *)
SweepFails(t) == task[t].pc \in {"sweep", "move", "last"} /\ Fails(t)

Reconciles(t) == task[t].kind \in {"assign", "create"}

(* Fault: the note goes although holders remain. *)
ClearsAlways(t) == task[t].pc \in {"swept", "failed"}

Clears(t) == task[t].pc = "swept"

(* ... a repair that is done is cleared ... *)
ClearPendingSweep(t) ==
  LET w == task[t].sweep IN
  /\ Clears(t) /\ ~Reconciles(t) /\ RoleFree(t, w.owner)
  /\ role' = [role EXCEPT ![w.owner] =
       IF w.recorded /\ Live(w.owner) THEN Write([role[w.owner] EXCEPT !.owed = @ \ {w.ref}])
       ELSE @]
  /\ Goto(t, "complete") /\ UNCHANGED <<hold, ver, history, deletion>>

CompleteDeletion(t) ==
  LET r == task[t].sweep.ref.role IN
  /\ task[t].pc = "complete"
  /\ deletion' = IF deletion[r] = None THEN deletion
                 ELSE [deletion EXCEPT ![r].pending = FALSE]
  /\ task' = [task EXCEPT ![t].pc = "repair", ![t].sweep = NoSweep]
  /\ UNCHANGED <<role, hold, ver, history>>

(* ... one that fails stays owed.                                          *)
RecordPendingSweep(t) ==
  LET w == task[t].sweep owed == role[w.owner].owed IN
  /\ task[t].pc = "failed" /\ ~Reconciles(t) /\ RoleFree(t, w.owner)
  /\ role' = [role EXCEPT ![w.owner] =
       IF /\ ~w.recorded /\ Live(w.owner) /\ Cardinality(owed) < Limit
          /\ ~\E f \in owed : f.role = w.ref.role /\ f.slug = w.ref.slug
       THEN Write([role[w.owner] EXCEPT !.owed = @ \cup {w.ref}]) ELSE @]
  /\ task' = [task EXCEPT ![t].pc = "repair", ![t].sweep = NoSweep]
  /\ UNCHANGED <<hold, ver, history, deletion>>

EndRepairs(t) ==
  \/ task[t].pc = "repair" /\ task[t].todo = {} /\ task[t].kind # "boot" /\ Only(t, "done")
  \/ task[t].pc = "swept" /\ Reconciles(t) /\ Only(t, "done")

Idle(t) == {v \in Task \ {t} : task[v].pc = "idle"}
Over(t) == \/ task[t].pc \in {"idle", "done", "refused", "stopped"}
           \/ task[t].pc = "failed" /\ Reconciles(t)

(* RoleSweepBootstrapService: at start-up, what roles owe ... *)
ListSweepOwners(t) ==
  /\ "boot" \in Kind /\ task[t].pc = "idle"
  /\ LET all == UNION {Repairs(r, role[r].owed, TRUE) : r \in {q \in Role : Live(q)}} IN
     Set(t, [NoTask EXCEPT !.kind = "boot", !.pc = "repair", !.todo = all,
             !.idle = IF \A v \in Task : Over(v) THEN Idle(t) ELSE {t},
             !.tried = {<<p.ref.role, p.ref.slug>> : p \in all}])
  /\ UNCHANGED rows

(* Fault: deletions are not looked for. *)
ListsNoDeletions(t) ==
  /\ task[t].kind = "boot" /\ task[t].pc = "repair" /\ task[t].todo = {} /\ Only(t, "done")

(* ... and then the deletions nobody has finished.                         *)
ListPendingDeletions(t) ==
  LET x == task[t]
      left == {r \in Role : /\ deletion[r] # None /\ deletion[r].pending
                            /\ <<r, deletion[r].slug>> \notin x.tried}
  IN
  /\ x.kind = "boot" /\ x.pc = "repair" /\ x.todo = {}
  /\ Set(t, [x EXCEPT !.pc = IF left = {} THEN "done" ELSE "repair",
       !.tried = @ \cup {<<r, deletion[r].slug>> : r \in left},
       !.todo = UNION {Repairs(UserRole, {[role |-> r, slug |-> deletion[r].slug,
                                           by |-> deletion[r].by]},
                  \E f \in role[UserRole].owed : f.role = r) : r \in left}])
  /\ UNCHANGED rows

(* The process stops. *)
Stop(t) == ~Over(t) /\ Only(t, "stopped")

Next ==
  \E t \in Task :
    \/ SaveEdit(t) \/ RemoveRole(t) \/ HoldRole(t) \/ SaveRole(t)
    \/ InsertAccount(t) \/ Reconcile(t)
    \/ RemoveCreated(t) \/ SweepRead(t) \/ SweepMove(t) \/ SweepLast(t) \/ SweepFails(t)
    \/ ClearPendingSweep(t) \/ CompleteDeletion(t) \/ RecordPendingSweep(t)
    \/ EndRepairs(t) \/ ListSweepOwners(t) \/ ListPendingDeletions(t) \/ Stop(t)
    \/ \E r \in Role : TakeForDelete(t, r)
    \/ \E r \in Role, s \in Slug : TakeForEdit(t, r, s) \/ InsertCustomRole(t, r, s)
    \/ \E u \in User, s \in Slug : TakeAccount(t, u, s)
    \/ \E p \in task[t].todo : NextRepair(t, p)

Spec == Init /\ [][Next]_vars

(***************************************************************************)
(* Properties.                                                             *)
(***************************************************************************)

Ref == [role : Role, slug : Slug, by : Task]

(* Types; no two roles have one slug; only live roles owe repairs, and no  *)
(* more than the limit.                                                    *)
TypeOK ==
  /\ hold \in [User -> Slug \cup {None}] /\ ver \in [User -> Nat]
  /\ \A r \in Role : /\ role[r].owed \subseteq Ref /\ Cardinality(role[r].owed) <= Limit
                     /\ ~Live(r) => role[r].owed = {}
  /\ \A s \in Slug : Cardinality(Carriers(s)) <= 1

(* On MongoDB an assignment and a change of its role do not both commit:   *)
(* readRoleAuthorityBySlug writes the role, so that nobody is ever left on *)
(* a slug that no role carries.                                            *)
NobodyStranded == \A u \in User : ~Stranded(u)

(* When every request has ended, none stopped and no sweep failed, every   *)
(* account holds a role that exists: the sweeps and the reconciliation     *)
(* cover every order of commits, and a sweep that reports success leaves   *)
(* nobody behind.                                                          *)
SettledHoldsARole ==
  (\A t \in Task : task[t].pc \in {"idle", "done", "refused"} /\ ~task[t].failed) =>
    \A u \in User : ~Stranded(u)

(* Whatever stopped or failed before, one start of the process that no     *)
(* other request meets and that fails at nothing leaves no repair owed.    *)
StartSettles ==
  (/\ \A t \in Task : Over(t)
   /\ \E t \in Task : /\ task[t].kind = "boot" /\ task[t].pc = "done"
                     /\ ~task[t].failed /\ task[t].idle = Idle(t)) =>
  \A r \in Role : role[r].owed = {} /\ (deletion[r] # None => ~deletion[r].pending)

(* A fenced sweep puts accounts on the slug its role carries: an edit of   *)
(* that role and the move do not both commit.                              *)
FencedMoveLands ==
  \A t \in Task :
    task[t].pc = "move" /\ task[t].sweep.fence /\ task'[t].sweep.pass > task[t].sweep.pass
    => \A u \in User : hold'[u] # hold[u] => Carriers(hold'[u]) # {}

(* A repair that a role owes is taken off its list only by the sweep that  *)
(* has done it: never by another change to the list.                       *)
OwedIsKept ==
  \A r \in Role : \A f \in role[r].owed :
    (Live(r) /\ \A q \in Role : f \notin role'[q].owed)
    => \E t \in Task : task[t].sweep.ref = f /\ task[t].pc = "swept"
=============================================================================
