------------------------ MODULE AdminAuthorityProofs ------------------------
(***************************************************************************)
(* An administrator remains, authority is handed out by who holds it, and  *)
(* renamed or deleted roles leave nothing behind, for every set of         *)
(* accounts, roles and requests, on both stores.                           *)
(*                                                                         *)
(* AdminRemains is not inductive.  The argument of the stores is: on       *)
(* PostgreSQL a row that a unit of work has taken or shared is changed by  *)
(* no other (LockOnce, SharedUntaken, FenceOnce); on MongoDB a row that    *)
(* has kept its version is as the snapshot says, and while the             *)
(* administrator role has kept its version no administrator has gone       *)
(* (SnapTrue).  Either way what a request has seen (TargetLow,             *)
(* LeaveBacked, HeldGood) still holds when it commits.                     *)
(*                                                                         *)
(* A start of the process that nothing meets has, at every step, each      *)
(* repair that is owed and each deletion it has listed still before it     *)
(* (Covered).  On MongoDB a request that has read a role either knows its  *)
(* slug, or finds at its commit that the role has changed (Believed).      *)
(***************************************************************************)
EXTENDS RolePromises, TLAPS

IsAdmin(row) == row.role = Admin /\ row.active
Good(row) == row.active /\ Holds(row)

(* No account changes itself through the administration, nor is one that  *)
(* leaves checked as an actor.                                             *)
Apart ==
  \A t \in Task : /\ Running(t) /\ task[t].kind # "leave" => task[t].actor # task[t].target
                  /\ task[t].pc \in {"check", "hold"} => task[t].kind # "leave"

(* PostgreSQL: a taken row is taken once, ... *)
LockOnce ==
  ~Mongo => \A t, v \in Task : t # v /\ Running(t) /\ Running(v)
                               => task[t].target # task[v].target

(* ... a shared one is not taken, ... *)
SharedUntaken ==
  ~Mongo => \A t, v \in Task : t # v /\ Fenced(t) /\ task[t].pc = "save" /\ Running(v)
                               => task[t].actor # task[v].target

(* ... and the fence is held once. *)
FenceOnce == \A t, v \in Task : HasFence(t) /\ HasFence(v) => t = v

(* MongoDB: what has kept its version is as it was. *)
SnapTrue ==
  Mongo => \A t \in Task : Running(t) =>
    /\ \A a \in Account : /\ task[t].snap[a].rev <= acct[a].rev
                          /\ task[t].snap[a].rev = acct[a].rev => task[t].snap[a] = acct[a]
    /\ task[t].mark <= fence
    /\ task[t].mark = fence =>
         \A a \in Account : IsAdmin(task[t].snap[a]) => IsAdmin(acct[a])

(* A change past its check is not of an administrator. *)
TargetLow ==
  \A t \in Task : task[t].kind # "leave" /\ task[t].pc \in {"hold", "save"}
                  => Sees(t, task[t].target).role # Admin

(* An administrator about to leave has seen another one. *)
LeaveBacked ==
  \A t \in Task : /\ task[t].kind = "leave" /\ task[t].pc = "save"
                  /\ Sees(t, task[t].actor).role = Admin
                  => \E b \in Account \ {task[t].actor} : IsAdmin(Sees(t, b))

(* The actor of a fenced change has been seen to hold what it needs. *)
HeldGood ==
  \A t \in Task : Fenced(t) /\ task[t].pc = "save" => Good(Sees(t, task[t].actor))

IInv == /\ TypeOK /\ AdminRemains /\ Apart /\ LockOnce /\ SharedUntaken /\ FenceOnce
        /\ SnapTrue /\ TargetLow /\ LeaveBacked /\ HeldGood

(***************************************************************************)
(* The steps.                                                              *)
(***************************************************************************)

LEMMA NoTaskType == ASSUME NEW pc \in {"idle", "done", "refused"}
                    PROVE  /\ [NoTask EXCEPT !.pc = pc] \in TaskType
                           /\ [NoTask EXCEPT !.pc = pc].pc = pc
  BY AuthorityAssumption DEF NoTask, TaskType, Kinds

(* The invariant holds at first. *)
LEMMA InitInv == Init => IInv
<1> SUFFICES ASSUME Init PROVE IInv
  OBVIOUS
<1>1. NoTask \in TaskType /\ NoTask.pc = "idle"
  BY AuthorityAssumption DEF NoTask, TaskType, Kinds
<1>2. \A t \in Task : task[t] = NoTask /\ task[t].pc = "idle" /\ ~Running(t)
  BY <1>1 DEF Init, Running
<1>3. TypeOK
  BY <1>1, <1>2, AuthorityAssumption DEF Init, TypeOK
<1>4. AdminRemains
  BY AuthorityAssumption DEF Init, AdminRemains
<1> QED
  BY <1>2, <1>3, <1>4
     DEF IInv, Apart, LockOnce, SharedUntaken, FenceOnce, HasFence, SnapTrue, TargetLow,
         LeaveBacked, HeldGood

(* A request that ends, or starts again, with nothing written. *)
LEMMA QuietEnd ==
  ASSUME IInv, NEW t \in Task, NEW pc \in {"idle", "done", "refused"},
         End(t, pc), UNCHANGED <<acct, fence>>
  PROVE  IInv'
<1> DEFINE x == [NoTask EXCEPT !.pc = pc]
<1>1. x \in TaskType /\ x.pc = pc
  BY NoTaskType
<1>2. task' = [task EXCEPT ![t] = x] /\ task \in [Task -> TaskType]
  BY DEF End, Set, IInv, TypeOK
<1>3. task'[t] = x /\ \A v \in Task \ {t} : task'[v] = task[v]
  BY <1>2
<1> HIDE DEF x
<1>4. ~Running(t)' /\ \A v \in Task \ {t} : Running(v)' = Running(v)
  BY <1>1, <1>3 DEF Running
<1>5. acct' = acct /\ fence' = fence
  OBVIOUS
<1>6. \A v \in Task \ {t}, a \in Account : Sees(v, a)' = Sees(v, a)
  BY <1>3, <1>5 DEF Sees
<1>7. TypeOK'
  BY <1>1, <1>2, <1>3, <1>4, <1>5 DEF IInv, TypeOK
<1>8. AdminRemains'
  BY <1>5 DEF IInv, AdminRemains
<1>9. Apart' /\ LockOnce'
  BY <1>1, <1>3, <1>4 DEF IInv, Apart, LockOnce, Mongo
<1>10. SharedUntaken'
  BY <1>1, <1>3, <1>4 DEF IInv, SharedUntaken, Mongo, Fenced
<1>11. FenceOnce'
  BY <1>1, <1>3, <1>5 DEF IInv, FenceOnce, HasFence, Mongo
<1>12. SnapTrue'
  BY <1>3, <1>4, <1>5 DEF IInv, SnapTrue, Mongo, IsAdmin
<1>13. TargetLow'
  BY <1>1, <1>3, <1>5 DEF IInv, TargetLow, Sees, Mongo
<1>14. LeaveBacked'
  BY <1>1, <1>3, <1>5 DEF IInv, LeaveBacked, Sees, IsAdmin, Mongo
<1>15. HeldGood'
  BY <1>1, <1>3, <1>5 DEF IInv, HeldGood, Sees, Good, Holds, Fenced, Mongo
<1> QED
  BY <1>7, <1>8, <1>9, <1>10, <1>11, <1>12, <1>13, <1>14, <1>15 DEF IInv

(* A request that goes on, with what the next step relies on. *)
LEMMA GoOn ==
  ASSUME IInv, NEW t \in Task, NEW pc \in {"hold", "save"}, Running(t), Goto(t, pc),
         pc = "hold" => task[t].kind # "leave",
         task[t].kind # "leave" => Sees(t, task[t].target).role # Admin,
         ~Mongo /\ Fenced(t) /\ pc = "save" =>
           \A v \in Task \ {t} : ~Takes(v, task[t].actor),
         Fenced(t) /\ pc = "save" => Good(Sees(t, task[t].actor)),
         task[t].kind = "leave" /\ pc = "save" /\ Sees(t, task[t].actor).role = Admin =>
           /\ \A v \in Task \ {t} : ~HasFence(v)
           /\ \E b \in Account \ {task[t].actor} : IsAdmin(Sees(t, b))
  PROVE  IInv'
<1> DEFINE x == [task[t] EXCEPT !.pc = pc]
<1>1. /\ task \in [Task -> TaskType] /\ acct' = acct /\ fence' = fence
      /\ task' = [task EXCEPT ![t] = x]
  BY DEF Goto, Set, IInv, TypeOK
<1>2. x \in TaskType /\ x.pc = pc /\ x.kind = task[t].kind /\ x.actor = task[t].actor
      /\ x.target = task[t].target /\ x.snap = task[t].snap /\ x.mark = task[t].mark
  BY <1>1 DEF TaskType
<1>3. task'[t] = x /\ \A v \in Task \ {t} : task'[v] = task[v]
  BY <1>1
<1> HIDE DEF x
<1>4. \A v \in Task : Running(v)' = Running(v)
  BY <1>2, <1>3 DEF Running
<1>5. \A v \in Task : /\ task'[v].kind = task[v].kind /\ task'[v].actor = task[v].actor
                      /\ task'[v].target = task[v].target /\ task'[v].snap = task[v].snap
                      /\ task'[v].mark = task[v].mark
  BY <1>2, <1>3
<1>6. TypeOK'
  BY <1>1, <1>2, <1>4, <1>5 DEF IInv, TypeOK
<1>7. AdminRemains'
  BY <1>1 DEF IInv, AdminRemains
<1>8. Apart' /\ LockOnce'
  BY <1>2, <1>3, <1>4, <1>5 DEF IInv, Apart, LockOnce, Mongo
<1>9. SharedUntaken'
  BY <1>2, <1>3, <1>4, <1>5 DEF IInv, SharedUntaken, Mongo, Fenced, Takes
<1>10. FenceOnce'
  BY <1>1, <1>2, <1>3, <1>5 DEF IInv, FenceOnce, HasFence, Mongo, Sees
<1>11. SnapTrue'
  BY <1>1, <1>4, <1>5 DEF IInv, SnapTrue, Mongo, IsAdmin
<1>12. TargetLow'
  BY <1>1, <1>2, <1>3 DEF IInv, TargetLow, Sees, Mongo
<1>13. LeaveBacked'
  BY <1>1, <1>2, <1>3 DEF IInv, LeaveBacked, Sees, IsAdmin, Mongo
<1>14. HeldGood'
  BY <1>1, <1>2, <1>3 DEF IInv, HeldGood, Sees, Good, Holds, Fenced, Mongo
<1> QED
  BY <1>6, <1>7, <1>8, <1>9, <1>10, <1>11, <1>12, <1>13, <1>14 DEF IInv

(* A request begins: its row is free, and its snapshot is of now. *)
LEMMA BeginInv ==
  ASSUME IInv, NEW t \in Task, NEW kind \in Kinds, NEW actor \in Account,
         NEW target \in Account, NEW to \in Role, Begin(t, kind, actor, target, to),
         kind = "leave" => target = actor, kind # "leave" => actor # target
  PROVE  IInv'
<1> DEFINE x == [kind |-> kind, pc |-> IF kind = "leave" THEN "count" ELSE "check",
                 actor |-> actor, target |-> target, to |-> to,
                 snap |-> IF Mongo THEN acct ELSE First, mark |-> fence]
<1>1. /\ task \in [Task -> TaskType] /\ acct' = acct /\ fence' = fence
      /\ task' = [task EXCEPT ![t] = x] /\ ~Running(t)
      /\ acct \in [Account -> Row] /\ fence \in Nat
  BY DEF Begin, Set, IInv, TypeOK, Running
<1>2. /\ x.pc \in {"count", "check"} /\ (kind = "leave" => x.pc = "count") /\ x.kind = kind /\ x.actor = actor /\ x.target = target
      /\ (Mongo => x.snap = acct) /\ x.mark = fence /\ x \in TaskType
  <2>1. PICK pc, sn : /\ pc = (IF kind = "leave" THEN "count" ELSE "check")
                      /\ sn = (IF Mongo THEN acct ELSE First)
    OBVIOUS
  <2>2. pc \in {"count", "check"} /\ (kind = "leave" => pc = "count") /\ sn \in [Account -> Row] /\ (Mongo => sn = acct)
    BY <1>1, <2>1, AuthorityAssumption
  <2>3. x = [kind |-> kind, pc |-> pc, actor |-> actor, target |-> target, to |-> to,
             snap |-> sn, mark |-> fence]
    BY <2>1
  <2> HIDE DEF x
  <2> QED
    BY <1>1, <2>2, <2>3 DEF TaskType
<1>3. x \in TaskType
  BY <1>2
<1>4. task'[t] = x /\ \A v \in Task \ {t} : task'[v] = task[v]
  BY <1>1
<1> HIDE DEF x
<1>5. Running(t)' /\ \A v \in Task \ {t} : Running(v)' = Running(v)
  BY <1>2, <1>4 DEF Running
<1>6. ~Mongo => \A v \in Task \ {t} : /\ Running(v) => task[v].target # target
                                      /\ Fenced(v) /\ task[v].pc = "save" => task[v].actor # target
  BY DEF Begin, Free, Takes, Shares
<1>7. TypeOK'
  BY <1>1, <1>2, <1>3, <1>4, <1>5 DEF IInv, TypeOK
<1>8. AdminRemains'
  BY <1>1 DEF IInv, AdminRemains
<1>9. Apart'
  BY <1>2, <1>4, <1>5 DEF IInv, Apart
<1>10. LockOnce'
  <2> SUFFICES ASSUME ~Mongo, NEW u \in Task, NEW v \in Task, u # v, Running(u)', Running(v)'
               PROVE  task'[u].target # task'[v].target
    BY DEF LockOnce, Mongo
  <2>1. CASE u = t
    <3>1. task'[t].target = target /\ v # t /\ task'[v] = task[v] /\ Running(v)
      BY <1>2, <1>4, <1>5, <2>1
    <3>2. task[v].target # target
      BY <1>6, <3>1
    <3> QED
      BY <2>1, <3>1, <3>2
  <2>2. CASE v = t
    <3>1. task'[t].target = target /\ u # t /\ task'[u] = task[u] /\ Running(u)
      BY <1>2, <1>4, <1>5, <2>2
    <3>2. task[u].target # target
      BY <1>6, <3>1
    <3> QED
      BY <2>2, <3>1, <3>2
  <2>3. CASE u # t /\ v # t
    BY <1>4, <1>5, <2>3 DEF IInv, LockOnce
  <2> QED
    BY <2>1, <2>2, <2>3
<1>11. SharedUntaken'
  <2> SUFFICES ASSUME ~Mongo, NEW u \in Task, NEW v \in Task, u # v, Fenced(u)',
                      task'[u].pc = "save", Running(v)'
               PROVE  task'[u].actor # task'[v].target
    BY DEF SharedUntaken, Mongo
  <2>1. u # t /\ task'[u] = task[u] /\ Fenced(u)
    BY <1>2, <1>4 DEF Fenced
  <2>2. CASE v = t
    <3>1. task'[t].target = target
      BY <1>2, <1>4
    <3>2. task[u].actor # target
      BY <1>6, <2>1
    <3> QED
      BY <2>1, <2>2, <3>1, <3>2
  <2>3. CASE v # t
    BY <1>4, <1>5, <2>1, <2>3 DEF IInv, SharedUntaken
  <2> QED
    BY <2>2, <2>3
<1>12. FenceOnce'
  BY <1>1, <1>2, <1>4 DEF IInv, FenceOnce, HasFence, Mongo
<1>13. SnapTrue'
  <2> SUFFICES ASSUME Mongo, NEW v \in Task, Running(v)'
               PROVE  (/\ \A a \in Account :
                            /\ task[v].snap[a].rev <= acct[a].rev
                            /\ task[v].snap[a].rev = acct[a].rev => task[v].snap[a] = acct[a]
                       /\ task[v].mark <= fence
                       /\ task[v].mark = fence =>
                            \A a \in Account : IsAdmin(task[v].snap[a]) => IsAdmin(acct[a]))'
    BY DEF SnapTrue, Mongo
  <2>1. CASE v = t
    <3>1. \A a \in Account : acct[a].rev \in Nat
      BY <1>1 DEF Row
    <3> QED
      BY <1>1, <1>2, <1>4, <2>1, <3>1 DEF IsAdmin
  <2>2. CASE v # t
    BY <1>1, <1>4, <1>5, <2>2 DEF IInv, SnapTrue, IsAdmin
  <2> QED
    BY <2>1, <2>2
<1>14. TargetLow'
  BY <1>1, <1>2, <1>4 DEF IInv, TargetLow, Sees, Mongo
<1>15. LeaveBacked'
  BY <1>1, <1>2, <1>4 DEF IInv, LeaveBacked, Sees, IsAdmin, Mongo
<1>16. HeldGood'
  BY <1>1, <1>2, <1>4 DEF IInv, HeldGood, Sees, Good, Holds, Fenced, Mongo
<1> QED
  BY <1>7, <1>8, <1>9, <1>10, <1>11, <1>12, <1>13, <1>14, <1>15, <1>16 DEF IInv

(* A commit.  It writes the rows it has taken or shared, with new          *)
(* versions, and an administrator goes only behind the fence, with another *)
(* one left.                                                               *)
LEMMA CommitInv ==
  ASSUME IInv, NEW t \in Task, Running(t), End(t, "done"),
         acct' \in [Account -> Row], fence' \in Nat,
         fence <= fence',
         ~Mongo => \A a \in Account \ {task[t].target} : acct'[a] = acct[a],
         Mongo => \A a \in Account : \/ acct'[a] = acct[a]
                                     \/ acct'[a].rev > acct[a].rev,
         \A a \in Account : \/ IsAdmin(acct[a]) => IsAdmin(acct'[a])
                            \/ a = task[t].target /\ HasFence(t)
                            \/ a = task[t].target /\ Mongo /\ fence' > fence,
         AdminRemains'
  PROVE  IInv'
<1> DEFINE x == [NoTask EXCEPT !.pc = "done"]
<1>1. x \in TaskType /\ x.pc = "done"
  BY NoTaskType
<1>2. task' = [task EXCEPT ![t] = x] /\ task \in [Task -> TaskType]
      /\ acct \in [Account -> Row] /\ fence \in Nat
  BY DEF End, Set, IInv, TypeOK
<1>3. task'[t] = x /\ \A v \in Task \ {t} : task'[v] = task[v]
  BY <1>2
<1> HIDE DEF x
<1>4. ~Running(t)' /\ \A v \in Task \ {t} : Running(v)' = Running(v)
  BY <1>1, <1>3 DEF Running
<1>5. \A v \in Task \ {t} : ~Mongo /\ Running(v) =>
        /\ task[v].target # task[t].target
        /\ acct'[task[v].target] = acct[task[v].target]
  BY DEF IInv, LockOnce, TypeOK
<1>6. \A v \in Task \ {t} : ~Mongo /\ Fenced(v) /\ task[v].pc = "save" =>
        acct'[task[v].actor] = acct[task[v].actor]
  BY DEF IInv, SharedUntaken, TypeOK, Running
<1>7. TypeOK'
  BY <1>1, <1>2, <1>3, <1>4 DEF IInv, TypeOK
<1>8. Apart' /\ LockOnce'
  BY <1>1, <1>3, <1>4 DEF IInv, Apart, LockOnce, Mongo
<1>9. SharedUntaken'
  BY <1>1, <1>3, <1>4 DEF IInv, SharedUntaken, Mongo, Fenced
<1>10. \A v \in Task \ {t} : HasFence(v)' = HasFence(v)
  BY <1>3, <1>5 DEF IInv, TypeOK, HasFence, Mongo, Running
<1>11. FenceOnce'
  BY <1>1, <1>3, <1>10 DEF IInv, FenceOnce, HasFence
<1>12. SnapTrue'
  <2> SUFFICES ASSUME Mongo, NEW v \in Task, Running(v)'
               PROVE  (/\ \A a \in Account :
                            /\ task[v].snap[a].rev <= acct[a].rev
                            /\ task[v].snap[a].rev = acct[a].rev => task[v].snap[a] = acct[a]
                       /\ task[v].mark <= fence
                       /\ task[v].mark = fence =>
                            \A a \in Account : IsAdmin(task[v].snap[a]) => IsAdmin(acct[a]))'
    BY DEF SnapTrue, Mongo
  <2>1. v # t /\ Running(v) /\ task'[v] = task[v]
    BY <1>3, <1>4
  <2>2. task[v].mark \in Nat /\ task[v].snap \in [Account -> Row]
    BY <1>2 DEF TaskType
  <2>3. ASSUME NEW a \in Account
        PROVE  /\ task[v].snap[a].rev <= acct'[a].rev
               /\ task[v].snap[a].rev = acct'[a].rev => task[v].snap[a] = acct'[a]
    <3>1. acct[a].rev \in Nat /\ acct'[a].rev \in Nat /\ task[v].snap[a].rev \in Nat
      BY <1>2, <2>2 DEF Row
    <3> QED
      BY <2>1, <3>1 DEF IInv, SnapTrue
  <2>4. task[v].mark <= fence'
    BY <1>2, <2>1, <2>2 DEF IInv, SnapTrue
  <2>5. ASSUME task[v].mark = fence', NEW a \in Account, IsAdmin(task[v].snap[a])
        PROVE  IsAdmin(acct'[a])
    <3>0. task[v].mark <= fence
      BY <2>1 DEF IInv, SnapTrue
    <3>1. fence' = fence /\ ~(fence' > fence)
      BY <1>2, <2>5, <3>0
    <3>2. IsAdmin(acct[a])
      BY <2>1, <2>5, <3>1 DEF IInv, SnapTrue
    <3>3. ~HasFence(t)
      BY DEF HasFence
    <3> QED
      BY <3>1, <3>2, <3>3
  <2> QED
    BY <2>1, <2>3, <2>4, <2>5 DEF IsAdmin
<1>13. TargetLow'
  BY <1>1, <1>3, <1>5 DEF IInv, TargetLow, Sees, Mongo, Running
<1>14. LeaveBacked'
  <2> SUFFICES ASSUME NEW v \in Task,
                      task'[v].kind = "leave", task'[v].pc = "save",
                      Sees(v, task[v].actor)'.role = Admin
               PROVE  \E b \in Account \ {task'[v].actor} : IsAdmin(Sees(v, b)')
    BY DEF LeaveBacked, IsAdmin
  <2>1. v # t /\ task'[v] = task[v] /\ Running(v) /\ task[v].target = task[v].actor
    BY <1>1, <1>3 DEF IInv, TypeOK, Running
  <2>2. CASE Mongo
    BY <2>1, <2>2 DEF IInv, LeaveBacked, Sees, Mongo, IsAdmin
  <2>3. CASE ~Mongo
    <3>1. acct[task[v].actor].role = Admin
      BY <1>5, <2>1, <2>3 DEF Sees, Mongo
    <3>2. HasFence(v) /\ ~HasFence(t)
      BY <2>1, <2>3, <3>1 DEF IInv, FenceOnce, HasFence
    <3>3. PICK b \in Account \ {task[v].actor} : IsAdmin(acct[b])
      BY <2>1, <2>3, <3>1 DEF IInv, LeaveBacked, Sees
    <3>4. IsAdmin(acct'[b])
      BY <2>3, <3>2, <3>3
    <3> QED
      BY <2>1, <2>3, <3>3, <3>4 DEF Sees, Mongo
  <2> QED
    BY <2>2, <2>3
<1>15. HeldGood'
  BY <1>1, <1>3, <1>6 DEF IInv, HeldGood, Sees, Good, Holds, Fenced, Mongo
<1> QED
  BY <1>7, <1>8, <1>9, <1>11, <1>12, <1>13, <1>14, <1>15 DEF IInv
(* A row that is written keeps its role and its state, and gains a         *)
(* version on MongoDB.                                                     *)
LEMMA WrittenRow ==
  ASSUME NEW row \in Row
  PROVE  /\ Written(row) \in Row
         /\ Written(row).role = row.role /\ Written(row).active = row.active
         /\ ~Mongo => Written(row) = row
         /\ Mongo => Written(row).rev > row.rev
<1>1. Later(row.rev) \in Nat /\ (~Mongo => Later(row.rev) = row.rev)
      /\ (Mongo => Later(row.rev) > row.rev)
  BY DEF Later, Row
<1>2. Written(row) = [row EXCEPT !.rev = Later(row.rev)]
  BY DEF Written
<1> QED
  BY <1>1, <1>2 DEF Row

(* What a request sees of an account is a row. *)
LEMMA SeesRow ==
  ASSUME IInv, NEW t \in Task, NEW a \in Account
  PROVE  Sees(t, a) \in Row
  BY DEF IInv, TypeOK, TaskType, Sees

(* The fence moves on. *)
LEMMA LaterNat == ASSUME NEW n \in Nat
                  PROVE  Later(n) \in Nat /\ n <= Later(n) /\ (Mongo => Later(n) > n)
  BY DEF Later

(* An account leaves: behind the fence another administrator is there. *)
LEMMA LeaveInv == ASSUME IInv, NEW t \in Task, SaveDeactivation(t) PROVE IInv'
<1> DEFINE c == task[t].actor
<1>1. /\ task[t].kind = "leave" /\ task[t].pc = "save" /\ Running(t)
      /\ c \in Account /\ task[t].target = c
      /\ acct \in [Account -> Row] /\ fence \in Nat
  BY DEF SaveDeactivation, IInv, TypeOK, Running
<1>2. CASE LeaveConflicts(t)
  BY <1>2, QuietEnd DEF SaveDeactivation, Rerun
<1>3. CASE ~LeaveConflicts(t)
  <2> DEFINE left == [acct[c] EXCEPT !.active = FALSE]
  <2>1. /\ acct' = [acct EXCEPT ![c] = Written(left)] /\ End(t, "done")
        /\ fence' = IF acct[c].role = Admin THEN Later(fence) ELSE fence
    BY <1>3 DEF SaveDeactivation
  <2>2. left \in Row /\ left.rev = acct[c].rev
    BY <1>1 DEF Row
  <2>3. Written(left) \in Row /\ (Mongo => Written(left).rev > acct[c].rev)
    BY <2>2, WrittenRow
  <2> HIDE DEF left
  <2>4. acct' \in [Account -> Row] /\ \A a \in Account \ {c} : acct'[a] = acct[a]
    BY <1>1, <2>1, <2>3
  <2>5. fence' \in Nat /\ fence <= fence' /\ (Mongo /\ acct[c].role = Admin => fence' > fence)
    BY <1>1, <2>1, LaterNat
  <2>6. AdminRemains'
    <3>1. CASE acct[c].role # Admin
      BY <2>4, <3>1 DEF IInv, AdminRemains
    <3>2. CASE acct[c].role = Admin
      <4>1. Sees(t, c) = acct[c]
        BY <1>1, <1>3 DEF Sees, LeaveConflicts, IInv, SnapTrue
      <4>2. PICK b \in Account \ {c} : IsAdmin(Sees(t, b))
        BY <1>1, <3>2, <4>1 DEF IInv, LeaveBacked
      <4>3. IsAdmin(acct[b])
        <5>1. CASE ~Mongo
          BY <4>2, <5>1 DEF Sees
        <5>2. CASE Mongo
          <6>1. task[t].mark = fence /\ Sees(t, b) = task[t].snap[b]
            BY <1>3, <3>2, <4>1, <5>2 DEF LeaveConflicts, Sees
          <6> QED
            BY <1>1, <4>2, <5>2, <6>1 DEF IInv, SnapTrue
        <5> QED
          BY <5>1, <5>2
      <4> QED
        BY <2>4, <4>2, <4>3 DEF AdminRemains, IsAdmin
    <3> QED
      BY <3>1, <3>2
  <2>7. \A a \in Account : \/ acct'[a] = acct[a]
                           \/ a = c /\ (Mongo => acct'[a].rev > acct[a].rev)
    BY <1>1, <2>1, <2>3, <2>4
  <2>8. ~IsAdmin(acct[c]) \/ HasFence(t) \/ (Mongo /\ fence' > fence)
    <3>1. CASE Mongo
      BY <2>5, <3>1 DEF IsAdmin
    <3>2. CASE ~Mongo
      BY <1>1, <3>2 DEF IsAdmin, HasFence
    <3> QED
      BY <3>1, <3>2
  <2>9. \A a \in Account : \/ IsAdmin(acct[a]) => IsAdmin(acct'[a])
                           \/ a = task[t].target /\ HasFence(t)
                           \/ a = task[t].target /\ Mongo /\ fence' > fence
    BY <1>1, <2>4, <2>8
  <2> QED
    <3>1. ~Mongo => \A a \in Account \ {task[t].target} : acct'[a] = acct[a]
      BY <1>1, <2>4
    <3>2. Mongo => \A a \in Account : acct'[a] = acct[a] \/ acct'[a].rev > acct[a].rev
      BY <2>7
    <3> QED
      BY <1>1, <2>1, <2>4, <2>5, <2>6, <2>9, <3>1, <3>2, CommitInv
<1> QED
  BY <1>2, <1>3

(* What a change makes of a row. *)
LEMMA ChangedRow ==
  ASSUME IInv, NEW t \in Task, NEW row \in Row
  PROVE  Changed(t, row) \in Row /\ Changed(t, row).rev = row.rev
<1>1. task[t].to \in Role
  BY DEF IInv, TypeOK, TaskType
<1>2. CASE task[t].kind = "status"
  BY <1>2 DEF Changed, Row
<1>3. CASE task[t].kind = "role"
  BY <1>1, <1>3 DEF Changed, Row
<1>4. CASE task[t].kind \notin {"status", "role"}
  <2>1. PICK g \in BOOLEAN : g = (task[t].kind = "grant")
    OBVIOUS
  <2>2. Changed(t, row) = [row EXCEPT !.granted = g]
    BY <1>4, <2>1 DEF Changed
  <2> QED
    BY <2>2 DEF Row
<1> QED
  BY <1>2, <1>3, <1>4

(* An account changes another one, which is no administrator. *)
LEMMA SaveInv == ASSUME IInv, NEW t \in Task, Save(t) PROVE IInv'
<1> DEFINE c == task[t].actor
           d == task[t].target
<1>1. /\ task[t].kind # "leave" /\ task[t].pc = "save" /\ Running(t)
      /\ c \in Account /\ d \in Account /\ c # d
      /\ acct \in [Account -> Row] /\ fence \in Nat
  BY DEF Save, IInv, TypeOK, Running, Apart
<1>2. CASE ~Allowed(t, Sees(t, d))
  BY <1>2, QuietEnd DEF Save, Refuse
<1>3. CASE Allowed(t, Sees(t, d)) /\ ChangeConflicts(t)
  BY <1>3, QuietEnd DEF Save, Rerun
<1>4. CASE Allowed(t, Sees(t, d)) /\ ~ChangeConflicts(t)
  <2>1. /\ End(t, "done")
        /\ acct' = [a \in Account |->
             IF a = d THEN Written(Changed(t, acct[a]))
             ELSE IF a = c /\ Fenced(t) THEN Written(acct[a]) ELSE acct[a]]
        /\ fence' = IF Fenced(t) /\ acct[c].role = Admin THEN Later(fence) ELSE fence
    BY <1>4 DEF Save
  <2>2. fence' \in Nat /\ fence <= fence'
    BY <1>1, <2>1, LaterNat
  <2>3. /\ acct'[d] \in Row /\ (Mongo => acct'[d].rev > acct[d].rev)
    <3>1. acct'[d] = Written(Changed(t, acct[d])) /\ acct[d] \in Row
      BY <1>1, <2>1
    <3>2. Changed(t, acct[d]) \in Row /\ Changed(t, acct[d]).rev = acct[d].rev
      BY <3>1, ChangedRow
    <3>3. /\ Written(Changed(t, acct[d])) \in Row
          /\ Mongo => Written(Changed(t, acct[d])).rev > Changed(t, acct[d]).rev
      BY <3>2, WrittenRow
    <3> QED
      BY <3>1, <3>2, <3>3
  <2>4. ASSUME NEW a \in Account \ {d}
        PROVE  /\ acct'[a] \in Row /\ (IsAdmin(acct[a]) => IsAdmin(acct'[a]))
               /\ ~Mongo => acct'[a] = acct[a]
               /\ Mongo => acct'[a] = acct[a] \/ acct'[a].rev > acct[a].rev
    <3>1. acct[a] \in Row /\ (acct'[a] = acct[a] \/ acct'[a] = Written(acct[a]))
      BY <1>1, <2>1
    <3> QED
      BY <3>1, WrittenRow DEF IsAdmin
  <2>5. ~IsAdmin(acct[d])
    <3>1. Sees(t, d) = acct[d]
      BY <1>1, <1>4 DEF Sees, ChangeConflicts, IInv, SnapTrue
    <3> QED
      BY <1>1, <3>1 DEF IInv, TargetLow, IsAdmin
  <2>6. AdminRemains'
    <3>1. PICK a \in Account : IsAdmin(acct[a])
      BY DEF IInv, AdminRemains, IsAdmin
    <3> QED
      BY <2>4, <2>5, <3>1 DEF AdminRemains, IsAdmin
  <2>7. acct' \in [Account -> Row]
    BY <2>1, <2>3, <2>4
  <2>8. \A a \in Account : \/ IsAdmin(acct[a]) => IsAdmin(acct'[a])
                           \/ a = task[t].target /\ HasFence(t)
                           \/ a = task[t].target /\ Mongo /\ fence' > fence
    BY <2>4, <2>5
  <2>9. Mongo => \A a \in Account : acct'[a] = acct[a] \/ acct'[a].rev > acct[a].rev
    BY <2>3, <2>4
  <2> QED
    <3>1. ~Mongo => \A a \in Account \ {task[t].target} : acct'[a] = acct[a]
      BY <2>4
    <3> QED
      BY <1>1, <2>1, <2>2, <2>6, <2>7, <2>8, <2>9, <3>1, CommitInv
<1> QED
  BY <1>2, <1>3, <1>4

(* An administrator counts the others. *)
LEMMA CountInv == ASSUME IInv, NEW t \in Task, AssertAnotherActiveAdmin(t) PROVE IInv'
<1> DEFINE c == task[t].actor
<1>1. task[t].kind = "leave" /\ task[t].pc = "count" /\ Running(t) /\ ~Fenced(t)
  BY DEF AssertAnotherActiveAdmin, Running, Fenced
<1>2. CASE Goto(t, "save") /\ Sees(t, c).role # Admin
  BY <1>1, <1>2, GoOn
<1>3. CASE /\ Goto(t, "save") /\ FenceFree(t) /\ OtherActiveAdmins(t) # {}
  <2>1. /\ \A v \in Task \ {t} : ~HasFence(v)
        /\ \E b \in Account \ {c} : IsAdmin(Sees(t, b))
    BY <1>3 DEF FenceFree, OtherActiveAdmins, IsAdmin
  <2> QED
    BY <1>1, <1>3, <2>1, GoOn
<1>4. CASE Rerun(t) \/ Refuse(t)
  BY <1>4, QuietEnd DEF Rerun, Refuse
<1> QED
  BY <1>2, <1>3, <1>4 DEF AssertAnotherActiveAdmin

(* An actor is checked: it outranks the account, which is therefore no     *)
(* administrator.                                                          *)
LEMMA CheckInv == ASSUME IInv, NEW t \in Task, Check(t) PROVE IInv'
<1> DEFINE c == task[t].actor
           d == task[t].target
<1>1. /\ task[t].pc = "check" /\ Running(t) /\ task[t].kind # "leave"
      /\ c \in Account /\ d \in Account
  BY DEF Check, Running, IInv, Apart, TypeOK
<1>2. CASE ~MayModify(t)
  BY <1>2, QuietEnd DEF Check, Refuse
<1>3. CASE MayModify(t)
  <2>1. Sees(t, c) \in Row /\ Sees(t, d) \in Row
    BY <1>1, SeesRow
  <2>2. Level[Sees(t, c).role] > Level[Sees(t, d).role]
    BY <1>3 DEF MayModify, CanModify
  <2>3. Sees(t, d).role # Admin
    BY <2>1, <2>2, AuthorityAssumption DEF Row
  <2>4. CASE Fenced(t)
    BY <1>1, <1>3, <2>3, <2>4, GoOn DEF Check
  <2>5. CASE ~Fenced(t)
    BY <1>1, <1>3, <2>3, <2>5, GoOn DEF Check
  <2> QED
    BY <2>4, <2>5
<1> QED
  BY <1>2, <1>3

(* An actor is held. *)
LEMMA HoldInv == ASSUME IInv, NEW t \in Task, HoldActor(t) PROVE IInv'
<1> DEFINE c == task[t].actor
<1>1. task[t].pc = "hold" /\ Running(t) /\ task[t].kind # "leave"
  BY DEF HoldActor, Running, IInv, Apart
<1>2. CASE Rerun(t) \/ Refuse(t)
  BY <1>2, QuietEnd DEF Rerun, Refuse
<1>3. CASE Goto(t, "save") /\ ActorFree(t) /\ Sees(t, c).active /\ Holds(Sees(t, c))
  <2>1. Sees(t, task[t].target).role # Admin
    BY <1>1 DEF IInv, TargetLow
  <2>2. \A v \in Task \ {t} : ~Takes(v, c)
    BY <1>3 DEF ActorFree
  <2>3. Good(Sees(t, c))
    BY <1>3 DEF Good
  <2> QED
    BY <1>1, <1>3, <2>1, <2>2, <2>3, GoOn
<1> QED
  BY <1>2, <1>3 DEF HoldActor

(* Every step keeps the invariant. *)
LEMMA NextInv == IInv /\ [Next]_vars => IInv'
<1> SUFFICES ASSUME IInv, [Next]_vars PROVE IInv'
  OBVIOUS
<1>1. ASSUME NEW t \in Task, NEW a \in Account, DeactivateAccount(t, a) PROVE IInv'
  BY <1>1, BeginInv, AuthorityAssumption DEF DeactivateAccount, Kinds
<1>2. ASSUME NEW t \in Task, NEW kind \in Kind, NEW actor \in Account, NEW target \in Account,
             NEW to \in Role, ChangeAccount(t, kind, actor, target, to)
      PROVE  IInv'
  BY <1>2, BeginInv, AuthorityAssumption DEF ChangeAccount
<1>3. CASE UNCHANGED vars
  BY <1>3 DEF vars, IInv, TypeOK, AdminRemains, Apart, LockOnce, SharedUntaken, FenceOnce,
              SnapTrue, TargetLow, LeaveBacked, HeldGood, Running, Fenced, HasFence, Sees,
              IsAdmin, Good, Holds, Mongo
<1> QED
  BY <1>1, <1>2, <1>3, CountInv, LeaveInv, CheckInv, HoldInv, SaveInv DEF Next

(***************************************************************************)
(* Theorems.                                                               *)
(***************************************************************************)

(* The invariant holds always. *)
LEMMA InvAlways == Spec => []IInv
  BY InitInv, NextInv, PTL DEF Spec

(* Accounts and requests keep their types, and a request that runs has its *)
(* accounts (deactivateAccount, loadAuthorizedUser).                       *)
THEOREM AuthorityTyped == Spec => []TypeOK
<1>1. IInv => TypeOK
  BY DEF IInv
<1> QED
  BY <1>1, InvAlways, PTL

(* However many administrators leave at once, and whatever else is changed *)
(* meanwhile, an active administrator remains (assertAnotherActiveAdmin    *)
(* behind the fence, and no change of an account of one's own level).      *)
THEOREM AnAdminRemains == Spec => []AdminRemains
<1>1. IInv => AdminRemains
  BY DEF IInv
<1> QED
  BY <1>1, InvAlways, PTL

(* A role or a permission is handed out or taken away by an actor that is  *)
(* active and holds it at the commit (assertFreshRolePermission on a row   *)
(* that is shared, or written on MongoDB).                                 *)
THEOREM HandedOutAlways == Spec => HandedOutByHolder
<1>1. ASSUME IInv, [Next]_vars
      PROVE  [\A t \in Task : Commits(t) /\ Fenced(t) =>
                acct[task[t].actor].active /\ Holds(acct[task[t].actor])]_vars
  <2> SUFFICES ASSUME Next, NEW t \in Task, Commits(t), Fenced(t)
               PROVE  acct[task[t].actor].active /\ Holds(acct[task[t].actor])
    BY <1>1
  <2>1. PICK v \in Task :
          \/ AssertAnotherActiveAdmin(v) \/ SaveDeactivation(v)
          \/ Check(v) \/ HoldActor(v) \/ Save(v)
          \/ \E a \in Account : DeactivateAccount(v, a)
          \/ \E kind \in Kind, actor, target \in Account, to \in Role :
               ChangeAccount(v, kind, actor, target, to)
    BY DEF Next
  <2>2. task \in [Task -> TaskType]
    BY <1>1 DEF IInv, TypeOK
  <2>3. v = t
    BY <2>1, <2>2 DEF Commits, AssertAnotherActiveAdmin, SaveDeactivation, Check, HoldActor, Save,
       DeactivateAccount, ChangeAccount, Begin, Set, Goto, End, Rerun, Refuse
  <2>4. task[t].pc = "save" /\ task[t].kind # "leave" /\ task'[t].pc = "done" /\ Running(t)
    BY DEF Commits, Running
  <2>5. Save(t)
    BY <2>1, <2>3, <2>4 DEF AssertAnotherActiveAdmin, SaveDeactivation, Check, HoldActor,
       DeactivateAccount, ChangeAccount, Begin
  <2>6. ~ChangeConflicts(t)
    <3>1. [NoTask EXCEPT !.pc = "idle"].pc = "idle"
          /\ [NoTask EXCEPT !.pc = "refused"].pc = "refused"
      BY NoTaskType
    <3>2. task'[t].pc = "done" => ~Rerun(t) /\ ~Refuse(t)
      BY <2>2, <3>1 DEF Rerun, Refuse, End, Set
    <3> QED
      BY <2>4, <2>5, <3>2 DEF Save
  <2>7. Sees(t, task[t].actor) = acct[task[t].actor]
    BY <1>1, <2>4, <2>6 DEF Sees, ChangeConflicts, IInv, SnapTrue, TypeOK
  <2>8. Good(Sees(t, task[t].actor))
    BY <1>1, <2>4 DEF IInv, HeldGood
  <2> QED
    BY <2>7, <2>8 DEF Good
<1> QED
  BY <1>1, InvAlways, PTL DEF Spec, HandedOutByHolder

(***************************************************************************)
(* RoleSweeps: repairs that are owed, and whose roles exist.               *)
(***************************************************************************)

Fetched(t) == sweep[t].pc \in {"save", "remove", "hold", "assign"}
Takers(t) == sweep[t].pc \in {"save", "remove"}
Sweeping(t) == sweep[t].pc \in {"sweep", "move", "last", "swept"}
Pending(r) == deletion[r] # None /\ deletion[r].pending
BootPc == {"repair", "sweep", "move", "last", "swept", "failed", "complete", "done",
           "stopped"}

SweepFields(w) ==
  w = [role |-> w.role, from |-> w.from, fence |-> w.fence, prev |-> w.prev,
       sources |-> w.sources, pass |-> w.pass, plan |-> w.plan, owner |-> w.owner,
       ref |-> w.ref, recorded |-> w.recorded]
RequestFields(x) ==
  x = [kind |-> x.kind, pc |-> x.pc, role |-> x.role, slug |-> x.slug, user |-> x.user,
       was |-> x.was, rev |-> x.rev, uver |-> x.uver, owed |-> x.owed, fall |-> x.fall,
       fallRev |-> x.fallRev, held |-> x.held, prev |-> x.prev, todo |-> x.todo,
       tried |-> x.tried, sweep |-> x.sweep, failed |-> x.failed, idle |-> x.idle]
RoleFields(r) == r = [state |-> r.state, slug |-> r.slug, owed |-> r.owed, rev |-> r.rev]
DeletionFields(d) == d # None => d = [slug |-> d.slug, by |-> d.by, pending |-> d.pending]

(* The shape of the rows and requests. *)
Shaped ==
  /\ role = [r \in RoleId |-> role[r]] /\ hold = [u \in User |-> hold[u]]
  /\ deletion = [r \in RoleId |-> deletion[r]] /\ sweep = [t \in SweepTask |-> sweep[t]]
  /\ \A r \in RoleId : /\ RoleFields(role[r]) /\ role[r].rev \in Nat
                       /\ DeletionFields(deletion[r])
  /\ \A t \in SweepTask : RequestFields(sweep[t]) /\ SweepFields(sweep[t].sweep)

(* Only live roles owe repairs; slugs tell live roles apart; and on        *)
(* PostgreSQL a role that is taken is live, and taken once.                *)
RolesApart ==
  /\ UserRole \in RoleId /\ Sweeps!Live(UserRole)
  /\ \A r \in RoleId : ~Sweeps!Live(r) => role[r].owed = {}
  /\ \A r, q \in RoleId :
       Sweeps!Live(r) /\ Sweeps!Live(q) /\ role[r].slug = role[q].slug => r = q
  /\ \A t \in SweepTask :
       Fetched(t) => sweep[t].role \in RoleId /\ role[sweep[t].role].state # "none"
  /\ \A t \in SweepTask : Takers(t) => sweep[t].role # UserRole
  /\ ~Sweeps!Mongo =>
       \A t \in SweepTask : Takers(t) =>
         /\ Sweeps!Live(sweep[t].role)
         /\ \A v \in SweepTask \ {t} : Takers(v) => sweep[v].role # sweep[t].role

BaseInv == Shaped /\ RolesApart

(* Requests other than t are as they were. *)
Others(t) == \A v \in SweepTask : v # t => sweep'[v] = sweep[v]

(* What every step of a request does: it was not over, a request that has  *)
(* changed rows never starts again, no other request becomes a start of    *)
(* the process, and only a sweep moves accounts or fails.                  *)
Early == {"idle", "save", "remove", "hold", "assign"}
Goes(t) ==
  /\ Others(t) /\ (sweep[t].pc = "idle" \/ ~Sweeps!Over(t))
  /\ sweep'[t].pc \in Early => sweep[t].pc \in Early /\ UNCHANGED Sweeps!rows
  /\ sweep'[t].kind = "boot" => sweep[t].kind = "boot"
  /\ sweep'[t].pc \in {"failed", "move"} => Sweeping(t)

(* A start of the process is sweeping or listing, and a request that has   *)
(* failed says so.                                                         *)
Placed ==
  \A t \in SweepTask : /\ sweep[t].kind = "boot" => sweep[t].pc \in BootPc
                       /\ sweep[t].pc = "failed" => sweep[t].failed

(* What a start has not settled yet is still before it: repairs that are   *)
(* owed, and deletions it has listed.                                      *)
Covered(t) ==
  /\ \A r \in RoleId : \A f \in role[r].owed :
       \/ [owner |-> r, ref |-> f, recorded |-> TRUE] \in sweep[t].todo
       \/ /\ Sweeping(t) /\ sweep[t].sweep.owner = r /\ sweep[t].sweep.ref = f
          /\ sweep[t].sweep.recorded = TRUE
  /\ \A r \in RoleId : Pending(r) /\ <<r, deletion[r].slug>> \in sweep[t].tried =>
       \/ \E p \in sweep[t].todo : p.ref.role = r
       \/ (Sweeping(t) \/ sweep[t].pc = "complete") /\ sweep[t].sweep.ref.role = r
  /\ sweep[t].pc = "done" =>
       /\ sweep[t].todo = {}
       /\ \A r \in RoleId : Pending(r) => <<r, deletion[r].slug>> \in sweep[t].tried

Unfailed(t) == ~sweep[t].failed /\ sweep[t].pc # "stopped"

(* What a step of a start does. *)
BootGoes(t) ==
  sweep[t].kind = "boot" =>
    /\ sweep'[t].kind = "boot" /\ sweep'[t].idle = sweep[t].idle /\ sweep'[t].pc \in BootPc
    /\ Unfailed(t)' => Unfailed(t) /\ (Covered(t) => Covered(t)')
FailsSaid(t) == sweep'[t].pc = "failed" => sweep'[t].failed

StepKept(t) == BaseInv' /\ Goes(t) /\ BootGoes(t) /\ FailsSaid(t)

LEMMA ShapedInit ==
  ASSUME Sweeps!RoleAssumption, Sweeps!Init
  PROVE  BaseInv
<1> USE DEF Sweeps!RoleAssumption, Sweeps!Init
<1>1. Shaped
  BY DEF Shaped, SweepFields, RequestFields, RoleFields, DeletionFields, Sweeps!NoTask,
         Sweeps!NoSweep
<1>2. RolesApart
  <2>1. \A r \in RoleId : /\ role[r].owed = {}
                          /\ Sweeps!Live(r) <=> r \in FirstRoles \cup {UserRole}
                          /\ Sweeps!Live(r) => role[r].slug = SlugOf[r]
    BY DEF Sweeps!Live
  <2>2. \A t \in SweepTask : sweep[t].pc = "idle"
    BY DEF Sweeps!NoTask
  <2> QED
    BY <2>1, <2>2 DEF RolesApart, Fetched, Takers
<1> QED
  BY <1>1, <1>2 DEF BaseInv

(* What a request becomes. *)
LEMMA GotoShape ==
  ASSUME BaseInv, NEW t \in SweepTask, NEW pc, Sweeps!Goto(t, pc)
  PROVE  /\ Others(t) /\ sweep'[t] = [sweep[t] EXCEPT !.pc = pc]
         /\ sweep' = [v \in SweepTask |-> sweep'[v]]
         /\ RequestFields(sweep'[t]) /\ SweepFields(sweep'[t].sweep)
         /\ sweep'[t].pc = pc /\ sweep'[t].kind = sweep[t].kind
         /\ sweep'[t].role = sweep[t].role /\ sweep'[t].slug = sweep[t].slug
         /\ sweep'[t].was = sweep[t].was /\ sweep'[t].rev = sweep[t].rev
         /\ sweep'[t].todo = sweep[t].todo /\ sweep'[t].tried = sweep[t].tried
         /\ sweep'[t].sweep = sweep[t].sweep /\ sweep'[t].failed = sweep[t].failed
         /\ sweep'[t].idle = sweep[t].idle
<1>1. /\ sweep' = [sweep EXCEPT ![t].pc = pc] /\ sweep = [v \in SweepTask |-> sweep[v]]
      /\ RequestFields(sweep[t]) /\ SweepFields(sweep[t].sweep)
  BY DEF Sweeps!Goto, BaseInv, Shaped
<1>2. Others(t) /\ sweep'[t] = [sweep[t] EXCEPT !.pc = pc]
      /\ sweep' = [v \in SweepTask |-> sweep'[v]]
  BY <1>1 DEF Others
<1> QED
  BY <1>1, <1>2 DEF RequestFields

LEMMA SetShape ==
  ASSUME BaseInv, NEW t \in SweepTask, NEW x, Sweeps!Set(t, x)
  PROVE  /\ Others(t) /\ sweep'[t] = x
         /\ sweep' = [v \in SweepTask |-> sweep'[v]]
  BY DEF Sweeps!Set, BaseInv, Shaped, Others

LEMMA NoTaskShape ==
  /\ RequestFields(Sweeps!NoTask) /\ SweepFields(Sweeps!NoTask.sweep)
  /\ SweepFields(Sweeps!NoSweep)
  BY DEF RequestFields, SweepFields, Sweeps!NoTask, Sweeps!NoSweep

LEMMA Reshaped ==
  ASSUME NEW x, NEW y, RequestFields(x), DOMAIN y = DOMAIN x, y = [i \in DOMAIN y |-> y[i]]
  PROVE  RequestFields(y)
  BY DEF RequestFields

LEMMA SweepReshaped ==
  ASSUME NEW x, NEW y, SweepFields(x), DOMAIN y = DOMAIN x, y = [i \in DOMAIN y |-> y[i]]
  PROVE  SweepFields(y)
  BY DEF SweepFields

(* The rows keep their shape when every role, account and deletion does. *)
LEMMA RowsUnchanged ==
  ASSUME BaseInv, NEW t \in SweepTask, Others(t), sweep' = [v \in SweepTask |-> sweep'[v]],
         RequestFields(sweep'[t]), SweepFields(sweep'[t].sweep), UNCHANGED Sweeps!rows
  PROVE  Shaped'
  BY DEF BaseInv, Shaped, Others, Sweeps!rows

LEMMA ApartRows ==
  ASSUME BaseInv, NEW t \in SweepTask, Others(t),
         \A r \in RoleId : /\ role'[r].state = role[r].state /\ role'[r].slug = role[r].slug
                           /\ ~Sweeps!Live(r) => role'[r].owed = {},
         \/ sweep'[t].pc \notin {"save", "remove", "hold", "assign"}
         \/ /\ Fetched(t) /\ sweep'[t].role = sweep[t].role
            /\ sweep'[t].pc \in {"save", "remove"} => Takers(t)
  PROVE  RolesApart'
<1>1. \A r \in RoleId : Sweeps!Live(r)' <=> Sweeps!Live(r)
  BY DEF Sweeps!Live
<1>2. UserRole \in RoleId /\ Sweeps!Live(UserRole)'
  BY <1>1 DEF BaseInv, RolesApart
<1>3. \A v \in SweepTask : Fetched(v)' => Fetched(v) /\ sweep'[v].role = sweep[v].role
  BY DEF Others, Fetched
<1>4. \A v \in SweepTask : Takers(v)' => Takers(v) /\ sweep'[v].role = sweep[v].role
  BY DEF Others, Takers, Fetched
<1>5. \A r \in RoleId : ~Sweeps!Live(r)' => role'[r].owed = {}
  BY <1>1
<1>6. \A r, q \in RoleId :
        Sweeps!Live(r)' /\ Sweeps!Live(q)' /\ role'[r].slug = role'[q].slug => r = q
  BY <1>1 DEF BaseInv, RolesApart
<1>7. \A v \in SweepTask :
        Fetched(v)' => sweep'[v].role \in RoleId /\ role'[sweep'[v].role].state # "none"
  BY <1>3 DEF BaseInv, RolesApart
<1>8. \A v \in SweepTask : Takers(v)' => sweep'[v].role # UserRole
  BY <1>4 DEF BaseInv, RolesApart
<1>9. ASSUME ~Sweeps!Mongo, NEW v \in SweepTask, Takers(v)'
      PROVE  /\ Sweeps!Live(sweep[v].role)'
             /\ \A w \in SweepTask \ {v} : Takers(w)' => sweep'[w].role # sweep'[v].role
  <2>1. Sweeps!Live(sweep[v].role) /\ sweep'[v].role = sweep[v].role
    BY <1>4, <1>9 DEF BaseInv, RolesApart
  <2>2. sweep[v].role \in RoleId
    BY <1>4, <1>9 DEF BaseInv, RolesApart, Takers, Fetched
  <2>3. \A w \in SweepTask \ {v} : Takers(w)' => sweep'[w].role # sweep'[v].role
    BY <1>4, <1>9 DEF BaseInv, RolesApart
  <2> QED
    BY <2>1, <2>2, <2>3 DEF Sweeps!Live
<1> QED
  BY <1>2, <1>5, <1>6, <1>7, <1>8, <1>9 DEF RolesApart, Sweeps!Mongo

(* Refused and rerun units of work, and steps that go on to a state. *)
LEMMA RerunBase ==
  ASSUME BaseInv, NEW t \in SweepTask, Sweeps!Rerun(t), Fetched(t)
  PROVE  BaseInv' /\ Goes(t)
<1>1. /\ Others(t) /\ sweep'[t] = Sweeps!NoTask /\ sweep' = [v \in SweepTask |-> sweep'[v]]
      /\ UNCHANGED Sweeps!rows
  BY SetShape DEF Sweeps!Rerun
<1>2. Shaped'
  BY <1>1, RowsUnchanged, NoTaskShape
<1>3. sweep'[t].pc = "idle" /\ sweep'[t].kind = "none" /\ UNCHANGED role
  BY <1>1 DEF Sweeps!NoTask, Sweeps!rows
<1>4. RolesApart'
  BY <1>1, <1>3, ApartRows DEF BaseInv, RolesApart
<1> QED
  BY <1>1, <1>2, <1>3, <1>4 DEF BaseInv, Goes, Early, Fetched, Sweeps!Over

LEMMA OnlyBase ==
  ASSUME BaseInv, NEW t \in SweepTask, NEW pc, Sweeps!Only(t, pc), pc \notin Early,
         ~Sweeps!Over(t), pc \in {"failed", "move"} => Sweeping(t)
  PROVE  BaseInv' /\ Goes(t)
<1>1. Sweeps!Goto(t, pc) /\ UNCHANGED Sweeps!rows /\ UNCHANGED role
  BY DEF Sweeps!Only, Sweeps!rows
<1>2. Shaped'
  BY <1>1, GotoShape, RowsUnchanged
<1>3. Others(t) /\ sweep'[t].pc = pc /\ sweep'[t].kind = sweep[t].kind
  BY <1>1, GotoShape
<1>4. \A r \in RoleId : ~Sweeps!Live(r) => role[r].owed = {}
  BY DEF BaseInv, RolesApart
<1>5. RolesApart'
  BY <1>1, <1>3, <1>4, ApartRows DEF Early
<1> QED
  BY <1>2, <1>3, <1>5 DEF BaseInv, Goes

(* A request that becomes x, past its takes, with no row changed. *)
LEMMA SetBase ==
  ASSUME BaseInv, NEW t \in SweepTask, NEW x, Sweeps!Set(t, x), UNCHANGED Sweeps!rows,
         RequestFields(x), SweepFields(x.sweep), x.pc \notin Early \ {"assign"},
         x.pc = "assign" => Fetched(t) /\ x.role = sweep[t].role,
         sweep[t].pc = "idle" \/ ~Sweeps!Over(t), x.kind = "boot" => sweep[t].kind = "boot",
         x.pc \in {"failed", "move"} => Sweeping(t)
  PROVE  BaseInv' /\ Goes(t)
<1>1. Others(t) /\ sweep'[t] = x /\ sweep' = [v \in SweepTask |-> sweep'[v]]
  BY SetShape
<1>2. Shaped'
  BY <1>1, RowsUnchanged
<1>3. UNCHANGED role
  BY DEF Sweeps!rows
<1>4. RolesApart'
  BY <1>1, <1>3, ApartRows DEF BaseInv, RolesApart, Early
<1> QED
  BY <1>1, <1>2, <1>4 DEF BaseInv, Goes, Early, Fetched

(***************************************************************************)
(* Every step keeps BaseInv.                                               *)
(***************************************************************************)

LEMMA TakenBase ==
  ASSUME BaseInv, NEW t \in SweepTask, NEW x, NEW r \in RoleId, Sweeps!Live(r),
         Sweeps!Set(t, x), UNCHANGED Sweeps!rows, RequestFields(x), SweepFields(x.sweep),
         x.role = r, sweep[t].pc = "idle", x.kind # "boot",
         x.pc \notin {"failed", "move"},
         x.pc \in {"save", "remove"} => r # UserRole /\ Sweeps!RoleFree(t, r)
  PROVE  BaseInv' /\ Goes(t)
<1>1. /\ Others(t) /\ sweep'[t] = x /\ sweep' = [v \in SweepTask |-> sweep'[v]]
      /\ UNCHANGED role
  BY SetShape DEF Sweeps!rows
<1>2. Shaped'
  BY <1>1, RowsUnchanged
<1>3. \A v \in SweepTask :
        Fetched(v)' => sweep'[v].role \in RoleId /\ role'[sweep'[v].role].state # "none"
  BY <1>1 DEF BaseInv, RolesApart, Fetched, Others, Sweeps!Live
<1>4. \A v \in SweepTask : Takers(v)' => sweep'[v].role # UserRole
  BY <1>1 DEF BaseInv, RolesApart, Takers, Others
<1>5. ASSUME ~Sweeps!Mongo, NEW v \in SweepTask, Takers(v)'
      PROVE  /\ Sweeps!Live(sweep[v].role)'
             /\ \A w \in SweepTask \ {v} : Takers(w)' => sweep'[w].role # sweep'[v].role
  <2>1. Sweeps!Live(sweep[v].role)'
    BY <1>1, <1>5 DEF BaseInv, RolesApart, Takers, Others, Sweeps!Live
  <2>2. \A w \in SweepTask \ {t} : Takers(t)' /\ Takers(w) => sweep[w].role # r
    BY <1>1, <1>5 DEF Takers, Sweeps!RoleFree, Sweeps!Takes
  <2>3. \A w \in SweepTask \ {v} : Takers(w)' => sweep'[w].role # sweep'[v].role
    BY <1>1, <1>5, <2>2 DEF BaseInv, RolesApart, Takers, Others
  <2> QED
    BY <2>1, <2>3
<1>6. RolesApart'
  BY <1>1, <1>3, <1>4, <1>5 DEF BaseInv, RolesApart, Sweeps!Live, Sweeps!Mongo
<1> QED
  BY <1>1, <1>2, <1>6 DEF BaseInv, Goes, Early

LEMMA TakeForEditBase ==
  ASSUME BaseInv, NEW t \in SweepTask, NEW r \in RoleId, NEW s,
         Sweeps!TakeForEdit(t, r, s)
  PROVE  BaseInv' /\ Goes(t)
<1> DEFINE x == [Sweeps!NoTask EXCEPT !.kind = "edit", !.pc = "save", !.role = r, !.slug = s,
             !.was = role[r].slug, !.rev = role[r].rev, !.owed = role[r].owed]
<1>1. /\ sweep[t].pc = "idle" /\ r # UserRole /\ Sweeps!Live(r) /\ Sweeps!RoleFree(t, r)
      /\ Sweeps!Set(t, x) /\ UNCHANGED Sweeps!rows
  BY DEF Sweeps!TakeForEdit
<1>2. RequestFields(x) /\ SweepFields(x.sweep) /\ x.role = r /\ x.pc = "save" /\ x.kind # "boot"
  <2>1. DOMAIN x = DOMAIN Sweeps!NoTask /\ x = [i \in DOMAIN x |-> x[i]]
    OBVIOUS
  <2>2. x.role = r /\ x.pc = "save" /\ x.kind # "boot" /\ x.sweep = Sweeps!NoSweep
    BY DEF Sweeps!NoTask
  <2> HIDE DEF x
  <2> QED
    BY <2>1, <2>2, NoTaskShape, Reshaped
<1> HIDE DEF x
<1> QED
  BY <1>1, <1>2, TakenBase

LEMMA TakeForDeleteBase ==
  ASSUME BaseInv, NEW t \in SweepTask, NEW r \in RoleId, Sweeps!TakeForDelete(t, r)
  PROVE  BaseInv' /\ Goes(t)
<1> DEFINE x == [Sweeps!NoTask EXCEPT !.kind = "delete", !.pc = "remove", !.role = r,
             !.was = role[r].slug, !.rev = role[r].rev, !.owed = role[r].owed,
             !.fall = role[UserRole].owed, !.fallRev = role[UserRole].rev]
<1>1. /\ sweep[t].pc = "idle" /\ r # UserRole /\ Sweeps!Live(r) /\ Sweeps!RoleFree(t, r)
      /\ Sweeps!Set(t, x) /\ UNCHANGED Sweeps!rows
  BY DEF Sweeps!TakeForDelete
<1>2. RequestFields(x) /\ SweepFields(x.sweep) /\ x.role = r /\ x.pc = "remove" /\ x.kind # "boot"
  <2>1. DOMAIN x = DOMAIN Sweeps!NoTask /\ x = [i \in DOMAIN x |-> x[i]]
    OBVIOUS
  <2>2. x.role = r /\ x.pc = "remove" /\ x.kind # "boot" /\ x.sweep = Sweeps!NoSweep
    BY DEF Sweeps!NoTask
  <2> HIDE DEF x
  <2> QED
    BY <2>1, <2>2, NoTaskShape, Reshaped
<1> HIDE DEF x
<1> QED
  BY <1>1, <1>2, TakenBase

LEMMA TakeAccountBase ==
  ASSUME BaseInv, NEW t \in SweepTask, NEW u, NEW s, Sweeps!TakeAccount(t, u, s)
  PROVE  BaseInv' /\ Goes(t)
<1> DEFINE found == Sweeps!BySlug(s)
           x == [Sweeps!NoTask EXCEPT
             !.kind = IF hold[u] = None THEN "create" ELSE "assign",
             !.pc = "hold", !.user = u, !.slug = s, !.role = found, !.rev = role[found].rev,
             !.uver = ver[u], !.was = hold[u]]
<1>1. /\ sweep[t].pc = "idle" /\ Sweeps!Carriers(s) # {}
      /\ Sweeps!Set(t, x) /\ UNCHANGED Sweeps!rows
  BY DEF Sweeps!TakeAccount
<1>2. found = (CHOOSE q \in Sweeps!Carriers(s) : TRUE) /\ found \in Sweeps!Carriers(s)
  BY <1>1 DEF Sweeps!BySlug
<1>3. found \in RoleId /\ Sweeps!Live(found)
  BY <1>2 DEF Sweeps!Carriers
<1>4. RequestFields(x) /\ SweepFields(x.sweep) /\ x.role = found /\ x.pc = "hold" /\ x.kind # "boot"
  <2>1. DOMAIN x = DOMAIN Sweeps!NoTask /\ x = [i \in DOMAIN x |-> x[i]]
    OBVIOUS
  <2>2. x.role = found /\ x.pc = "hold" /\ x.kind # "boot" /\ x.sweep = Sweeps!NoSweep
    BY DEF Sweeps!NoTask
  <2> HIDE DEF x
  <2> QED
    BY <2>1, <2>2, NoTaskShape, Reshaped
<1> HIDE DEF x, found
<1> QED
  BY <1>1, <1>3, <1>4, TakenBase

LEMMA HoldRoleBase ==
  ASSUME BaseInv, NEW t \in SweepTask, Sweeps!HoldRole(t)
  PROVE  BaseInv' /\ Goes(t)
<1> DEFINE r == Sweeps!BySlug(sweep[t].slug)
           x == [sweep[t] EXCEPT !.pc = "assign", !.held = r]
<1>1. CASE Sweeps!Rerun(t)
  BY <1>1, RerunBase DEF Sweeps!HoldRole, Fetched
<1>2. CASE Sweeps!Set(t, x) /\ UNCHANGED Sweeps!rows
  <2>1. DOMAIN x = DOMAIN sweep[t] /\ x = [i \in DOMAIN x |-> x[i]]
    OBVIOUS
  <2>2. RequestFields(sweep[t]) /\ SweepFields(sweep[t].sweep)
    BY DEF BaseInv, Shaped
  <2>3. /\ x.pc = "assign" /\ x.sweep = sweep[t].sweep /\ x.role = sweep[t].role
        /\ x.kind = sweep[t].kind
    BY <2>2 DEF RequestFields
  <2>4. Fetched(t) /\ ~Sweeps!Over(t)
    BY DEF Sweeps!HoldRole, Fetched, Sweeps!Over
  <2> HIDE DEF x
  <2> QED
    BY <1>2, <2>1, <2>2, <2>3, <2>4, Reshaped, SetBase DEF Early
<1> QED
  BY <1>1, <1>2 DEF Sweeps!HoldRole

LEMMA SweepForBase ==
  ASSUME BaseInv, NEW t \in SweepTask, NEW from, NEW prev, Sweeps!SweepFor(t, from, prev)
  PROVE  \E x : /\ Sweeps!Set(t, x) /\ RequestFields(x) /\ SweepFields(x.sweep)
               /\ x.pc = "sweep" /\ x.kind = sweep[t].kind
<1> DEFINE w == [Sweeps!NoSweep EXCEPT !.role = sweep[t].role, !.from = from,
                   !.sources = {from}, !.prev = prev]
           x == [sweep[t] EXCEPT !.pc = "sweep", !.sweep = w]
<1>1. DOMAIN x = DOMAIN sweep[t] /\ x = [i \in DOMAIN x |-> x[i]]
  OBVIOUS
<1>2. RequestFields(sweep[t])
  BY DEF BaseInv, Shaped
<1>3. x.pc = "sweep" /\ x.sweep = w /\ x.kind = sweep[t].kind
  BY <1>2 DEF RequestFields
<1>4. SweepFields(w)
  BY ZenonT(60), SweepReshaped, NoTaskShape
<1>5. Sweeps!Set(t, x)
  BY DEF Sweeps!SweepFor
<1> HIDE DEF x, w
<1> QED
  BY <1>1, <1>2, <1>3, <1>4, <1>5, Reshaped

LEMMA ReconcileBase ==
  ASSUME BaseInv, NEW t \in SweepTask, Sweeps!Reconcile(t)
  PROVE  BaseInv' /\ Goes(t)
<1>1. UNCHANGED Sweeps!rows /\ ~Sweeps!Over(t)
  BY DEF Sweeps!Reconcile, Sweeps!Over
<1>2. CASE Sweeps!Goto(t, "done") \/ Sweeps!Goto(t, "undo")
  BY <1>1, <1>2, OnlyBase DEF Sweeps!Only, Early
<1>3. CASE \E from, prev : Sweeps!SweepFor(t, from, prev)
  BY <1>1, <1>3, SweepForBase, SetBase DEF Early
<1> QED
  BY <1>2, <1>3 DEF Sweeps!Reconcile

LEMMA WriteRow ==
  ASSUME NEW x, RoleFields(x), x.rev \in Nat
  PROVE  /\ RoleFields(Sweeps!Write(x)) /\ Sweeps!Write(x).rev \in Nat
         /\ Sweeps!Write(x).state = x.state /\ Sweeps!Write(x).slug = x.slug
         /\ Sweeps!Write(x).owed = x.owed /\ x.rev <= Sweeps!Write(x).rev
         /\ Sweeps!Mongo => x.rev < Sweeps!Write(x).rev
  BY DEF RoleFields, Sweeps!Write

LEMMA RowGone ==
  ASSUME NEW x, RoleFields(x)
  PROVE  LET y == [x EXCEPT !.state = "gone", !.owed = {}] IN
         /\ RoleFields(y) /\ y.rev = x.rev /\ y.state = "gone" /\ y.owed = {}
         /\ y.slug = x.slug
<1> DEFINE y == [x EXCEPT !.state = "gone", !.owed = {}]
<1>1. DOMAIN y = DOMAIN x /\ y = [i \in DOMAIN y |-> y[i]]
  OBVIOUS
<1>2. y.rev = x.rev /\ y.state = "gone" /\ y.owed = {} /\ y.slug = x.slug
  BY DEF RoleFields
<1> HIDE DEF y
<1>3. RoleFields(y)
  BY <1>1 DEF RoleFields
<1> QED
  BY <1>2, <1>3 DEF y

LEMMA OwesOther ==
  ASSUME NEW x, RoleFields(x), NEW owed
  PROVE  LET y == [x EXCEPT !.owed = owed] IN
         /\ RoleFields(y) /\ y.rev = x.rev /\ y.state = x.state /\ y.slug = x.slug
         /\ y.owed = owed
  BY DEF RoleFields

(* A step that keeps the names of roles. *)
LEMMA RowsBase ==
  ASSUME BaseInv, NEW t \in SweepTask, Others(t), sweep' = [v \in SweepTask |-> sweep'[v]],
         RequestFields(sweep'[t]), SweepFields(sweep'[t].sweep),
         sweep'[t].pc \notin {"save", "remove", "hold", "assign"},
         role' = [r \in RoleId |-> role'[r]], hold' = [u \in User |-> hold'[u]],
         deletion' = [r \in RoleId |-> deletion'[r]],
         \A r \in RoleId : /\ RoleFields(role'[r]) /\ role'[r].rev \in Nat
                           /\ role'[r].state = role[r].state /\ role'[r].slug = role[r].slug
                           /\ ~Sweeps!Live(r) => role'[r].owed = {}
                           /\ DeletionFields(deletion'[r])
  PROVE  BaseInv'
<1>1. Shaped'
  BY DEF BaseInv, Shaped, Others
<1>2. RolesApart'
  BY ApartRows
<1> QED
  BY <1>1, <1>2 DEF BaseInv

(***************************************************************************)
(* The steps of sweeps, and of starts of the process.                      *)
(***************************************************************************)

LEMMA NextRepairKept ==
  ASSUME BaseInv, Placed, NEW t \in SweepTask, NEW p, Sweeps!NextRepair(t, p)
  PROVE  StepKept(t)
<1> DEFINE w == [Sweeps!NoSweep EXCEPT !.role = p.ref.role, !.from = p.ref.slug,
                   !.fence = TRUE, !.sources = {p.ref.slug}, !.owner = p.owner,
                   !.ref = p.ref, !.recorded = p.recorded]
           x == [sweep[t] EXCEPT !.pc = "sweep", !.todo = @ \ {p}, !.sweep = w]
<1>1. /\ Sweeps!Set(t, x) /\ UNCHANGED Sweeps!rows /\ sweep[t].pc = "repair"
      /\ p \in sweep[t].todo
  BY DEF Sweeps!NextRepair
<1>2. DOMAIN x = DOMAIN sweep[t] /\ x = [i \in DOMAIN x |-> x[i]]
  OBVIOUS
<1>3. RequestFields(sweep[t])
  BY DEF BaseInv, Shaped
<1>4. /\ x.pc = "sweep" /\ x.sweep = w /\ x.kind = sweep[t].kind
      /\ x.idle = sweep[t].idle /\ x.todo = sweep[t].todo \ {p}
      /\ x.tried = sweep[t].tried /\ x.failed = sweep[t].failed
  BY <1>3 DEF RequestFields
<1>5. SweepFields(w)
  BY ZenonT(60), SweepReshaped, NoTaskShape
<1>6. w.owner = p.owner /\ w.ref = p.ref /\ w.recorded = p.recorded
  BY DEF Sweeps!NoSweep
<1> HIDE DEF x, w
<1>7. BaseInv' /\ Goes(t)
  BY <1>1, <1>2, <1>3, <1>4, <1>5, Reshaped, SetBase DEF Early, Sweeps!Over
<1>8. sweep'[t] = x /\ UNCHANGED <<role, deletion>>
  BY <1>1, SetShape DEF Sweeps!rows
<1>9. Covered(t) => Covered(t)'
  BY <1>1, <1>4, <1>6, <1>8 DEF Covered, Sweeping, Pending
<1> QED
  BY <1>1, <1>4, <1>7, <1>8, <1>9 DEF StepKept, BootGoes, BootPc, Unfailed, FailsSaid

(* A sweep that goes on, with the repair it is at. *)
LEMMA StaysKept ==
  ASSUME NEW t \in SweepTask, Sweeping(t), BaseInv' /\ Goes(t),
         sweep'[t].pc \in {"sweep", "move", "last", "swept"},
         sweep'[t].kind = sweep[t].kind, sweep'[t].idle = sweep[t].idle,
         sweep'[t].todo = sweep[t].todo, sweep'[t].tried = sweep[t].tried,
         sweep'[t].failed = sweep[t].failed,
         sweep'[t].sweep.owner = sweep[t].sweep.owner,
         sweep'[t].sweep.ref = sweep[t].sweep.ref,
         sweep'[t].sweep.recorded = sweep[t].sweep.recorded,
         deletion' = deletion, \A r \in RoleId : role'[r].owed = role[r].owed
  PROVE  StepKept(t)
<1>1. Sweeping(t)'
  BY DEF Sweeping
<1>2. Covered(t) => Covered(t)'
  BY <1>1 DEF Covered, Sweeping, Pending
<1> QED
  BY <1>2 DEF StepKept, BootGoes, BootPc, Unfailed, Sweeping, FailsSaid

LEMMA FailsKept ==
  ASSUME BaseInv, NEW t \in SweepTask, Sweeping(t), Sweeps!Fails(t)
  PROVE  StepKept(t)
<1> DEFINE x == [sweep[t] EXCEPT !.pc = "failed", !.failed = TRUE]
<1>1. Sweeps!Set(t, x) /\ UNCHANGED Sweeps!rows
  BY DEF Sweeps!Fails
<1>2. DOMAIN x = DOMAIN sweep[t] /\ x = [i \in DOMAIN x |-> x[i]]
  OBVIOUS
<1>3. RequestFields(sweep[t]) /\ SweepFields(sweep[t].sweep)
  BY DEF BaseInv, Shaped
<1>4. /\ x.pc = "failed" /\ x.failed = TRUE /\ x.kind = sweep[t].kind
      /\ x.idle = sweep[t].idle /\ x.sweep = sweep[t].sweep
  BY <1>3 DEF RequestFields
<1> HIDE DEF x
<1>5. BaseInv' /\ Goes(t)
  BY <1>1, <1>2, <1>3, <1>4, Reshaped, SetBase DEF Early, Sweeps!Over, Sweeping
<1>6. sweep'[t] = x
  BY <1>1, SetShape
<1> QED
  BY <1>4, <1>5, <1>6 DEF StepKept, BootGoes, BootPc, Unfailed, FailsSaid

LEMMA OnlySweeps ==
  ASSUME BaseInv, NEW t \in SweepTask, NEW pc, Sweeps!Only(t, pc), Sweeping(t),
         pc \in {"sweep", "move", "last", "swept"}
  PROVE  StepKept(t)
<1>1. Sweeps!Goto(t, pc) /\ UNCHANGED <<role, deletion>>
  BY DEF Sweeps!Only, Sweeps!rows
<1>2. BaseInv' /\ Goes(t)
  BY OnlyBase DEF Early, Sweeps!Over, Sweeping
<1> QED
  BY <1>1, <1>2, GotoShape, StaysKept

LEMMA SweepReadKept ==
  ASSUME BaseInv, NEW t \in SweepTask, Sweeps!SweepRead(t)
  PROVE  StepKept(t)
<1>1. sweep[t].pc = "sweep" /\ UNCHANGED Sweeps!rows
  BY DEF Sweeps!SweepRead
<1>2. CASE Sweeps!Goto(t, "swept")
  BY <1>1, <1>2, OnlySweeps DEF Sweeps!Only, Sweeping
<1>3. CASE \E plan : sweep' = [sweep EXCEPT ![t].pc = "move", ![t].sweep.plan = plan]
  <2>1. PICK plan : sweep' = [sweep EXCEPT ![t].pc = "move", ![t].sweep.plan = plan]
    BY <1>3
  <2> DEFINE x == [sweep[t] EXCEPT !.pc = "move", !.sweep.plan = plan]
             w == [sweep[t].sweep EXCEPT !.plan = plan]
  <2>2. Sweeps!Set(t, x)
    BY <2>1 DEF Sweeps!Set, BaseInv, Shaped
  <2>3. RequestFields(sweep[t]) /\ SweepFields(sweep[t].sweep)
    BY DEF BaseInv, Shaped
  <2>4. DOMAIN x = DOMAIN sweep[t] /\ x = [i \in DOMAIN x |-> x[i]]
    OBVIOUS
  <2>5. /\ x.pc = "move" /\ x.sweep = w /\ x.kind = sweep[t].kind
        /\ x.idle = sweep[t].idle /\ x.todo = sweep[t].todo /\ x.tried = sweep[t].tried
        /\ x.failed = sweep[t].failed
    BY <2>3 DEF RequestFields
  <2>6. /\ SweepFields(w) /\ w.owner = sweep[t].sweep.owner /\ w.ref = sweep[t].sweep.ref
        /\ w.recorded = sweep[t].sweep.recorded
    BY <2>3 DEF SweepFields
  <2> HIDE DEF x, w
  <2>7. BaseInv' /\ Goes(t)
    BY <1>1, <2>2, <2>3, <2>4, <2>5, <2>6, Reshaped, SetBase
       DEF Early, Sweeps!Over, Sweeping
  <2>8. sweep'[t] = x /\ UNCHANGED <<role, deletion>>
    BY <1>1, <2>2, SetShape DEF Sweeps!rows
  <2> QED
    BY <1>1, <2>5, <2>6, <2>7, <2>8, StaysKept DEF Sweeping
<1> QED
  BY <1>2, <1>3 DEF Sweeps!SweepRead

(* Rows of roles that keep their names and what they owe. *)
LEMMA RowsKeep ==
  ASSUME BaseInv, NEW S, role' = [r \in RoleId |-> IF r \in S THEN Sweeps!Write(role[r])
                                                  ELSE role[r]]
  PROVE  \A r \in RoleId : /\ RoleFields(role'[r]) /\ role'[r].rev \in Nat
                           /\ role'[r].state = role[r].state /\ role'[r].slug = role[r].slug
                           /\ role'[r].owed = role[r].owed
                           /\ ~Sweeps!Live(r) => role'[r].owed = {}
                           /\ DeletionFields(deletion[r])
<1> SUFFICES ASSUME NEW r \in RoleId
             PROVE  /\ RoleFields(role'[r]) /\ role'[r].rev \in Nat
                    /\ role'[r].state = role[r].state /\ role'[r].slug = role[r].slug
                    /\ role'[r].owed = role[r].owed
                    /\ ~Sweeps!Live(r) => role'[r].owed = {}
                    /\ DeletionFields(deletion[r])
  OBVIOUS
<1>1. RoleFields(role[r]) /\ role[r].rev \in Nat /\ DeletionFields(deletion[r])
  BY DEF BaseInv, Shaped
<1>2. ~Sweeps!Live(r) => role[r].owed = {}
  BY DEF BaseInv, RolesApart
<1>3. role'[r] = role[r] \/ role'[r] = Sweeps!Write(role[r])
  OBVIOUS
<1> QED
  BY <1>1, <1>2, <1>3, WriteRow

LEMMA SweepMoveKept ==
  ASSUME BaseInv, NEW t \in SweepTask, Sweeps!SweepMove(t)
  PROVE  StepKept(t)
<1>1. sweep[t].pc = "move"
  BY DEF Sweeps!SweepMove
<1>2. CASE Sweeps!Only(t, "sweep")
  BY <1>1, <1>2, OnlySweeps DEF Sweeping
<1>3. CASE /\ \E us, to : Sweeps!MoveHolders(us, to)
           /\ \E S : role' = [r \in RoleId |-> IF r \in S THEN Sweeps!Write(role[r])
                                             ELSE role[r]]
           /\ \E new, pc :
                /\ pc \in {"swept", "sweep", "last"}
                /\ sweep' = [sweep EXCEPT ![t].sweep.plan = <<>>, ![t].sweep.pass = @ + 1,
                               ![t].sweep.sources = @ \cup new, ![t].pc = pc]
           /\ UNCHANGED <<history, deletion>>
  <2>1. PICK new, pc :
          /\ pc \in {"swept", "sweep", "last"}
          /\ sweep' = [sweep EXCEPT ![t].sweep.plan = <<>>, ![t].sweep.pass = @ + 1,
                         ![t].sweep.sources = @ \cup new, ![t].pc = pc]
    BY <1>3
  <2> DEFINE x == [sweep[t] EXCEPT !.sweep.plan = <<>>, !.sweep.pass = @ + 1,
                     !.sweep.sources = @ \cup new, !.pc = pc]
             w == [sweep[t].sweep EXCEPT !.plan = <<>>, !.pass = @ + 1,
                     !.sources = @ \cup new]
  <2>2. Sweeps!Set(t, x)
    BY <2>1 DEF Sweeps!Set, BaseInv, Shaped
  <2>3. RequestFields(sweep[t]) /\ SweepFields(sweep[t].sweep)
    BY DEF BaseInv, Shaped
  <2>4. DOMAIN x = DOMAIN sweep[t] /\ x = [i \in DOMAIN x |-> x[i]]
    OBVIOUS
  <2>5. x.sweep = w
    BY <2>3 DEF RequestFields
  <2>6. /\ x.pc = pc /\ x.kind = sweep[t].kind
        /\ x.idle = sweep[t].idle /\ x.todo = sweep[t].todo /\ x.tried = sweep[t].tried
        /\ x.failed = sweep[t].failed
    BY <2>3 DEF RequestFields
  <2>7. DOMAIN w = DOMAIN sweep[t].sweep /\ w = [i \in DOMAIN w |-> w[i]]
    OBVIOUS
  <2>8. /\ w.owner = sweep[t].sweep.owner /\ w.ref = sweep[t].sweep.ref
        /\ w.recorded = sweep[t].sweep.recorded
    BY <2>3 DEF SweepFields
  <2> HIDE DEF x, w
  <2>9. RequestFields(x) /\ SweepFields(x.sweep)
    BY <2>3, <2>4, <2>5, <2>7, Reshaped, SweepReshaped
  <2>10. Others(t) /\ sweep'[t] = x /\ sweep' = [v \in SweepTask |-> sweep'[v]]
    BY <2>2, SetShape
  <2>11. hold' = [u \in User |-> hold'[u]] /\ deletion' = [r \in RoleId |-> deletion'[r]]
         /\ deletion' = deletion
    BY <1>3 DEF Sweeps!MoveHolders, BaseInv, Shaped
  <2>12. PICK S : role' = [r \in RoleId |-> IF r \in S THEN Sweeps!Write(role[r])
                                           ELSE role[r]]
    BY <1>3
  <2>13. BaseInv'
    BY <2>1, <2>6, <2>9, <2>10, <2>11, <2>12, RowsKeep, RowsBase
  <2>14. Goes(t)
    BY <1>1, <2>1, <2>6, <2>10 DEF Goes, Early, Sweeps!Over
  <2>15. \A r \in RoleId : role'[r].owed = role[r].owed
    BY <2>12, RowsKeep
  <2> QED
    BY ZenonT(60), <1>1, <2>1, <2>5, <2>6, <2>8, <2>10, <2>11, <2>13, <2>14, <2>15, StaysKept
       DEF Sweeping
<1> QED
  <2> DEFINE us == {u \in DOMAIN sweep[t].sweep.plan :
                      \E v \in DOMAIN sweep[t].sweep.plan : hold[u] = sweep[t].sweep.plan[v].from}
             dests == {sweep[t].sweep.plan[u].role : u \in us}
  <2>1. ASSUME ~Sweeps!Only(t, "sweep")
        PROVE  role' = [r \in RoleId |-> IF r \in (IF sweep[t].sweep.fence THEN dests ELSE {})
                                        THEN Sweeps!Write(role[r]) ELSE role[r]]
    BY <2>1 DEF Sweeps!SweepMove
  <2> QED
    BY ZenonT(60), <1>2, <1>3, <2>1 DEF Sweeps!SweepMove

LEMMA SweepLastKept ==
  ASSUME BaseInv, NEW t \in SweepTask, Sweeps!SweepLast(t) \/ Sweeps!SweepFails(t)
  PROVE  StepKept(t)
<1>1. Sweeping(t) /\ (Sweeps!Only(t, "swept") \/ Sweeps!Fails(t))
  BY DEF Sweeps!SweepLast, Sweeps!SweepFails, Sweeping
<1> QED
  BY <1>1, OnlySweeps, FailsKept

LEMMA ClearRows ==
  ASSUME BaseInv, NEW t \in SweepTask, Sweeps!ClearPendingSweep(t)
  PROVE  /\ role' = [r \in RoleId |-> role'[r]]
         /\ \A r \in RoleId :
              /\ RoleFields(role'[r]) /\ role'[r].rev \in Nat
              /\ role'[r].state = role[r].state /\ role'[r].slug = role[r].slug
              /\ role[r].rev <= role'[r].rev /\ role'[r].owed \subseteq role[r].owed
              /\ ~Sweeps!Live(r) => role'[r].owed = {}
              /\ sweep[t].sweep.owner = r /\ sweep[t].sweep.recorded = TRUE /\ Sweeps!Live(r)
                   => sweep[t].sweep.ref \notin role'[r].owed
<1> DEFINE w == sweep[t].sweep
           row == IF w.recorded /\ Sweeps!Live(w.owner)
                  THEN Sweeps!Write([role[w.owner] EXCEPT !.owed = @ \ {w.ref}])
                  ELSE role[w.owner]
<1>1. role' = [role EXCEPT ![w.owner] = row]
  BY DEF Sweeps!ClearPendingSweep
<1>2. \A r \in RoleId : /\ RoleFields(role[r]) /\ role[r].rev \in Nat
                        /\ ~Sweeps!Live(r) => role[r].owed = {}
  BY DEF BaseInv, Shaped, RolesApart
<1>3. w.owner \in RoleId =>
        /\ RoleFields(row) /\ row.rev \in Nat /\ row.state = role[w.owner].state
        /\ row.slug = role[w.owner].slug /\ row.owed \subseteq role[w.owner].owed
        /\ role[w.owner].rev <= row.rev
        /\ w.recorded = TRUE /\ Sweeps!Live(w.owner) => w.ref \notin row.owed
  <2>1. CASE ~(w.recorded /\ Sweeps!Live(w.owner))
    <3>1. row = role[w.owner]
      BY <2>1
    <3> HIDE DEF row, w
    <3> QED BY <1>2, <2>1, <3>1
  <2>2. CASE w.recorded /\ Sweeps!Live(w.owner)
    <3> DEFINE x == [role[w.owner] EXCEPT !.owed = @ \ {w.ref}]
    <3> SUFFICES ASSUME w.owner \in RoleId
                 PROVE  /\ RoleFields(row) /\ row.rev \in Nat
                        /\ row.state = role[w.owner].state
                        /\ row.slug = role[w.owner].slug /\ role[w.owner].rev <= row.rev
                        /\ row.owed = role[w.owner].owed \ {w.ref}
      <4> HIDE DEF row, w
      <4> QED OBVIOUS
    <3>1. /\ RoleFields(x) /\ x.rev = role[w.owner].rev /\ x.state = role[w.owner].state
          /\ x.slug = role[w.owner].slug /\ x.owed = role[w.owner].owed \ {w.ref}
      BY <1>2, OwesOther
    <3>2. row = Sweeps!Write(x)
      BY <2>2
    <3> HIDE DEF x, row
    <3>3. x.rev \in Nat
      BY <1>2, <3>1
    <3> QED
      BY <3>1, <3>2, <3>3, WriteRow
  <2> QED BY <2>1, <2>2
<1> HIDE DEF row, w
<1>4. /\ role' = [r \in RoleId |-> role'[r]]
      /\ \A r \in RoleId : role'[r] = IF r = w.owner THEN row ELSE role[r]
  BY <1>1 DEF BaseInv, Shaped
<1> QED
  BY <1>2, <1>3, <1>4 DEF w

LEMMA ClearKept ==
  ASSUME BaseInv, NEW t \in SweepTask, Sweeps!ClearPendingSweep(t)
  PROVE  StepKept(t)
<1> DEFINE w == sweep[t].sweep
<1>1. /\ sweep[t].pc = "swept" /\ Sweeps!Goto(t, "complete") /\ UNCHANGED <<hold, deletion>>
  BY DEF Sweeps!ClearPendingSweep, Sweeps!Clears
<1>2. /\ Others(t) /\ sweep' = [v \in SweepTask |-> sweep'[v]]
       /\ RequestFields(sweep'[t]) /\ SweepFields(sweep'[t].sweep)
       /\ sweep'[t].pc = "complete" /\ sweep'[t].kind = sweep[t].kind
       /\ sweep'[t].todo = sweep[t].todo /\ sweep'[t].tried = sweep[t].tried
       /\ sweep'[t].sweep = sweep[t].sweep /\ sweep'[t].failed = sweep[t].failed
       /\ sweep'[t].idle = sweep[t].idle
  BY <1>1, GotoShape
<1>3. \A r \in RoleId : ~Sweeps!Live(r) => role[r].owed = {}
  BY DEF BaseInv, RolesApart
<1>4. \A r \in RoleId : /\ RoleFields(role'[r]) /\ role'[r].rev \in Nat
                        /\ role'[r].state = role[r].state /\ role'[r].slug = role[r].slug
                        /\ role'[r].owed \subseteq role[r].owed
                        /\ ~Sweeps!Live(r) => role'[r].owed = {}
  BY ClearRows
<1>5. BaseInv'
  <2>1. /\ hold' = [u \in User |-> hold'[u]] /\ deletion' = [r \in RoleId |-> deletion'[r]]
        /\ \A r \in RoleId : DeletionFields(deletion'[r])
    BY <1>1 DEF BaseInv, Shaped
  <2> QED
    BY <1>4, <1>2, <2>1, ClearRows, RowsBase
<1>6. Goes(t)
  BY <1>1, <1>2 DEF Goes, Early, Sweeps!Over
<1>7. ASSUME Covered(t), sweep[t].kind = "boot" PROVE Covered(t)'
  <2>1. ASSUME NEW r \in RoleId, NEW f \in role'[r].owed
        PROVE  [owner |-> r, ref |-> f, recorded |-> TRUE] \in sweep[t].todo
    <3>1. f \in role[r].owed /\ Sweeps!Live(r)
      BY <1>3, <1>4, <2>1
    <3>2. ~(w.owner = r /\ w.ref = f /\ w.recorded = TRUE)
      BY <2>1, <3>1, ClearRows
    <3> QED
      BY <1>7, <3>1, <3>2 DEF Covered
  <2>2. sweep'[t].pc = "complete" /\ sweep'[t].todo = sweep[t].todo
        /\ sweep'[t].tried = sweep[t].tried /\ sweep'[t].sweep = sweep[t].sweep
    BY <1>2
  <2>3. \A r \in RoleId : Pending(r)' /\ <<r, deletion'[r].slug>> \in sweep'[t].tried =>
          (\E p \in sweep'[t].todo : p.ref.role = r) \/ sweep'[t].sweep.ref.role = r
    BY <1>1, <1>7, <2>2 DEF Covered, Pending
  <2> QED
    BY <2>1, <2>2, <2>3 DEF Covered
<1> QED
  BY <1>1, <1>5, <1>6, <1>7, <1>2 DEF StepKept, BootGoes, BootPc, Unfailed, FailsSaid

LEMMA NextOwed ==
  ASSUME BaseInv, NEW t \in SweepTask,
         sweep' = [sweep EXCEPT ![t].pc = "repair", ![t].sweep = Sweeps!NoSweep]
  PROVE  /\ Others(t) /\ sweep' = [v \in SweepTask |-> sweep'[v]]
         /\ RequestFields(sweep'[t]) /\ SweepFields(sweep'[t].sweep)
         /\ sweep'[t].pc = "repair" /\ sweep'[t].kind = sweep[t].kind
         /\ sweep'[t].todo = sweep[t].todo /\ sweep'[t].tried = sweep[t].tried
         /\ sweep'[t].failed = sweep[t].failed /\ sweep'[t].idle = sweep[t].idle
<1> DEFINE x == [sweep[t] EXCEPT !.pc = "repair", !.sweep = Sweeps!NoSweep]
<1>1. Sweeps!Set(t, x)
  BY DEF Sweeps!Set, BaseInv, Shaped
<1>2. RequestFields(sweep[t])
  BY DEF BaseInv, Shaped
<1>3. DOMAIN x = DOMAIN sweep[t] /\ x = [i \in DOMAIN x |-> x[i]]
  OBVIOUS
<1>4. /\ x.pc = "repair" /\ x.kind = sweep[t].kind /\ x.sweep = Sweeps!NoSweep
      /\ x.todo = sweep[t].todo /\ x.tried = sweep[t].tried
      /\ x.failed = sweep[t].failed /\ x.idle = sweep[t].idle
  BY <1>2 DEF RequestFields
<1> HIDE DEF x
<1>5. RequestFields(x) /\ SweepFields(x.sweep)
  BY <1>2, <1>3, <1>4, Reshaped, NoTaskShape
<1>6. Others(t) /\ sweep'[t] = x /\ sweep' = [v \in SweepTask |-> sweep'[v]]
  BY <1>1, SetShape
<1> QED
  BY <1>4, <1>5, <1>6

LEMMA CompleteKept ==
  ASSUME BaseInv, NEW t \in SweepTask, Sweeps!CompleteDeletion(t)
  PROVE  StepKept(t)
<1> DEFINE q == sweep[t].sweep.ref.role
<1>1. /\ sweep[t].pc = "complete" /\ UNCHANGED <<role, hold>>
      /\ deletion' = IF deletion[q] = None THEN deletion
                     ELSE [deletion EXCEPT ![q].pending = FALSE]
      /\ sweep' = [sweep EXCEPT ![t].pc = "repair", ![t].sweep = Sweeps!NoSweep]
  BY DEF Sweeps!CompleteDeletion
<1> HIDE DEF q
<1>2. \A r \in RoleId : DeletionFields(deletion[r])
  BY DEF BaseInv, Shaped
<1>3. deletion' = [r \in RoleId |-> deletion'[r]]
  BY <1>1 DEF BaseInv, Shaped
<1>4. \A r \in RoleId : r # q => deletion'[r] = deletion[r]
  BY <1>1 DEF BaseInv, Shaped
<1>5. q \in RoleId /\ deletion[q] # None =>
        DeletionFields(deletion'[q]) /\ deletion'[q].pending = FALSE
  <2> SUFFICES ASSUME q \in RoleId, deletion[q] # None
               PROVE  DeletionFields(deletion'[q]) /\ deletion'[q].pending = FALSE
    OBVIOUS
  <2>1. deletion'[q] = [deletion[q] EXCEPT !.pending = FALSE]
    BY <1>1 DEF BaseInv, Shaped
  <2> QED
    BY <1>2, <2>1 DEF DeletionFields
<1>6. \A r \in RoleId : DeletionFields(deletion'[r]) /\ (Pending(r)' => Pending(r) /\ r # q)
  BY <1>1, <1>2, <1>4, <1>5 DEF Pending
<1>7. BaseInv'
  <2>1. \A r \in RoleId : ~Sweeps!Live(r) => role[r].owed = {}
    BY DEF BaseInv, RolesApart
  <2>2. /\ role' = [r \in RoleId |-> role'[r]] /\ hold' = [u \in User |-> hold'[u]]
        /\ \A r \in RoleId : RoleFields(role'[r]) /\ role'[r].rev \in Nat
    BY <1>1 DEF BaseInv, Shaped
  <2>3. \A r \in RoleId : role'[r].state = role[r].state /\ role'[r].slug = role[r].slug
    BY <1>1
  <2> QED
    BY <1>1, <1>3, <1>6, <2>1, <2>2, <2>3, NextOwed, RowsBase
<1>8. Goes(t)
  BY <1>1, NextOwed DEF Goes, Early, Sweeps!Over
<1>9. ASSUME Covered(t) PROVE Covered(t)'
  <2>1. /\ sweep'[t].pc = "repair" /\ sweep'[t].todo = sweep[t].todo
        /\ sweep'[t].tried = sweep[t].tried
    BY <1>1, NextOwed
  <2>2. \A r \in RoleId : \A f \in role'[r].owed :
          [owner |-> r, ref |-> f, recorded |-> TRUE] \in sweep'[t].todo
    BY <1>1, <1>9, <2>1 DEF Covered, Sweeping
  <2>3. \A r \in RoleId : Pending(r)' /\ <<r, deletion'[r].slug>> \in sweep'[t].tried =>
          \E p \in sweep'[t].todo : p.ref.role = r
    BY <1>4, <1>6, <1>9, <2>1 DEF Covered, q
  <2> QED
    BY <2>1, <2>2, <2>3 DEF Covered
<1> QED
  BY <1>1, <1>7, <1>8, <1>9, NextOwed DEF StepKept, BootGoes, BootPc, Unfailed, FailsSaid

LEMMA RecordRows ==
  ASSUME BaseInv, NEW t \in SweepTask, Sweeps!RecordPendingSweep(t)
  PROVE  /\ role' = [r \in RoleId |-> role'[r]]
         /\ \A r \in RoleId :
              /\ RoleFields(role'[r]) /\ role'[r].rev \in Nat
              /\ role'[r].state = role[r].state /\ role'[r].slug = role[r].slug
              /\ role[r].rev <= role'[r].rev
              /\ ~Sweeps!Live(r) => role'[r].owed = {}
<1> DEFINE w == sweep[t].sweep
           x == [role[w.owner] EXCEPT !.owed = @ \cup {w.ref}]
<1>1. \/ role' = [role EXCEPT ![w.owner] = @]
      \/ Sweeps!Live(w.owner) /\ role' = [role EXCEPT ![w.owner] = Sweeps!Write(x)]
  BY DEF Sweeps!RecordPendingSweep
<1>2. \A r \in RoleId : /\ RoleFields(role[r]) /\ role[r].rev \in Nat
                        /\ ~Sweeps!Live(r) => role[r].owed = {}
  BY DEF BaseInv, Shaped, RolesApart
<1>3. w.owner \in RoleId =>
        /\ RoleFields(x) /\ x.rev \in Nat /\ x.rev = role[w.owner].rev
        /\ x.state = role[w.owner].state /\ x.slug = role[w.owner].slug
  BY <1>2, OwesOther
<1> HIDE DEF x, w
<1>4. /\ role' = [r \in RoleId |-> role'[r]]
      /\ \A r \in RoleId :
           role'[r] = role[r] \/ (Sweeps!Live(r) /\ r = w.owner /\ role'[r] = Sweeps!Write(x))
  <2>1. role = [r \in RoleId |-> role[r]]
    BY DEF BaseInv, Shaped
  <2>2. CASE role' = [role EXCEPT ![w.owner] = @]
    BY <2>1, <2>2
  <2>3. CASE Sweeps!Live(w.owner) /\ role' = [role EXCEPT ![w.owner] = Sweeps!Write(x)]
    BY <2>1, <2>3
  <2> QED
    BY <1>1, <2>2, <2>3
<1>5. w.owner \in RoleId =>
        /\ RoleFields(Sweeps!Write(x)) /\ Sweeps!Write(x).rev \in Nat
        /\ Sweeps!Write(x).state = role[w.owner].state
        /\ Sweeps!Write(x).slug = role[w.owner].slug
        /\ role[w.owner].rev <= Sweeps!Write(x).rev
  BY <1>3, WriteRow
<1> QED
  BY <1>2, <1>4, <1>5

LEMMA RecordKept ==
  ASSUME BaseInv, Placed, NEW t \in SweepTask, Sweeps!RecordPendingSweep(t)
  PROVE  StepKept(t)
<1>1. /\ sweep[t].pc = "failed" /\ ~Sweeps!Reconciles(t) /\ UNCHANGED <<hold, deletion>>
      /\ sweep' = [sweep EXCEPT ![t].pc = "repair", ![t].sweep = Sweeps!NoSweep]
  BY DEF Sweeps!RecordPendingSweep
<1>2. /\ hold' = [u \in User |-> hold'[u]] /\ deletion' = [r \in RoleId |-> deletion'[r]]
      /\ \A r \in RoleId : DeletionFields(deletion'[r])
  BY <1>1 DEF BaseInv, Shaped
<1>3. BaseInv'
  BY <1>1, <1>2, RecordRows, NextOwed, RowsBase
<1>4. Goes(t)
  BY <1>1, NextOwed DEF Goes, Early, Sweeps!Over
<1>5. ~Unfailed(t)'
  BY <1>1, NextOwed DEF Placed, Unfailed
<1> QED
  BY <1>1, <1>3, <1>4, <1>5, NextOwed DEF StepKept, BootGoes, BootPc, FailsSaid

LEMMA ListOwnersStarts ==
  ASSUME BaseInv, NEW t \in SweepTask, Sweeps!ListSweepOwners(t)
  PROVE  /\ BaseInv' /\ Others(t) /\ UNCHANGED Sweeps!rows /\ sweep[t].pc = "idle"
         /\ sweep'[t].kind = "boot" /\ sweep'[t].pc = "repair"
         /\ sweep'[t].idle = IF \A v \in SweepTask : Sweeps!Over(v) THEN Sweeps!Idle(t)
                            ELSE {t}
         /\ Covered(t)'
<1> DEFINE owed(r) == Sweeps!Repairs(r, role[r].owed, TRUE)
           all == UNION {owed(r) : r \in {q \in RoleId : Sweeps!Live(q)}}
           idle == IF \A v \in SweepTask : Sweeps!Over(v) THEN Sweeps!Idle(t) ELSE {t}
           tried == {<<p.ref.role, p.ref.slug>> : p \in all}
           x == [Sweeps!NoTask EXCEPT !.kind = "boot", !.pc = "repair", !.todo = all,
                   !.idle = idle, !.tried = tried]
<1>1. Sweeps!Set(t, x) /\ UNCHANGED Sweeps!rows /\ sweep[t].pc = "idle"
  BY DEF Sweeps!ListSweepOwners
<1>2. DOMAIN x = DOMAIN Sweeps!NoTask /\ x = [i \in DOMAIN x |-> x[i]]
  OBVIOUS
<1>3. /\ x.kind = "boot" /\ x.pc = "repair" /\ x.todo = all /\ x.idle = idle
      /\ x.tried = tried /\ x.sweep = Sweeps!NoSweep
  BY DEF Sweeps!NoTask
<1>4. \A r \in RoleId : \A f \in role[r].owed :
        [owner |-> r, ref |-> f, recorded |-> TRUE] \in all
  <2> SUFFICES ASSUME NEW r \in RoleId, NEW f \in role[r].owed
               PROVE  [owner |-> r, ref |-> f, recorded |-> TRUE] \in all
    OBVIOUS
  <2>1. Sweeps!Live(r)
    BY DEF BaseInv, RolesApart
  <2>2. [owner |-> r, ref |-> f, recorded |-> TRUE] \in owed(r)
    BY DEF Sweeps!Repairs
  <2> HIDE DEF owed
  <2> QED
    BY <2>1, <2>2
<1> HIDE DEF x, all, idle
<1>5. RequestFields(x) /\ SweepFields(x.sweep)
  BY <1>2, <1>3, Reshaped, NoTaskShape
<1>6. /\ Others(t) /\ sweep'[t] = x /\ sweep' = [v \in SweepTask |-> sweep'[v]]
      /\ UNCHANGED <<role, deletion>>
  BY <1>1, SetShape DEF Sweeps!rows
<1>7. BaseInv'
  <2>1. \A r \in RoleId : ~Sweeps!Live(r) => role[r].owed = {}
    BY DEF BaseInv, RolesApart
  <2>2. sweep'[t].pc \notin {"save", "remove", "hold", "assign"}
    BY <1>3, <1>6
  <2> QED
    BY <1>1, <1>5, <1>6, <2>1, <2>2, RowsUnchanged, ApartRows DEF BaseInv
<1>8. Covered(t)'
  BY <1>3, <1>4, <1>6 DEF Covered, Pending
<1> QED
  BY <1>1, <1>3, <1>6, <1>7, <1>8 DEF idle

LEMMA ListDeletionsKept ==
  ASSUME BaseInv, NEW t \in SweepTask, Sweeps!ListPendingDeletions(t)
  PROVE  StepKept(t)
<1> DEFINE left == {r \in RoleId : /\ deletion[r] # None /\ deletion[r].pending
                                 /\ <<r, deletion[r].slug>> \notin sweep[t].tried}
           next(r) == Sweeps!Repairs(UserRole, {[role |-> r, slug |-> deletion[r].slug,
                                                 by |-> deletion[r].by]},
                                     \E f \in role[UserRole].owed : f.role = r)
           todo == UNION {next(r) : r \in left}
           tried == sweep[t].tried \cup {<<r, deletion[r].slug>> : r \in left}
           x == [sweep[t] EXCEPT !.pc = IF left = {} THEN "done" ELSE "repair",
                   !.tried = tried, !.todo = todo]
<1>1. /\ sweep[t].kind = "boot" /\ sweep[t].pc = "repair" /\ sweep[t].todo = {}
      /\ Sweeps!Set(t, x) /\ UNCHANGED Sweeps!rows
  BY DEF Sweeps!ListPendingDeletions
<1>2. DOMAIN x = DOMAIN sweep[t] /\ x = [i \in DOMAIN x |-> x[i]]
  OBVIOUS
<1>3. RequestFields(sweep[t]) /\ SweepFields(sweep[t].sweep)
  BY DEF BaseInv, Shaped
<1>4. /\ x.pc = (IF left = {} THEN "done" ELSE "repair") /\ x.kind = sweep[t].kind
      /\ x.tried = tried /\ x.todo = todo /\ x.idle = sweep[t].idle
      /\ x.failed = sweep[t].failed /\ x.sweep = sweep[t].sweep
  BY <1>3 DEF RequestFields
<1>5. \A r \in left : \E p \in todo : p.ref.role = r
  <2> SUFFICES ASSUME NEW r \in left PROVE \E p \in todo : p.ref.role = r
    OBVIOUS
  <2> DEFINE f == [role |-> r, slug |-> deletion[r].slug, by |-> deletion[r].by]
             p == [owner |-> UserRole, ref |-> f,
                   recorded |-> \E g \in role[UserRole].owed : g.role = r]
  <2>1. p \in next(r)
    BY DEF Sweeps!Repairs
  <2>2. p \in todo /\ p.ref.role = r
    BY <2>1
  <2> QED
    BY <2>2
<1>6. left = {} => todo = {}
  OBVIOUS
<1>7. \A r \in RoleId : Pending(r) => <<r, deletion[r].slug>> \in tried
  BY DEF Pending
<1>8. \A r \in RoleId : Pending(r) /\ <<r, deletion[r].slug>> \notin sweep[t].tried => r \in left
  BY DEF Pending
<1> HIDE DEF x, todo, left, tried
<1>9. BaseInv' /\ Goes(t)
  BY <1>1, <1>2, <1>3, <1>4, Reshaped, SetBase DEF Early, Sweeps!Over
<1>10. sweep'[t] = x /\ UNCHANGED <<role, deletion>>
  BY <1>1, SetShape DEF Sweeps!rows
<1>11. ASSUME Covered(t) PROVE Covered(t)'
  <2>1. \A r \in RoleId : role[r].owed = {}
    BY <1>1, <1>11 DEF Covered, Sweeping
  <2>2. \A r \in RoleId : Pending(r) => r \in left
    BY <1>1, <1>8, <1>11 DEF Covered, Sweeping
  <2> QED
    BY <1>4, <1>5, <1>6, <1>7, <1>10, <2>1, <2>2 DEF Covered, Pending
<1> QED
  BY <1>1, <1>4, <1>9, <1>10, <1>11 DEF StepKept, BootGoes, BootPc, Unfailed, FailsSaid

LEMMA EndKept ==
  ASSUME BaseInv, NEW t \in SweepTask, Sweeps!EndRepairs(t) \/ Sweeps!Stop(t)
  PROVE  StepKept(t)
<1>1. CASE Sweeps!EndRepairs(t)
  <2>1. Sweeps!Only(t, "done") /\ ~Sweeps!Over(t) /\ sweep[t].kind # "boot"
    BY <1>1 DEF Sweeps!EndRepairs, Sweeps!Reconciles, Sweeps!Over
  <2> QED
    <3>1. BaseInv' /\ Goes(t)
      BY <2>1, OnlyBase DEF Early
    <3>2. sweep'[t].pc = "done"
      BY <2>1, GotoShape DEF Sweeps!Only
    <3> QED
      BY <2>1, <3>1, <3>2 DEF StepKept, BootGoes, FailsSaid
<1>2. CASE Sweeps!Stop(t)
  <2>1. Sweeps!Only(t, "stopped") /\ ~Sweeps!Over(t)
    BY <1>2 DEF Sweeps!Stop
  <2>2. BaseInv' /\ Goes(t)
    BY <2>1, OnlyBase DEF Early
  <2>3. sweep'[t].pc = "stopped" /\ sweep'[t].kind = sweep[t].kind
        /\ sweep'[t].idle = sweep[t].idle
    BY <2>1, GotoShape DEF Sweeps!Only
  <2> QED
    BY <2>2, <2>3 DEF StepKept, BootGoes, BootPc, Unfailed, FailsSaid
<1> QED
  BY <1>1, <1>2

(***************************************************************************)
(* The steps of the other requests.                                        *)
(***************************************************************************)

LEMMA RequestKept ==
  ASSUME Placed, NEW t \in SweepTask, sweep[t].pc \notin BootPc, BaseInv' /\ Goes(t)
  PROVE  StepKept(t)
  BY DEF Placed, Goes, StepKept, BootGoes, FailsSaid, Sweeping, BootPc

LEMMA AssignedBase ==
  ASSUME BaseInv, NEW t \in SweepTask, Fetched(t), NEW x, Sweeps!Set(t, x),
         RequestFields(x), SweepFields(x.sweep), x.pc = "reconcile",
         x.kind = sweep[t].kind, NEW u, NEW s, hold' = [hold EXCEPT ![u] = s],
         role' = [role EXCEPT ![sweep[t].role] = Sweeps!Write(@)], deletion' = deletion
  PROVE  BaseInv' /\ Goes(t)
<1>1. sweep[t].role \in RoleId
  BY DEF BaseInv, RolesApart
<1>2. role' = [r \in RoleId |-> IF r \in {sweep[t].role} THEN Sweeps!Write(role[r])
                               ELSE role[r]]
  BY <1>1 DEF BaseInv, Shaped
<1>3. /\ Others(t) /\ sweep'[t] = x /\ sweep' = [v \in SweepTask |-> sweep'[v]]
  BY SetShape
<1>4. hold' = [v \in User |-> hold'[v]] /\ deletion' = [r \in RoleId |-> deletion'[r]]
  BY DEF BaseInv, Shaped
<1>5. BaseInv'
  BY <1>2, <1>3, <1>4, RowsKeep, RowsBase
<1>6. Goes(t)
  BY <1>3 DEF Goes, Early, Fetched, Sweeps!Over
<1> QED
  BY <1>5, <1>6

LEMMA SaveRoleBase ==
  ASSUME BaseInv, NEW t \in SweepTask, Sweeps!SaveRole(t) \/ Sweeps!InsertAccount(t)
  PROVE  BaseInv' /\ Goes(t)
<1> DEFINE y(prev) == [sweep[t] EXCEPT !.pc = "reconcile", !.held = None, !.prev = prev]
           z == [sweep[t] EXCEPT !.pc = "reconcile", !.held = None]
<1>1. Fetched(t) /\ ~Sweeps!Over(t)
  BY DEF Fetched, Sweeps!SaveRole, Sweeps!InsertAccount, Sweeps!Over
<1>2. CASE Sweeps!Rerun(t)
  BY <1>1, <1>2, RerunBase
<1>3. CASE Sweeps!Only(t, "refused")
  BY <1>1, <1>3, OnlyBase DEF Early
<1>4. CASE /\ hold' = [hold EXCEPT ![sweep[t].user] = sweep[t].slug]
           /\ role' = [role EXCEPT ![sweep[t].role] = Sweeps!Write(@)]
           /\ (\E prev : Sweeps!Set(t, y(prev))) \/ Sweeps!Set(t, z)
           /\ deletion' = deletion
  <2>1. RequestFields(sweep[t]) /\ SweepFields(sweep[t].sweep)
    BY DEF BaseInv, Shaped
  <2>2. /\ DOMAIN z = DOMAIN sweep[t] /\ z = [i \in DOMAIN z |-> z[i]]
        /\ \A prev : /\ DOMAIN y(prev) = DOMAIN sweep[t]
                     /\ y(prev) = [i \in DOMAIN y(prev) |-> y(prev)[i]]
    OBVIOUS
  <2>3. /\ z.pc = "reconcile" /\ z.kind = sweep[t].kind /\ z.sweep = sweep[t].sweep
        /\ \A prev : /\ y(prev).pc = "reconcile" /\ y(prev).kind = sweep[t].kind
                     /\ y(prev).sweep = sweep[t].sweep
    BY <2>1 DEF RequestFields
  <2> HIDE DEF y, z
  <2>4. /\ RequestFields(z) /\ SweepFields(z.sweep)
        /\ \A prev : RequestFields(y(prev)) /\ SweepFields(y(prev).sweep)
    BY <2>1, <2>2, <2>3, Reshaped
  <2>5. PICK x : /\ Sweeps!Set(t, x) /\ RequestFields(x) /\ SweepFields(x.sweep)
                 /\ x.pc = "reconcile" /\ x.kind = sweep[t].kind
    BY <1>4, <2>3, <2>4
  <2> QED
    BY <1>1, <1>4, <2>5, AssignedBase
<1>5. CASE Sweeps!SaveRole(t)
  <2> DEFINE prev == Sweeps!BySlug(sweep[t].was)
  <2>1. \/ Sweeps!Rerun(t)
        \/ /\ hold' = [hold EXCEPT ![sweep[t].user] = sweep[t].slug]
           /\ role' = [role EXCEPT ![sweep[t].role] = Sweeps!Write(@)]
           /\ Sweeps!Set(t, y(prev))
           /\ deletion' = deletion
    BY <1>5 DEF Sweeps!SaveRole
  <2> HIDE DEF prev, y, z
  <2> QED
    BY <1>2, <1>4, <2>1
<1>6. CASE Sweeps!InsertAccount(t)
  BY <1>2, <1>3, <1>4, <1>6 DEF Sweeps!InsertAccount
<1> QED
  BY <1>5, <1>6

LEMMA RemoveCreatedBase ==
  ASSUME BaseInv, NEW t \in SweepTask, Sweeps!RemoveCreated(t)
  PROVE  BaseInv' /\ Goes(t)
<1>1. sweep[t].pc = "undo" /\ ~Sweeps!Over(t)
  BY DEF Sweeps!RemoveCreated, Sweeps!Over
<1>2. CASE /\ hold' = [hold EXCEPT ![sweep[t].user] = None] /\ Sweeps!Goto(t, "done")
           /\ UNCHANGED <<role, ver, history, deletion>>
  <2>1. /\ Others(t) /\ sweep' = [v \in SweepTask |-> sweep'[v]] /\ sweep'[t].pc = "done"
        /\ RequestFields(sweep'[t]) /\ SweepFields(sweep'[t].sweep)
        /\ sweep'[t].kind = sweep[t].kind
    BY <1>2, GotoShape
  <2>2. /\ role' = [r \in RoleId |-> role'[r]]
        /\ hold' = [v \in User |-> hold'[v]] /\ deletion' = [r \in RoleId |-> deletion'[r]]
        /\ \A r \in RoleId : /\ RoleFields(role'[r]) /\ role'[r].rev \in Nat
                             /\ role'[r].state = role[r].state /\ role'[r].slug = role[r].slug
                             /\ ~Sweeps!Live(r) => role'[r].owed = {}
                             /\ DeletionFields(deletion'[r])
    BY <1>2 DEF BaseInv, Shaped, RolesApart
  <2>3. BaseInv'
    BY <2>1, <2>2, RowsBase
  <2> QED
    BY <1>1, <2>1, <2>3 DEF Goes, Early
<1>3. CASE UNCHANGED Sweeps!rows /\ \E from, prev : Sweeps!SweepFor(t, from, prev)
  BY <1>1, <1>3, SweepForBase, SetBase DEF Early
<1>4. CASE Sweeps!Only(t, "done")
  BY <1>1, <1>4, OnlyBase DEF Early
<1> QED
  BY <1>2, <1>3, <1>4 DEF Sweeps!RemoveCreated

LEMMA InsertCustomRoleBase ==
  ASSUME BaseInv, NEW t \in SweepTask, NEW q \in RoleId, NEW s,
         Sweeps!InsertCustomRole(t, q, s)
  PROVE  BaseInv' /\ Goes(t)
<1> DEFINE x == [Sweeps!NoTask EXCEPT !.kind = "insert", !.pc = "done"]
           new == [role[q] EXCEPT !.state = "live", !.slug = s]
<1>1. /\ sweep[t].pc = "idle" /\ role[q].state = "none" /\ Sweeps!Carriers(s) = {}
      /\ role' = [role EXCEPT ![q] = new] /\ Sweeps!Set(t, x)
      /\ UNCHANGED <<hold, ver, history, deletion>>
  BY DEF Sweeps!InsertCustomRole
<1>2. DOMAIN x = DOMAIN Sweeps!NoTask /\ x = [i \in DOMAIN x |-> x[i]]
  OBVIOUS
<1>3. x.kind = "insert" /\ x.pc = "done" /\ x.sweep = Sweeps!NoSweep
  BY DEF Sweeps!NoTask
<1>4. RoleFields(new) /\ new.rev = role[q].rev /\ new.state = "live" /\ new.slug = s
  <2>1. RoleFields(role[q])
    BY DEF BaseInv, Shaped
  <2>2. DOMAIN new = DOMAIN role[q] /\ new = [i \in DOMAIN new |-> new[i]]
    OBVIOUS
  <2>3. new.rev = role[q].rev /\ new.state = "live" /\ new.slug = s
    BY <2>1 DEF RoleFields
  <2> HIDE DEF new
  <2> QED
    BY <2>1, <2>2, <2>3 DEF RoleFields
<1> HIDE DEF x, new
<1>5. /\ Others(t) /\ sweep'[t] = x /\ sweep' = [v \in SweepTask |-> sweep'[v]]
      /\ RequestFields(x) /\ SweepFields(x.sweep)
  BY <1>1, <1>2, <1>3, SetShape, Reshaped, NoTaskShape
<1>6. /\ role' = [r \in RoleId |-> role'[r]] /\ role'[q] = new
      /\ \A r \in RoleId : r # q => role'[r] = role[r]
  BY <1>1 DEF BaseInv, Shaped
<1>7. Shaped'
  BY <1>1, <1>4, <1>5, <1>6 DEF BaseInv, Shaped, Others
<1>8. \A r \in RoleId : r # q => (Sweeps!Live(r)' <=> Sweeps!Live(r))
  BY <1>6 DEF Sweeps!Live
<1>9. \A v \in SweepTask : Fetched(v)' => v # t /\ Fetched(v) /\ sweep'[v] = sweep[v]
  BY <1>3, <1>5 DEF Fetched, Others
<1>10. \A v \in SweepTask : Takers(v)' => v # t /\ Takers(v) /\ sweep'[v] = sweep[v]
  BY <1>3, <1>5 DEF Takers, Others
<1>11. \A v \in SweepTask : Fetched(v) => sweep[v].role \in RoleId \ {q}
  BY <1>1 DEF BaseInv, RolesApart
<1>12. RolesApart'
  <2>1. Sweeps!Live(UserRole)' /\ Sweeps!Live(q)'
    BY <1>4, <1>6, <1>8 DEF BaseInv, RolesApart, Sweeps!Live
  <2>2. \A r \in RoleId : Sweeps!Live(r) => role[r].slug # s
    BY <1>1 DEF Sweeps!Carriers
  <2>3. \A r, p \in RoleId :
          Sweeps!Live(r)' /\ Sweeps!Live(p)' /\ role'[r].slug = role'[p].slug => r = p
    BY <1>4, <1>6, <1>8, <2>2 DEF BaseInv, RolesApart
  <2>4. \A r \in RoleId : ~Sweeps!Live(r)' => role'[r].owed = {}
    BY <1>6, <1>8, <2>1 DEF BaseInv, RolesApart
  <2>5. \A v \in SweepTask :
          Fetched(v)' => sweep'[v].role \in RoleId /\ role'[sweep'[v].role].state # "none"
    BY <1>6, <1>9, <1>11 DEF BaseInv, RolesApart
  <2>6. \A v \in SweepTask : Takers(v)' => sweep'[v].role # UserRole
    BY <1>10 DEF BaseInv, RolesApart
  <2>7. ASSUME ~Sweeps!Mongo, NEW v \in SweepTask, Takers(v)'
        PROVE  /\ Sweeps!Live(sweep[v].role)'
               /\ \A w \in SweepTask \ {v} : Takers(w)' => sweep'[w].role # sweep'[v].role
    <3>1. Sweeps!Live(sweep[v].role) /\ sweep'[v] = sweep[v] /\ sweep[v].role \in RoleId \ {q}
      BY <1>10, <1>11, <2>7 DEF BaseInv, RolesApart, Takers, Fetched
    <3>2. \A w \in SweepTask \ {v} : Takers(w)' => sweep'[w].role # sweep'[v].role
      BY <1>10, <2>7 DEF BaseInv, RolesApart
    <3> QED
      BY <1>6, <3>1, <3>2 DEF Sweeps!Live
  <2> QED
    BY <2>1, <2>3, <2>4, <2>5, <2>6, <2>7 DEF BaseInv, RolesApart, Sweeps!Mongo
<1> QED
  BY <1>1, <1>3, <1>5, <1>7, <1>12 DEF BaseInv, Goes, Early

(* A live role q is written by a request that has it. *)
LEMMA EditedApart ==
  ASSUME BaseInv, NEW t \in SweepTask, NEW q \in RoleId, Others(t),
         sweep'[t].pc \notin {"save", "remove", "hold", "assign"},
         \A r \in RoleId : Sweeps!Live(r)' <=> Sweeps!Live(r), Sweeps!Live(q),
         \A r \in RoleId : r # q => role'[r] = role[r],
         role'[q].state = role[q].state, Sweeps!Carriers(role'[q].slug) \ {q} = {}
  PROVE  RolesApart'
<1>1. \A v \in SweepTask : Fetched(v)' => Fetched(v) /\ sweep'[v] = sweep[v]
  BY DEF Fetched, Others
<1>2. \A v \in SweepTask : Takers(v)' => Takers(v) /\ sweep'[v] = sweep[v]
  BY DEF Takers, Others
<1>3. \A r \in RoleId : Sweeps!Live(r) /\ r # q => role[r].slug # role'[q].slug
  BY DEF Sweeps!Carriers
<1>4. UserRole \in RoleId /\ Sweeps!Live(UserRole)'
  BY DEF BaseInv, RolesApart
<1>5. \A r, p \in RoleId :
        Sweeps!Live(r)' /\ Sweeps!Live(p)' /\ role'[r].slug = role'[p].slug => r = p
  BY <1>3 DEF BaseInv, RolesApart
<1>6. \A r \in RoleId : ~Sweeps!Live(r)' => role'[r].owed = {}
  BY DEF BaseInv, RolesApart
<1>7. \A v \in SweepTask :
        Fetched(v)' => sweep'[v].role \in RoleId /\ role'[sweep'[v].role].state # "none"
  <2>1. \A r \in RoleId : role'[r].state = role[r].state
    OBVIOUS
  <2> QED
    BY <1>1, <2>1 DEF BaseInv, RolesApart
<1>8. \A v \in SweepTask : Takers(v)' => sweep'[v].role # UserRole
  BY <1>2 DEF BaseInv, RolesApart
<1>9. ASSUME ~Sweeps!Mongo, NEW v \in SweepTask, Takers(v)'
      PROVE  /\ Sweeps!Live(sweep[v].role)'
             /\ \A w \in SweepTask \ {v} : Takers(w)' => sweep'[w].role # sweep'[v].role
  <2>1. Sweeps!Live(sweep[v].role) /\ sweep'[v] = sweep[v] /\ sweep[v].role \in RoleId
    BY <1>2, <1>9 DEF BaseInv, RolesApart, Takers, Fetched
  <2>2. Sweeps!Live(sweep[v].role)'
    <3>1. \A r \in RoleId : role'[r].state = role[r].state
      OBVIOUS
    <3> QED
      BY <2>1, <3>1 DEF Sweeps!Live
  <2>3. \A w \in SweepTask \ {v} : Takers(w)' => sweep'[w].role # sweep'[v].role
    BY <1>2, <1>9 DEF BaseInv, RolesApart
  <2> QED
    BY <2>2, <2>3
<1> QED
  BY <1>4, <1>5, <1>6, <1>7, <1>8, <1>9 DEF RolesApart, Sweeps!Mongo

LEMMA SaveEditBase ==
  ASSUME BaseInv, NEW t \in SweepTask, Sweeps!SaveEdit(t)
  PROVE  BaseInv' /\ Goes(t)
<1> DEFINE us == {u \in User : hold[u] = sweep[t].was}
           q == sweep[t].role
           slug == sweep[t].slug
           notes == Sweeps!Notes(t)
           new == [role[q] EXCEPT !.slug = slug, !.owed = notes]
           x == [sweep[t] EXCEPT !.pc = "repair", !.todo = Sweeps!Repairs(q, notes, TRUE)]
<1>1. sweep[t].pc = "save" /\ ~Sweeps!Over(t)
  BY DEF Sweeps!SaveEdit, Sweeps!Over
<1>2. q \in RoleId /\ q # UserRole /\ (~Sweeps!Mongo => Sweeps!Live(q))
  BY <1>1 DEF BaseInv, RolesApart, Takers, Fetched
<1>3. CASE Sweeps!Rerun(t)
  BY <1>1, <1>3, RerunBase DEF Fetched
<1>4. CASE Sweeps!Only(t, "refused")
  BY <1>1, <1>4, OnlyBase DEF Early
<1>5. CASE /\ Sweeps!Mongo => Sweeps!Live(q)
           /\ Sweeps!Carriers(slug) \ {q} = {}
           /\ role' = [role EXCEPT ![q] = Sweeps!Write(new)]
           /\ Sweeps!MoveHolders(us, [u \in us |-> slug])
           /\ Sweeps!Set(t, x) /\ UNCHANGED <<history, deletion>>
  <2>1. RequestFields(sweep[t]) /\ SweepFields(sweep[t].sweep) /\ RoleFields(role[q])
        /\ role[q].rev \in Nat
    BY <1>2 DEF BaseInv, Shaped
  <2>2. DOMAIN x = DOMAIN sweep[t] /\ x = [i \in DOMAIN x |-> x[i]]
    OBVIOUS
  <2>3. x.pc = "repair" /\ x.kind = sweep[t].kind /\ x.sweep = sweep[t].sweep
    BY <2>1 DEF RequestFields
  <2>4. /\ DOMAIN new = DOMAIN role[q] /\ new = [i \in DOMAIN new |-> new[i]]
        /\ new.state = role[q].state /\ new.slug = slug /\ new.rev = role[q].rev
    BY <2>1 DEF RoleFields
  <2> HIDE DEF x, new, q
  <2>5. RoleFields(new)
    BY <2>1, <2>4 DEF RoleFields
  <2>6. /\ Others(t) /\ sweep'[t] = x /\ sweep' = [v \in SweepTask |-> sweep'[v]]
        /\ RequestFields(x) /\ SweepFields(x.sweep)
    BY <1>5, <2>1, <2>2, <2>3, SetShape, Reshaped
  <2>7. /\ role' = [r \in RoleId |-> role'[r]] /\ role'[q] = Sweeps!Write(new)
        /\ \A r \in RoleId : r # q => role'[r] = role[r]
    BY <1>2, <1>5 DEF BaseInv, Shaped
  <2>8. /\ RoleFields(role'[q]) /\ role'[q].rev \in Nat /\ role'[q].state = role[q].state
        /\ role'[q].slug = slug
    BY <2>1, <2>4, <2>5, <2>7, WriteRow
  <2>9. Shaped'
    BY <1>2, <1>5, <2>6, <2>7, <2>8 DEF BaseInv, Shaped, Others, Sweeps!MoveHolders
  <2>10. /\ \A r \in RoleId : Sweeps!Live(r)' <=> Sweeps!Live(r)
         /\ Sweeps!Live(q)
    BY <1>2, <1>5, <2>7, <2>8 DEF Sweeps!Live
  <2>11. RolesApart'
    BY <1>2, <1>5, <2>3, <2>6, <2>7, <2>8, <2>10, EditedApart
  <2> QED
    BY <1>1, <2>3, <2>6, <2>9, <2>11 DEF BaseInv, Goes, Early
<1> QED
  BY <1>3, <1>4, <1>5 DEF Sweeps!SaveEdit, Sweeps!Forbidden

LEMMA RemoveRoleBase ==
  ASSUME BaseInv, NEW t \in SweepTask, Sweeps!RemoveRole(t)
  PROVE  BaseInv' /\ Goes(t)
<1> DEFINE q == sweep[t].role
           recorded == sweep[t].owed # {}
           refs == {Sweeps!OwedBy(t)} \cup sweep[t].owed
           gone == [role[q] EXCEPT !.state = "gone", !.owed = {}]
           fall == [role[UserRole] EXCEPT !.owed = sweep[t].fall \cup refs]
           left == IF recorded THEN Sweeps!Write(fall) ELSE role[UserRole]
           d == [slug |-> sweep[t].was, by |-> t, pending |-> TRUE]
           x == [sweep[t] EXCEPT !.pc = "repair",
                   !.todo = Sweeps!Repairs(UserRole, refs, recorded)]
<1>1. sweep[t].pc = "remove" /\ ~Sweeps!Over(t)
  BY DEF Sweeps!RemoveRole, Sweeps!Over
<1>2. /\ q \in RoleId \ {UserRole} /\ UserRole \in RoleId /\ role[q].state # "none"
      /\ ~Sweeps!Mongo => \A v \in SweepTask \ {t} : Takers(v) => sweep[v].role # q
  BY <1>1 DEF BaseInv, RolesApart, Takers, Fetched
<1>3. CASE Sweeps!Rerun(t)
  BY <1>1, <1>3, RerunBase DEF Fetched
<1>4. CASE Sweeps!Only(t, "refused")
  BY <1>1, <1>4, OnlyBase DEF Early
<1>5. CASE /\ role' = [role EXCEPT ![q].state = "gone", ![q].owed = {}, ![UserRole] = left]
           /\ deletion' = [deletion EXCEPT ![q] = d]
           /\ Sweeps!Set(t, x) /\ UNCHANGED <<hold, ver, history>>
  <2>1. /\ RequestFields(sweep[t]) /\ SweepFields(sweep[t].sweep)
        /\ \A r \in RoleId : RoleFields(role[r]) /\ role[r].rev \in Nat
    BY DEF BaseInv, Shaped
  <2>2. DOMAIN x = DOMAIN sweep[t] /\ x = [i \in DOMAIN x |-> x[i]]
    OBVIOUS
  <2>3. x.pc = "repair" /\ x.kind = sweep[t].kind /\ x.sweep = sweep[t].sweep
    BY <2>1 DEF RequestFields
  <2>4. /\ role' = [r \in RoleId |-> role'[r]] /\ role'[q] = gone /\ role'[UserRole] = left
        /\ \A r \in RoleId \ {q, UserRole} : role'[r] = role[r]
    BY <1>2, <1>5 DEF BaseInv, Shaped
  <2>5. RoleFields(gone) /\ gone.rev = role[q].rev /\ gone.state = "gone" /\ gone.owed = {}
        /\ gone.slug = role[q].slug
    BY <1>2, <2>1, RowGone
  <2>6. /\ RoleFields(fall) /\ fall.rev = role[UserRole].rev
        /\ fall.state = role[UserRole].state /\ fall.slug = role[UserRole].slug
    BY <1>2, <2>1, OwesOther
  <2> HIDE DEF x, gone, fall, q, recorded, refs
  <2>7. /\ RoleFields(left) /\ left.rev \in Nat
        /\ left.state = role[UserRole].state /\ left.slug = role[UserRole].slug
    BY <1>2, <2>1, <2>6, WriteRow
  <2> HIDE DEF left
  <2>8. /\ Others(t) /\ sweep'[t] = x /\ sweep' = [v \in SweepTask |-> sweep'[v]]
        /\ RequestFields(x) /\ SweepFields(x.sweep)
    BY <1>5, <2>1, <2>2, <2>3, SetShape, Reshaped
  <2>9. /\ deletion' = [r \in RoleId |-> deletion'[r]] /\ deletion'[q] = d
        /\ \A r \in RoleId : r # q => deletion'[r] = deletion[r]
        /\ DeletionFields(d)
    BY <1>2, <1>5 DEF BaseInv, Shaped, DeletionFields
  <2>10. \A r \in RoleId : RoleFields(role'[r]) /\ role'[r].rev \in Nat
    BY <1>2, <2>1, <2>4, <2>5, <2>7
  <2>11. Shaped'
    BY <1>2, <1>5, <2>4, <2>8, <2>9, <2>10 DEF BaseInv, Shaped, Others
  <2>12. \A r \in RoleId : /\ role'[r].slug = role[r].slug
                           /\ Sweeps!Live(r)' <=> Sweeps!Live(r) /\ r # q
                           /\ r # q => role'[r].state = role[r].state
                           /\ role'[r].state # "none" \/ role[r].state = "none"
    BY <1>2, <2>4, <2>5, <2>7 DEF Sweeps!Live
  <2>13. \A r \in RoleId : ~Sweeps!Live(r)' => role'[r].owed = {}
    <3>1. \A r \in RoleId \ {q} : Sweeps!Live(r)' \/ r # UserRole
      BY <2>12 DEF BaseInv, RolesApart
    <3> QED
      BY <1>2, <2>4, <2>5, <2>12, <3>1 DEF BaseInv, RolesApart
  <2>14. \A v \in SweepTask : /\ Fetched(v)' => Fetched(v) /\ sweep'[v] = sweep[v]
                              /\ Takers(v)' => Takers(v) /\ v # t /\ sweep'[v] = sweep[v]
    BY <2>3, <2>8 DEF Takers, Fetched, Others
  <2>15. \A v \in SweepTask :
           Fetched(v)' => sweep'[v].role \in RoleId /\ role'[sweep'[v].role].state # "none"
    BY <2>12, <2>14 DEF BaseInv, RolesApart
  <2>16. ASSUME ~Sweeps!Mongo, NEW v \in SweepTask, Takers(v)'
         PROVE  /\ Sweeps!Live(sweep[v].role)'
                /\ \A w \in SweepTask \ {v} : Takers(w)' => sweep'[w].role # sweep'[v].role
    <3>1. /\ Sweeps!Live(sweep[v].role) /\ sweep'[v] = sweep[v] /\ sweep[v].role \in RoleId
          /\ sweep[v].role # q
      BY <1>2, <2>14, <2>16 DEF BaseInv, RolesApart, Takers, Fetched
    <3>2. Sweeps!Live(sweep[v].role)'
      BY <2>12, <3>1 DEF Sweeps!Live
    <3>3. \A w \in SweepTask \ {v} : Takers(w)' => sweep'[w].role # sweep'[v].role
      BY <2>14, <2>16 DEF BaseInv, RolesApart
    <3> QED
      BY <3>2, <3>3
  <2>17. RolesApart'
    <3>1. \A r, p \in RoleId :
            Sweeps!Live(r)' /\ Sweeps!Live(p)' /\ role'[r].slug = role'[p].slug => r = p
      BY <2>12 DEF BaseInv, RolesApart
    <3>2. UserRole \in RoleId /\ Sweeps!Live(UserRole)'
      BY <1>2, <2>12 DEF BaseInv, RolesApart
    <3>3. \A v \in SweepTask : Takers(v)' => sweep'[v].role # UserRole
      BY <2>14 DEF BaseInv, RolesApart
    <3> QED
      BY <2>13, <2>15, <2>16, <3>1, <3>2, <3>3 DEF RolesApart, Sweeps!Mongo
  <2> QED
    BY <1>1, <2>3, <2>8, <2>11, <2>17 DEF BaseInv, Goes, Early
<1> QED
  BY <1>3, <1>4, <1>5 DEF Sweeps!RemoveRole

LEMMA RequestStepsKept ==
  ASSUME BaseInv, Placed, NEW t \in SweepTask,
         \/ Sweeps!SaveEdit(t) \/ Sweeps!RemoveRole(t) \/ Sweeps!HoldRole(t)
         \/ Sweeps!SaveRole(t) \/ Sweeps!InsertAccount(t) \/ Sweeps!Reconcile(t)
         \/ Sweeps!RemoveCreated(t)
         \/ \E r \in RoleId : Sweeps!TakeForDelete(t, r)
         \/ \E r \in RoleId, s \in Slug :
              Sweeps!TakeForEdit(t, r, s) \/ Sweeps!InsertCustomRole(t, r, s)
         \/ \E u \in User, s \in Slug : Sweeps!TakeAccount(t, u, s)
  PROVE  StepKept(t)
<1>1. sweep[t].pc \notin BootPc
  BY DEF BootPc, Sweeps!SaveEdit, Sweeps!RemoveRole, Sweeps!HoldRole, Sweeps!SaveRole,
         Sweeps!InsertAccount, Sweeps!Reconcile, Sweeps!RemoveCreated,
         Sweeps!TakeForDelete, Sweeps!TakeForEdit, Sweeps!InsertCustomRole,
         Sweeps!TakeAccount
<1>2. BaseInv' /\ Goes(t)
  BY SaveEditBase, RemoveRoleBase, HoldRoleBase, SaveRoleBase, ReconcileBase,
     RemoveCreatedBase, TakeForDeleteBase, TakeForEditBase, InsertCustomRoleBase,
     TakeAccountBase
<1> QED
  BY <1>1, <1>2, RequestKept

LEMMA StepsKept ==
  ASSUME BaseInv, Placed, Sweeps!Next
  PROVE  \E t \in SweepTask : StepKept(t) \/ Sweeps!ListSweepOwners(t)
<1> PICK t \in SweepTask :
      \/ Sweeps!SaveEdit(t) \/ Sweeps!RemoveRole(t) \/ Sweeps!HoldRole(t)
      \/ Sweeps!SaveRole(t) \/ Sweeps!InsertAccount(t) \/ Sweeps!Reconcile(t)
      \/ Sweeps!RemoveCreated(t)
      \/ \E r \in RoleId : Sweeps!TakeForDelete(t, r)
      \/ \E r \in RoleId, s \in Slug :
           Sweeps!TakeForEdit(t, r, s) \/ Sweeps!InsertCustomRole(t, r, s)
      \/ \E u \in User, s \in Slug : Sweeps!TakeAccount(t, u, s)
      \/ Sweeps!SweepRead(t) \/ Sweeps!SweepMove(t) \/ Sweeps!SweepLast(t)
      \/ Sweeps!SweepFails(t) \/ Sweeps!ClearPendingSweep(t)
      \/ Sweeps!CompleteDeletion(t) \/ Sweeps!RecordPendingSweep(t)
      \/ Sweeps!EndRepairs(t) \/ Sweeps!Stop(t)
      \/ Sweeps!ListSweepOwners(t) \/ Sweeps!ListPendingDeletions(t)
      \/ \E p \in sweep[t].todo : Sweeps!NextRepair(t, p)
  BY DEF Sweeps!Next
<1> QED
  BY RequestStepsKept, SweepReadKept, SweepMoveKept, SweepLastKept, ClearKept,
     CompleteKept, RecordKept, EndKept, ListDeletionsKept, NextRepairKept

(***************************************************************************)
(* A start of the process that no other request meets.                     *)
(***************************************************************************)

(* A start that nothing met when it began: all other requests were over    *)
(* then, or had not begun.                                                 *)
Undisturbed(t) == sweep[t].kind = "boot" /\ t \notin sweep[t].idle

Alone ==
  \A t \in SweepTask : Undisturbed(t) =>
    \A v \in SweepTask \ {t} :
      v \in sweep[t].idle \/ (Sweeps!Over(v) /\ sweep[v].pc # "idle")

(* As long as the others have written nothing and the start has not        *)
(* failed, it covers what is owed.                                         *)
Quiet(t) ==
  /\ Undisturbed(t) /\ Unfailed(t)
  /\ \A v \in sweep[t].idle : v \in SweepTask => sweep[v].pc \in Early

Settling == BaseInv /\ Placed /\ Alone /\ \A t \in SweepTask : Quiet(t) => Covered(t)

(* What t does to a start w that t meets: it is one that w found idle, and *)
(* it writes nothing while it is early.                                    *)
LEMMA OthersQuiet ==
  ASSUME Alone, NEW t \in SweepTask, Others(t), sweep[t].pc = "idle" \/ ~Sweeps!Over(t),
         sweep'[t].pc \in Early => sweep[t].pc \in Early /\ UNCHANGED Sweeps!rows,
         NEW w \in SweepTask \ {t}, Undisturbed(w)'
  PROVE  /\ Undisturbed(w) /\ t \in sweep[w].idle
         /\ Quiet(w)' => Quiet(w) /\ (Covered(w) => Covered(w)')
<1>1. sweep'[w] = sweep[w] /\ Undisturbed(w)
  BY DEF Others, Undisturbed
<1>2. t \in sweep[w].idle
  BY <1>1 DEF Alone
<1>3. Quiet(w)' => Quiet(w) /\ UNCHANGED Sweeps!rows
  BY <1>1, <1>2 DEF Quiet, Unfailed, Others
<1>4. UNCHANGED Sweeps!rows /\ Covered(w) => Covered(w)'
  BY <1>1 DEF Covered, Sweeping, Pending, Sweeps!rows
<1> QED
  BY <1>1, <1>2, <1>3, <1>4

LEMMA OthersAlone ==
  ASSUME Alone, NEW t \in SweepTask, Others(t), sweep[t].pc = "idle" \/ ~Sweeps!Over(t),
         sweep'[t].pc \in Early => sweep[t].pc \in Early /\ UNCHANGED Sweeps!rows,
         NEW w \in SweepTask \ {t}, Undisturbed(w)', NEW v \in SweepTask \ {w}
  PROVE  v \in sweep'[w].idle \/ (Sweeps!Over(v)' /\ sweep'[v].pc # "idle")
<1>1. sweep'[w] = sweep[w] /\ Undisturbed(w) /\ t \in sweep[w].idle
  BY OthersQuiet DEF Others
<1>2. CASE v = t
  BY <1>1, <1>2
<1>3. CASE v # t
  BY <1>1, <1>3 DEF Alone, Others, Sweeps!Over, Sweeps!Reconciles
<1> QED
  BY <1>2, <1>3

LEMMA StepSettling ==
  ASSUME Settling, NEW t \in SweepTask, StepKept(t)
  PROVE  Settling'
<1>1. Others(t) /\ (sweep[t].pc = "idle" \/ ~Sweeps!Over(t))
      /\ (sweep'[t].pc \in Early => sweep[t].pc \in Early /\ UNCHANGED Sweeps!rows)
  BY DEF StepKept, Goes
<1>2. Placed'
  BY DEF Settling, StepKept, Placed, Goes, BootGoes, FailsSaid, Others
<1>3. ASSUME Undisturbed(t)'
      PROVE  Undisturbed(t) /\ sweep'[t].idle = sweep[t].idle
  BY <1>3 DEF StepKept, Goes, BootGoes, Undisturbed
<1>4. Alone'
  <2> SUFFICES ASSUME NEW w \in SweepTask, Undisturbed(w)', NEW v \in SweepTask \ {w}
               PROVE  v \in sweep'[w].idle \/ (Sweeps!Over(v)' /\ sweep'[v].pc # "idle")
    BY DEF Alone
  <2>1. CASE w = t
    BY <1>1, <1>3, <2>1 DEF Settling, Alone, Others, Sweeps!Over, Sweeps!Reconciles
  <2>2. CASE w # t
    BY <1>1, <2>2, OthersAlone DEF Settling
  <2> QED
    BY <2>1, <2>2
<1>5. ASSUME NEW w \in SweepTask, Quiet(w)' PROVE Covered(w)'
  <2>1. CASE w = t
    <3>1. Undisturbed(t) /\ sweep'[t].idle = sweep[t].idle
      BY <1>3, <1>5, <2>1 DEF Quiet
    <3>2. Unfailed(t) /\ (Covered(t) => Covered(t)')
      BY <1>5, <2>1, <3>1 DEF StepKept, BootGoes, Quiet, Undisturbed
    <3>3. Quiet(t)
      BY <1>1, <1>5, <2>1, <3>1, <3>2 DEF Quiet, Undisturbed, Others
    <3> QED
      BY <2>1, <3>2, <3>3 DEF Settling
  <2>2. CASE w # t
    BY <1>1, <1>5, <2>2, OthersQuiet DEF Settling, Quiet
  <2> QED
    BY <2>1, <2>2
<1> QED
  BY <1>2, <1>4, <1>5 DEF Settling, StepKept

LEMMA StartSettling ==
  ASSUME Settling, NEW t \in SweepTask, Sweeps!ListSweepOwners(t)
  PROVE  Settling'
<1>1. /\ BaseInv' /\ Others(t) /\ UNCHANGED Sweeps!rows /\ sweep[t].pc = "idle"
      /\ sweep'[t].kind = "boot" /\ sweep'[t].pc = "repair"
      /\ sweep'[t].idle = IF \A v \in SweepTask : Sweeps!Over(v) THEN Sweeps!Idle(t)
                         ELSE {t}
      /\ Covered(t)'
  BY ListOwnersStarts DEF Settling
<1>2. Placed'
  BY <1>1 DEF Settling, Placed, BootPc, Others
<1>3. Alone'
  <2> SUFFICES ASSUME NEW w \in SweepTask, Undisturbed(w)', NEW v \in SweepTask \ {w}
               PROVE  v \in sweep'[w].idle \/ (Sweeps!Over(v)' /\ sweep'[v].pc # "idle")
    BY DEF Alone
  <2>1. CASE w = t
    <3>1. \A u \in SweepTask : Sweeps!Over(u)
      BY <1>1, <2>1 DEF Undisturbed
    <3>2. sweep'[v] = sweep[v] /\ Sweeps!Over(v)
      BY <1>1, <2>1, <3>1 DEF Others
    <3>3. Sweeps!Over(v)'
      BY <3>2 DEF Sweeps!Over, Sweeps!Reconciles
    <3> QED
      BY <1>1, <2>1, <3>1, <3>2, <3>3 DEF Sweeps!Idle
  <2>2. CASE w # t
    BY <1>1, <2>2, OthersAlone DEF Settling, Early
  <2> QED
    BY <2>1, <2>2
<1>4. ASSUME NEW w \in SweepTask, Quiet(w)' PROVE Covered(w)'
  <2>1. CASE w # t
    BY <1>1, <1>4, <2>1, OthersQuiet DEF Settling, Quiet, Early
  <2> QED
    BY <1>1, <2>1
<1> QED
  BY <1>1, <1>2, <1>3, <1>4 DEF Settling

LEMMA SettlingStutters ==
  ASSUME Settling, UNCHANGED Sweeps!vars
  PROVE  Settling'
<1> USE DEF Sweeps!vars
<1>1. Shaped' /\ RolesApart'
  BY DEF Settling, BaseInv, Shaped, RolesApart, Fetched, Takers, Sweeps!Live, Sweeps!Mongo
<1>2. Placed' /\ Alone'
  BY DEF Settling, Placed, Alone, Undisturbed, Sweeps!Over, Sweeps!Reconciles
<1>3. \A t \in SweepTask : (Quiet(t)' => Quiet(t)) /\ (Covered(t) => Covered(t)')
  BY DEF Quiet, Undisturbed, Unfailed, Covered, Sweeping, Pending
<1> QED
  BY <1>1, <1>2, <1>3 DEF Settling, BaseInv

LEMMA SettlingHolds ==
  ASSUME Sweeps!RoleAssumption
  PROVE  Sweeps!Spec => []Settling
<1>1. Sweeps!Init => Settling
  <2> SUFFICES ASSUME Sweeps!Init PROVE Settling
    OBVIOUS
  <2>1. \A t \in SweepTask : sweep[t].kind = "none" /\ sweep[t].pc = "idle"
    BY DEF Sweeps!Init, Sweeps!NoTask
  <2> QED
    BY <2>1, ShapedInit DEF Settling, Placed, Alone, Quiet, Undisturbed
<1>2. Settling /\ [Sweeps!Next]_Sweeps!vars => Settling'
  <2> SUFFICES ASSUME Settling, [Sweeps!Next]_Sweeps!vars PROVE Settling'
    OBVIOUS
  <2>1. CASE UNCHANGED Sweeps!vars
    BY <2>1, SettlingStutters
  <2>2. CASE Sweeps!Next
    <3>1. PICK t \in SweepTask : StepKept(t) \/ Sweeps!ListSweepOwners(t)
      BY <2>2, StepsKept DEF Settling
    <3> QED
      BY <3>1, StepSettling, StartSettling
  <2> QED
    BY <2>1, <2>2
<1> QED
  BY <1>1, <1>2, PTL DEF Sweeps!Spec

LEMMA SettledStart ==
  ASSUME Settling
  PROVE  Sweeps!StartSettles
<1> SUFFICES ASSUME \A t \in SweepTask : Sweeps!Over(t), NEW t \in SweepTask,
                    sweep[t].kind = "boot", sweep[t].pc = "done", ~sweep[t].failed,
                    sweep[t].idle = Sweeps!Idle(t)
             PROVE  \A r \in RoleId :
                      role[r].owed = {} /\ (deletion[r] # None => ~deletion[r].pending)
  BY DEF Sweeps!StartSettles
<1>1. Quiet(t)
  BY DEF Quiet, Undisturbed, Unfailed, Early, Sweeps!Idle
<1>2. Covered(t)
  BY <1>1 DEF Settling
<1> QED
  BY <1>2 DEF Covered, Sweeping, Pending

(***************************************************************************)
(* On MongoDB.                                                             *)
(***************************************************************************)

(* The role is still the one that the request has read. *)
UpToDate(t) == /\ Sweeps!Live(sweep[t].role)
               /\ role[sweep[t].role].rev = sweep[t].rev
HeldBy(s) == {u \in User : hold[u] # None /\ hold[u] = s}

(* What a request has read holds as long as nobody has written the role,   *)
(* and no sweep ever has anyone to move.                                   *)
Believed(t) ==
  /\ sweep[t].pc # "move"
  /\ Fetched(t) => sweep[t].rev \in Nat /\ sweep[t].rev <= role[sweep[t].role].rev
  /\ Fetched(t) /\ UpToDate(t) =>
       LET slug == role[sweep[t].role].slug IN
       /\ Takers(t) => sweep[t].was = slug
       /\ sweep[t].pc = "remove" => HeldBy(slug) = {}
       /\ sweep[t].pc \in {"hold", "assign"} => sweep[t].slug = slug

Backed == Sweeps!Mongo => Sweeps!NobodyStranded /\ \A t \in SweepTask : Believed(t)

(* A role keeps its slug and gets no holders, or is written. *)
Steady(r) ==
  /\ role[r].rev <= role'[r].rev
  /\ \/ role[r].rev < role'[r].rev
     \/ ~Sweeps!Live(r)'
     \/ /\ Sweeps!Live(r) /\ role'[r].slug = role[r].slug
        /\ HeldBy(role[r].slug)' \subseteq HeldBy(role[r].slug)

LEMMA CarriedNot ==
  Sweeps!NobodyStranded <=>
    \A u \in User : hold[u] = None
                    \/ \E r \in RoleId : Sweeps!Live(r) /\ role[r].slug = hold[u]
  BY DEF Sweeps!NobodyStranded, Sweeps!Stranded, Sweeps!Carriers

LEMMA CarriedStill ==
  Sweeps!NobodyStranded' <=>
    \A u \in User : hold'[u] = None
                    \/ \E r \in RoleId : Sweeps!Live(r)' /\ role'[r].slug = hold'[u]
  BY DEF Sweeps!NobodyStranded, Sweeps!Stranded, Sweeps!Carriers

LEMMA BackedStep ==
  ASSUME BaseInv, Sweeps!Mongo, Backed, NEW t \in SweepTask, Others(t),
         Shaped', Sweeps!NobodyStranded', Believed(t)',
         \A r \in RoleId : role[r].state # "none" => Steady(r)
  PROVE  Backed'
<1> SUFFICES ASSUME NEW v \in SweepTask, v # t PROVE Believed(v)'
  BY DEF Backed
<1> DEFINE q == sweep[v].role
<1>1. sweep'[v] = sweep[v] /\ Believed(v)
  BY DEF Others, Backed
<1>2. CASE ~Fetched(v)
  BY <1>1, <1>2 DEF Believed, Fetched
<1>3. CASE Fetched(v)
  <2>1. /\ q \in RoleId /\ Steady(q) /\ role[q].rev \in Nat /\ role'[q].rev \in Nat
    BY <1>3 DEF BaseInv, RolesApart, Shaped
  <2>2. sweep[v].rev \in Nat /\ sweep[v].rev <= role[q].rev
    BY <1>1, <1>3 DEF Believed
  <2>3. UpToDate(v)' => /\ UpToDate(v) /\ role'[q].slug = role[q].slug
                        /\ HeldBy(role[q].slug)' \subseteq HeldBy(role[q].slug)
    BY <1>1, <2>1, <2>2 DEF UpToDate, Steady
  <2>4. sweep'[v].rev \in Nat /\ sweep'[v].rev <= role'[q].rev
    BY <1>1, <2>1, <2>2 DEF Steady
  <2>5. UpToDate(v)' => /\ Takers(v)' => sweep'[v].was = role'[q].slug
                        /\ sweep'[v].pc = "remove" => HeldBy(role[q].slug)' = {}
                        /\ sweep'[v].pc \in {"hold", "assign"} =>
                             sweep'[v].slug = role'[q].slug
    BY <1>1, <1>3, <2>3 DEF Believed, Takers, HeldBy
  <2> QED
    BY <1>1, <2>4, <2>5 DEF Believed
<1> QED
  BY <1>2, <1>3

(* A step that neither changes a name nor a holder. *)
LEMMA BackedNames ==
  ASSUME BaseInv, Sweeps!Mongo, Backed, NEW t \in SweepTask, Others(t), Shaped', hold' = hold,
         \A r \in RoleId : /\ role'[r].state = role[r].state /\ role'[r].slug = role[r].slug
                           /\ role[r].rev <= role'[r].rev,
         Believed(t)'
  PROVE  Backed'
<1>1. \A r \in RoleId : Sweeps!Live(r)' <=> Sweeps!Live(r)
  BY DEF Sweeps!Live
<1>2. Sweeps!NobodyStranded'
  BY <1>1, CarriedNot, CarriedStill DEF Backed
<1>3. \A r \in RoleId : Steady(r)
  BY <1>1 DEF Steady, HeldBy, Sweeps!Live
<1> QED
  BY <1>2, <1>3, BackedStep

LEMMA BackedRests ==
  ASSUME BaseInv, Sweeps!Mongo, Backed, NEW t \in SweepTask, Others(t), Shaped', hold' = hold,
         \A r \in RoleId : /\ role'[r].state = role[r].state /\ role'[r].slug = role[r].slug
                           /\ role[r].rev <= role'[r].rev,
         ~Fetched(t)', sweep'[t].pc # "move"
  PROVE  Backed'
  BY BackedNames DEF Believed

LEMMA BackedRows ==
  ASSUME BaseInv, Sweeps!Mongo, Backed, NEW t \in SweepTask, Others(t), Shaped',
         UNCHANGED Sweeps!rows, ~Fetched(t)', sweep'[t].pc # "move"
  PROVE  Backed'
<1>1. hold' = hold /\ role' = role /\ \A r \in RoleId : role[r].rev \in Nat
  BY DEF Sweeps!rows, BaseInv, Shaped
<1> QED
  BY <1>1, BackedRests

(* Steps that write nothing, and those of sweeps. *)
LEMMA PausesBacked ==
  ASSUME BaseInv, Sweeps!Mongo, Backed, NEW t \in SweepTask, BaseInv' /\ Goes(t),
         UNCHANGED Sweeps!rows, ~Sweeping(t), ~Fetched(t)'
  PROVE  Backed'
<1>1. Others(t) /\ sweep'[t].pc # "move" /\ Shaped'
  BY DEF Goes, BaseInv
<1> QED
  BY <1>1, BackedRows

LEMMA RerunBacked ==
  ASSUME BaseInv, Sweeps!Mongo, Backed, NEW t \in SweepTask, Fetched(t),
         Sweeps!Rerun(t) \/ Sweeps!Only(t, "refused")
  PROVE  Backed'
<1>1. UNCHANGED Sweeps!rows /\ ~Sweeping(t) /\ ~Sweeps!Over(t)
  BY DEF Sweeps!Rerun, Sweeps!Only, Sweeping, Fetched, Sweeps!Over
<1>2. CASE Sweeps!Rerun(t)
  <2>1. sweep'[t].pc = "idle"
    BY <1>2, SetShape DEF Sweeps!Rerun, Sweeps!NoTask
  <2> QED
    BY <1>1, <1>2, <2>1, RerunBase, PausesBacked DEF Fetched
<1>3. CASE Sweeps!Only(t, "refused")
  <2>1. sweep'[t].pc = "refused"
    BY <1>3, GotoShape DEF Sweeps!Only
  <2> QED
    BY <1>1, <1>3, <2>1, OnlyBase, PausesBacked DEF Fetched, Early
<1> QED
  BY <1>2, <1>3

LEMMA NobodyStale ==
  ASSUME Sweeps!NobodyStranded, NEW t \in SweepTask
  PROVE  Sweeps!Stale(t) = {}
  BY DEF Sweeps!NobodyStranded, Sweeps!Stale

LEMMA SweepsBacked ==
  ASSUME BaseInv, Sweeps!Mongo, Backed, NEW t \in SweepTask, StepKept(t),
         \/ Sweeps!SweepRead(t) \/ Sweeps!SweepMove(t) \/ Sweeps!SweepLast(t)
         \/ Sweeps!SweepFails(t) \/ Sweeps!EndRepairs(t) \/ Sweeps!Stop(t)
  PROVE  Backed'
<1>1. BaseInv' /\ Others(t) /\ Shaped'
  BY DEF StepKept, Goes, BaseInv
<1>2. Sweeps!Stale(t) = {} /\ sweep[t].pc # "move"
  BY NobodyStale DEF Backed, Believed
<1>3. \/ Sweeps!Goto(t, "swept") /\ UNCHANGED Sweeps!rows
      \/ Sweeps!Only(t, "swept") \/ Sweeps!Only(t, "done") \/ Sweeps!Only(t, "stopped")
      \/ Sweeps!Fails(t)
  BY <1>2 DEF Sweeps!SweepRead, Sweeps!SweepMove, Sweeps!SweepLast, Sweeps!SweepFails,
              Sweeps!EndRepairs, Sweeps!Stop
<1>4. UNCHANGED Sweeps!rows /\ sweep'[t].pc \in {"swept", "done", "stopped", "failed"}
  <2>1. CASE Sweeps!Fails(t)
    <3>1. RequestFields(sweep[t])
      BY DEF BaseInv, Shaped
    <3> QED
      <4> DEFINE x == [sweep[t] EXCEPT !.pc = "failed", !.failed = TRUE]
      <4>1. Sweeps!Set(t, x) /\ UNCHANGED Sweeps!rows
        BY <2>1 DEF Sweeps!Fails
      <4>2. x.pc = "failed"
        BY <3>1 DEF RequestFields
      <4> HIDE DEF x
      <4> QED
        BY <4>1, <4>2, SetShape
  <2> QED
    BY <1>3, <2>1, GotoShape DEF Sweeps!Only
<1> QED
  BY <1>1, <1>4, BackedRows DEF Fetched

LEMMA RepairsBacked ==
  ASSUME BaseInv, Sweeps!Mongo, Backed, NEW t \in SweepTask, StepKept(t),
         \/ Sweeps!ClearPendingSweep(t) \/ Sweeps!CompleteDeletion(t)
         \/ Sweeps!RecordPendingSweep(t)
  PROVE  Backed'
<1>1. BaseInv' /\ Others(t) /\ Shaped'
  BY DEF StepKept, Goes, BaseInv
<1>2. hold' = hold /\ sweep'[t].pc \in {"complete", "repair"}
  BY GotoShape, NextOwed DEF Sweeps!ClearPendingSweep, Sweeps!CompleteDeletion,
     Sweeps!RecordPendingSweep
<1>3. \A r \in RoleId : /\ role'[r].state = role[r].state /\ role'[r].slug = role[r].slug
                        /\ role[r].rev <= role'[r].rev
  <2>1. CASE Sweeps!CompleteDeletion(t)
    BY <2>1 DEF Sweeps!CompleteDeletion, BaseInv, Shaped
  <2> QED
    BY <2>1, ClearRows, RecordRows
<1> QED
  BY <1>1, <1>2, <1>3, BackedRests DEF Fetched

LEMMA ListsBacked ==
  ASSUME BaseInv, Placed, Sweeps!Mongo, Backed, NEW t \in SweepTask,
         \/ Sweeps!ListSweepOwners(t) \/ Sweeps!ListPendingDeletions(t)
         \/ \E p \in sweep[t].todo : Sweeps!NextRepair(t, p)
         \/ Sweeps!Reconcile(t)
  PROVE  Backed'
<1>1. CASE Sweeps!ListSweepOwners(t)
  <2>1. /\ BaseInv' /\ Others(t) /\ UNCHANGED Sweeps!rows /\ sweep'[t].pc = "repair"
    BY <1>1, ListOwnersStarts
  <2> QED
    BY <2>1, BackedRows DEF BaseInv, Fetched
<1>2. CASE \/ Sweeps!ListPendingDeletions(t) \/ Sweeps!Reconcile(t)
           \/ \E p \in sweep[t].todo : Sweeps!NextRepair(t, p)
  <2>1. /\ UNCHANGED Sweeps!rows /\ ~Sweeping(t) /\ sweep[t].pc \notin Early
    BY <1>2 DEF Sweeps!ListPendingDeletions, Sweeps!NextRepair, Sweeps!Reconcile, Sweeping,
                Early
  <2>2. BaseInv' /\ Goes(t)
    BY <1>2, ListDeletionsKept, NextRepairKept, ReconcileBase DEF StepKept
  <2> QED
    BY <2>1, <2>2, PausesBacked DEF Goes, Fetched, Early
<1> QED
  BY <1>1, <1>2

LEMMA TakesBacked ==
  ASSUME BaseInv, Sweeps!Mongo, Backed, NEW t \in SweepTask, BaseInv',
         \/ \E r \in RoleId : Sweeps!TakeForDelete(t, r)
         \/ \E r \in RoleId, s \in Slug : Sweeps!TakeForEdit(t, r, s)
         \/ \E u \in User, s \in Slug : Sweeps!TakeAccount(t, u, s)
  PROVE  Backed'
<1>1. UNCHANGED Sweeps!rows /\ UNCHANGED <<role, hold>>
  BY DEF Sweeps!TakeForDelete, Sweeps!TakeForEdit, Sweeps!TakeAccount, Sweeps!rows
<1>2. PICK x : Sweeps!Set(t, x)
  BY DEF Sweeps!TakeForDelete, Sweeps!TakeForEdit, Sweeps!TakeAccount
<1>3. Others(t) /\ sweep'[t] = x
  BY <1>2, SetShape
<1>4. /\ sweep'[t].role \in RoleId /\ sweep'[t].rev = role[sweep'[t].role].rev
      /\ \/ sweep'[t].pc = "save" /\ sweep'[t].was = role[sweep'[t].role].slug
         \/ /\ sweep'[t].pc = "remove" /\ sweep'[t].was = role[sweep'[t].role].slug
            /\ HeldBy(role[sweep'[t].role].slug) = {}
         \/ sweep'[t].pc = "hold" /\ sweep'[t].slug = role[sweep'[t].role].slug
  <2>1. ASSUME NEW r \in RoleId, Sweeps!TakeForDelete(t, r)
        PROVE  /\ sweep'[t].role = r /\ sweep'[t].rev = role[r].rev /\ sweep'[t].pc = "remove"
               /\ sweep'[t].was = role[r].slug /\ HeldBy(role[r].slug) = {}
    <3> DEFINE y == [Sweeps!NoTask EXCEPT !.kind = "delete", !.pc = "remove", !.role = r,
             !.was = role[r].slug, !.rev = role[r].rev, !.owed = role[r].owed,
             !.fall = role[UserRole].owed, !.fallRev = role[UserRole].rev]
    <3>1. Sweeps!Set(t, y) /\ HeldBy(role[r].slug) = {}
      BY <2>1 DEF Sweeps!TakeForDelete, HeldBy
    <3>2. y.role = r /\ y.rev = role[r].rev /\ y.pc = "remove" /\ y.was = role[r].slug
      BY DEF Sweeps!NoTask
    <3> HIDE DEF y
    <3> QED
      BY <3>1, <3>2, SetShape
  <2>2. ASSUME NEW r \in RoleId, NEW s, Sweeps!TakeForEdit(t, r, s)
        PROVE  /\ sweep'[t].role = r /\ sweep'[t].rev = role[r].rev /\ sweep'[t].pc = "save"
               /\ sweep'[t].was = role[r].slug
    <3> DEFINE y == [Sweeps!NoTask EXCEPT !.kind = "edit", !.pc = "save", !.role = r,
             !.slug = s, !.was = role[r].slug, !.rev = role[r].rev, !.owed = role[r].owed]
    <3>1. Sweeps!Set(t, y)
      BY <2>2 DEF Sweeps!TakeForEdit
    <3>2. y.role = r /\ y.rev = role[r].rev /\ y.pc = "save" /\ y.was = role[r].slug
      BY DEF Sweeps!NoTask
    <3> HIDE DEF y
    <3> QED
      BY <3>1, <3>2, SetShape
  <2>3. ASSUME NEW u, NEW s, Sweeps!TakeAccount(t, u, s)
        PROVE  /\ sweep'[t].role \in RoleId /\ sweep'[t].rev = role[sweep'[t].role].rev
               /\ sweep'[t].pc = "hold" /\ sweep'[t].slug = role[sweep'[t].role].slug
    <3> DEFINE r == Sweeps!BySlug(s)
               y == [Sweeps!NoTask EXCEPT
                      !.kind = IF hold[u] = None THEN "create" ELSE "assign",
                      !.pc = "hold", !.user = u, !.slug = s, !.role = r,
                      !.rev = role[r].rev, !.uver = ver[u], !.was = hold[u]]
    <3>1. Sweeps!Carriers(s) # {} /\ Sweeps!Set(t, y)
      BY <2>3 DEF Sweeps!TakeAccount
    <3>2. r = (CHOOSE q \in Sweeps!Carriers(s) : TRUE) /\ r \in Sweeps!Carriers(s)
      BY <3>1 DEF Sweeps!BySlug
    <3>3. r \in RoleId /\ role[r].slug = s
      BY <3>2 DEF Sweeps!Carriers
    <3>4. y.role = r /\ y.rev = role[r].rev /\ y.pc = "hold" /\ y.slug = s
      BY DEF Sweeps!NoTask
    <3> HIDE DEF y, r
    <3> QED
      BY <3>1, <3>3, <3>4, SetShape
  <2> QED
    BY <2>1, <2>2, <2>3
<1>5. role[sweep'[t].role].rev \in Nat
  BY <1>4 DEF BaseInv, Shaped
<1>6. Believed(t)'
  BY <1>1, <1>4, <1>5 DEF Believed, Fetched, Takers, HeldBy
<1>7. \A r \in RoleId : role[r].rev <= role'[r].rev
  BY <1>1 DEF BaseInv, Shaped
<1> QED
  BY <1>1, <1>3, <1>6, <1>7, BackedNames DEF BaseInv

LEMMA HoldBacked ==
  ASSUME BaseInv, Sweeps!Mongo, Backed, NEW t \in SweepTask, BaseInv', Sweeps!HoldRole(t)
  PROVE  Backed'
<1> DEFINE r == Sweeps!BySlug(sweep[t].slug)
           x == [sweep[t] EXCEPT !.pc = "assign", !.held = r]
<1>1. CASE Sweeps!Rerun(t)
  BY <1>1, RerunBacked DEF Sweeps!HoldRole, Fetched
<1>2. CASE Sweeps!Set(t, x) /\ UNCHANGED Sweeps!rows
  <2>1. RequestFields(sweep[t])
    BY DEF BaseInv, Shaped
  <2>2. /\ x.pc = "assign" /\ x.role = sweep[t].role /\ x.rev = sweep[t].rev
        /\ x.slug = sweep[t].slug
    BY <2>1 DEF RequestFields
  <2> HIDE DEF x
  <2>3. Others(t) /\ sweep'[t] = x /\ UNCHANGED <<role, hold>> /\ sweep[t].pc = "hold"
    BY <1>2, SetShape DEF Sweeps!rows, Sweeps!HoldRole
  <2>4. Believed(t)'
    BY <2>2, <2>3 DEF Backed, Believed, Fetched, Takers, UpToDate, Sweeps!Live
  <2>5. \A q \in RoleId : role[q].rev <= role'[q].rev
    BY <2>3 DEF BaseInv, Shaped
  <2> QED
    BY <2>3, <2>4, <2>5, BackedNames DEF BaseInv
<1> QED
  BY <1>1, <1>2 DEF Sweeps!HoldRole

(* A write by a request that has a role as it is leaves every other role   *)
(* steady.                                                                 *)
LEMMA SaveEditBacked ==
  ASSUME BaseInv, Sweeps!Mongo, Backed, NEW t \in SweepTask, BaseInv', Sweeps!SaveEdit(t)
  PROVE  Backed'
<1> DEFINE us == {u \in User : hold[u] = sweep[t].was}
           q == sweep[t].role
           slug == sweep[t].slug
           notes == Sweeps!Notes(t)
           new == [role[q] EXCEPT !.slug = slug, !.owed = notes]
           x == [sweep[t] EXCEPT !.pc = "repair", !.todo = Sweeps!Repairs(q, notes, TRUE)]
<1>1. sweep[t].pc = "save" /\ Fetched(t) /\ Takers(t) /\ q \in RoleId
  BY DEF Sweeps!SaveEdit, Fetched, Takers, BaseInv, RolesApart
<1>2. CASE Sweeps!Rerun(t) \/ Sweeps!Only(t, "refused")
  BY <1>1, <1>2, RerunBacked
<1>3. CASE /\ Sweeps!Live(q) /\ role[q].rev = sweep[t].rev
           /\ Sweeps!Carriers(slug) \ {q} = {}
           /\ role' = [role EXCEPT ![q] = Sweeps!Write(new)]
           /\ Sweeps!MoveHolders(us, [u \in us |-> slug])
           /\ Sweeps!Set(t, x)
  <2>1. RequestFields(sweep[t]) /\ RoleFields(role[q]) /\ role[q].rev \in Nat
    BY <1>1 DEF BaseInv, Shaped
  <2>2. x.pc = "repair"
    BY <2>1 DEF RequestFields
  <2>3. /\ DOMAIN new = DOMAIN role[q] /\ new = [i \in DOMAIN new |-> new[i]]
        /\ new.state = role[q].state /\ new.slug = slug /\ new.rev = role[q].rev
    BY <2>1 DEF RoleFields
  <2>4. \A u \in User : hold'[u] = IF hold[u] = sweep[t].was THEN slug ELSE hold[u]
    BY <1>3 DEF Sweeps!MoveHolders
  <2>5. sweep[t].was = role[q].slug
    BY <1>1, <1>3 DEF Backed, Believed, UpToDate
  <2> HIDE DEF x, new, q, notes
  <2>6. RoleFields(new)
    BY <2>1, <2>3 DEF RoleFields
  <2>7. Others(t) /\ sweep'[t] = x
    BY <1>3, SetShape
  <2>8. /\ role'[q] = Sweeps!Write(new) /\ \A r \in RoleId \ {q} : role'[r] = role[r]
    BY <1>1, <1>3 DEF BaseInv, Shaped
  <2>9. /\ role'[q].state = role[q].state /\ role'[q].slug = slug
        /\ role[q].rev < role'[q].rev
    BY <2>1, <2>3, <2>6, <2>8, WriteRow
  <2>10. \A r \in RoleId : Sweeps!Live(r)' <=> Sweeps!Live(r)
    BY <1>1, <2>8, <2>9 DEF Sweeps!Live
  <2>11. Sweeps!NobodyStranded'
    <3> SUFFICES ASSUME NEW u \in User, hold'[u] # None
                 PROVE  \E r \in RoleId : Sweeps!Live(r)' /\ role'[r].slug = hold'[u]
      BY CarriedStill
    <3>1. CASE hold[u] = sweep[t].was
      BY <1>1, <1>3, <2>4, <2>9, <2>10, <3>1
    <3>2. CASE hold[u] # sweep[t].was
      <4>1. PICK r \in RoleId : Sweeps!Live(r) /\ role[r].slug = hold[u]
        BY <2>4, <3>2, CarriedNot DEF Backed
      <4> QED
        BY <2>4, <2>5, <2>8, <2>10, <3>2, <4>1
    <3> QED
      BY <3>1, <3>2
  <2>12. \A r \in RoleId : Sweeps!Live(r) /\ r # q => role[r].slug # slug
    BY <1>3 DEF Sweeps!Carriers
  <2>13. ASSUME NEW r \in RoleId PROVE Steady(r)
    <3>1. CASE r = q
      BY <2>1, <2>9, <3>1, <1>1 DEF Steady, BaseInv, Shaped
    <3>2. CASE r # q
      <4>1. role'[r] = role[r] /\ role[r].rev \in Nat
        BY <2>8, <3>2 DEF BaseInv, Shaped
      <4>2. Sweeps!Live(r) => HeldBy(role[r].slug)' \subseteq HeldBy(role[r].slug)
        BY <2>4, <2>12, <3>2, <4>1 DEF HeldBy
      <4> QED
        BY <2>10, <4>1, <4>2 DEF Steady
    <3> QED
      BY <3>1, <3>2
  <2>14. Believed(t)'
    BY <2>2, <2>7 DEF Believed, Fetched
  <2> QED
    BY <2>7, <2>11, <2>13, <2>14, BackedStep DEF BaseInv
<1> QED
  BY <1>2, <1>3 DEF Sweeps!SaveEdit, Sweeps!Forbidden, Sweeps!Same

LEMMA RemoveRoleBacked ==
  ASSUME BaseInv, Sweeps!Mongo, Backed, NEW t \in SweepTask, BaseInv', Sweeps!RemoveRole(t)
  PROVE  Backed'
<1> DEFINE q == sweep[t].role
           recorded == sweep[t].owed # {}
           refs == {Sweeps!OwedBy(t)} \cup sweep[t].owed
           gone == [role[q] EXCEPT !.state = "gone", !.owed = {}]
           fall == [role[UserRole] EXCEPT !.owed = sweep[t].fall \cup refs]
           left == IF recorded THEN Sweeps!Write(fall) ELSE role[UserRole]
           x == [sweep[t] EXCEPT !.pc = "repair",
                   !.todo = Sweeps!Repairs(UserRole, refs, recorded)]
<1>1. /\ sweep[t].pc = "remove" /\ Fetched(t) /\ Takers(t)
      /\ q \in RoleId \ {UserRole} /\ UserRole \in RoleId
  BY DEF Sweeps!RemoveRole, Fetched, Takers, BaseInv, RolesApart
<1>2. CASE Sweeps!Rerun(t) \/ Sweeps!Only(t, "refused")
  BY <1>1, <1>2, RerunBacked
<1>3. CASE /\ Sweeps!Live(q) /\ role[q].rev = sweep[t].rev
           /\ role' = [role EXCEPT ![q].state = "gone", ![q].owed = {}, ![UserRole] = left]
           /\ Sweeps!Set(t, x) /\ UNCHANGED <<hold, ver, history>>
  <2>1. /\ RequestFields(sweep[t])
        /\ \A r \in RoleId : RoleFields(role[r]) /\ role[r].rev \in Nat
    BY DEF BaseInv, Shaped
  <2>2. x.pc = "repair"
    BY <2>1 DEF RequestFields
  <2>3. HeldBy(role[q].slug) = {}
    BY <1>1, <1>3 DEF Backed, Believed, UpToDate
  <2>4. /\ role'[q] = gone /\ role'[UserRole] = left
        /\ \A r \in RoleId \ {q, UserRole} : role'[r] = role[r]
    BY <1>1, <1>3 DEF BaseInv, Shaped
  <2>5. gone.rev = role[q].rev /\ gone.state = "gone"
    BY <1>1, <2>1, RowGone
  <2>6. /\ RoleFields(fall) /\ fall.rev = role[UserRole].rev
        /\ fall.state = role[UserRole].state /\ fall.slug = role[UserRole].slug
    BY <1>1, <2>1, OwesOther
  <2> HIDE DEF x, gone, fall, q, recorded, refs
  <2>7. /\ role[UserRole].rev <= left.rev
        /\ left.state = role[UserRole].state /\ left.slug = role[UserRole].slug
    BY <1>1, <2>1, <2>6, WriteRow
  <2> HIDE DEF left
  <2>8. Others(t) /\ sweep'[t] = x
    BY <1>3, SetShape
  <2>9. \A r \in RoleId : /\ role[r].rev <= role'[r].rev
                          /\ Sweeps!Live(r)' <=> Sweeps!Live(r) /\ r # q
                          /\ r # q => role'[r].slug = role[r].slug
    BY <1>1, <2>1, <2>4, <2>5, <2>7 DEF Sweeps!Live
  <2>10. Sweeps!NobodyStranded'
    <3> SUFFICES ASSUME NEW u \in User, hold'[u] # None
                 PROVE  \E r \in RoleId : Sweeps!Live(r)' /\ role'[r].slug = hold'[u]
      BY CarriedStill
    <3>1. PICK r \in RoleId : Sweeps!Live(r) /\ role[r].slug = hold[u]
      BY <1>3, CarriedNot DEF Backed
    <3>2. r # q
      BY <1>3, <2>3, <3>1 DEF HeldBy
    <3> QED
      BY <1>3, <2>9, <3>1, <3>2
  <2>11. \A r \in RoleId : Steady(r)
    BY <1>3, <2>9 DEF Steady, HeldBy
  <2>12. Believed(t)'
    BY <2>2, <2>8 DEF Believed, Fetched
  <2> QED
    BY <2>8, <2>10, <2>11, <2>12, BackedStep DEF BaseInv
<1> QED
  BY <1>2, <1>3 DEF Sweeps!RemoveRole, Sweeps!Same

LEMMA InsertBacked ==
  ASSUME BaseInv, Sweeps!Mongo, Backed, NEW t \in SweepTask, NEW q \in RoleId, NEW s, BaseInv',
         Sweeps!InsertCustomRole(t, q, s)
  PROVE  Backed'
<1> DEFINE x == [Sweeps!NoTask EXCEPT !.kind = "insert", !.pc = "done"]
<1>1. /\ role[q].state = "none" /\ Sweeps!Set(t, x) /\ UNCHANGED hold
      /\ \A r \in RoleId \ {q} : role'[r] = role[r]
  BY DEF Sweeps!InsertCustomRole, BaseInv, Shaped
<1>2. x.pc = "done"
  BY DEF Sweeps!NoTask
<1> HIDE DEF x
<1>3. Others(t) /\ sweep'[t] = x
  BY <1>1, SetShape
<1>4. \A r \in RoleId : Sweeps!Live(r) => r # q
  BY <1>1 DEF Sweeps!Live
<1>5. Sweeps!NobodyStranded'
  BY <1>1, <1>4, CarriedNot, CarriedStill DEF Backed, Sweeps!Live
<1>6. \A r \in RoleId : role[r].state # "none" => Steady(r)
  BY <1>1 DEF Steady, HeldBy, Sweeps!Live, BaseInv, Shaped
<1>7. Believed(t)'
  BY <1>2, <1>3 DEF Believed, Fetched
<1> QED
  BY <1>3, <1>5, <1>6, <1>7, BackedStep DEF BaseInv

(* An assignment writes the role of its account. *)
LEMMA AssignedBacked ==
  ASSUME BaseInv, Sweeps!Mongo, Backed, NEW t \in SweepTask, BaseInv', Fetched(t),
         sweep[t].pc = "assign", UpToDate(t), NEW u,
         Others(t), sweep'[t].pc = "reconcile", hold' = [hold EXCEPT ![u] = sweep[t].slug],
         role' = [role EXCEPT ![sweep[t].role] = Sweeps!Write(@)]
  PROVE  Backed'
<1> DEFINE q == sweep[t].role
<1>1. /\ q \in RoleId /\ Sweeps!Live(q) /\ role[q].slug = sweep[t].slug
  BY DEF BaseInv, RolesApart, Backed, Believed, UpToDate
<1>2. /\ role'[q] = Sweeps!Write(role[q]) /\ \A r \in RoleId \ {q} : role'[r] = role[r]
      /\ \A r \in RoleId : RoleFields(role[r]) /\ role[r].rev \in Nat
  BY <1>1 DEF BaseInv, Shaped
<1>3. /\ role'[q].state = role[q].state /\ role'[q].slug = role[q].slug
      /\ role[q].rev < role'[q].rev
  BY <1>1, <1>2, WriteRow
<1>4. \A r \in RoleId : /\ Sweeps!Live(r)' <=> Sweeps!Live(r)
                        /\ role'[r].slug = role[r].slug /\ role[r].rev <= role'[r].rev
  <2>1. role[q].rev <= role'[q].rev
    BY <1>1, <1>2, WriteRow
  <2>2. \A r \in RoleId : role[r].rev <= role'[r].rev
    BY <1>2, <2>1
  <2>3. \A r \in RoleId : role'[r].state = role[r].state /\ role'[r].slug = role[r].slug
    BY <1>2, <1>3
  <2> QED
    BY <2>2, <2>3 DEF Sweeps!Live
<1>5. \A v \in User : hold'[v] = hold[v] \/ hold'[v] = role[q].slug
  BY <1>1 DEF BaseInv, Shaped
<1>6. Sweeps!NobodyStranded'
  BY <1>1, <1>4, <1>5, CarriedNot, CarriedStill DEF Backed
<1>7. ASSUME NEW r \in RoleId PROVE Steady(r)
  <2>1. CASE r = q
    BY <1>3, <1>4, <2>1 DEF Steady
  <2>2. CASE r # q
    <3>1. Sweeps!Live(r) => role[r].slug # role[q].slug
      BY <1>1, <2>2 DEF BaseInv, RolesApart
    <3> QED
      BY <1>4, <1>5, <3>1 DEF Steady, HeldBy
  <2> QED
    BY <2>1, <2>2
<1>8. Believed(t)'
  BY DEF Believed, Fetched
<1> QED
  BY <1>6, <1>7, <1>8, BackedStep DEF BaseInv

LEMMA SaveRoleBacked ==
  ASSUME BaseInv, Sweeps!Mongo, Backed, NEW t \in SweepTask, BaseInv',
         Sweeps!SaveRole(t) \/ Sweeps!InsertAccount(t)
  PROVE  Backed'
<1> DEFINE y(prev) == [sweep[t] EXCEPT !.pc = "reconcile", !.held = None, !.prev = prev]
           z == [sweep[t] EXCEPT !.pc = "reconcile", !.held = None]
<1>1. Fetched(t) /\ sweep[t].pc = "assign"
  BY DEF Fetched, Sweeps!SaveRole, Sweeps!InsertAccount
<1>2. CASE Sweeps!Rerun(t) \/ Sweeps!Only(t, "refused")
  BY <1>1, <1>2, RerunBacked
<1>3. CASE /\ ~Sweeps!Conflicts(t)
           /\ hold' = [hold EXCEPT ![sweep[t].user] = sweep[t].slug]
           /\ role' = [role EXCEPT ![sweep[t].role] = Sweeps!Write(@)]
           /\ (\E prev : Sweeps!Set(t, y(prev))) \/ Sweeps!Set(t, z)
  <2>1. RequestFields(sweep[t])
    BY DEF BaseInv, Shaped
  <2>2. z.pc = "reconcile" /\ \A prev : y(prev).pc = "reconcile"
    BY <2>1 DEF RequestFields
  <2> HIDE DEF y, z
  <2>3. Others(t) /\ sweep'[t].pc = "reconcile"
    BY <1>3, <2>2, SetShape
  <2>4. UpToDate(t)
    BY <1>3 DEF Sweeps!Conflicts, UpToDate, Sweeps!Same
  <2> QED
    BY <1>1, <1>3, <2>3, <2>4, AssignedBacked
<1>4. CASE Sweeps!SaveRole(t)
  <2> DEFINE prev == Sweeps!BySlug(sweep[t].was)
  <2>1. \/ Sweeps!Rerun(t)
        \/ /\ ~Sweeps!Conflicts(t)
           /\ hold' = [hold EXCEPT ![sweep[t].user] = sweep[t].slug]
           /\ role' = [role EXCEPT ![sweep[t].role] = Sweeps!Write(@)]
           /\ Sweeps!Set(t, y(prev))
    BY <1>4 DEF Sweeps!SaveRole
  <2> HIDE DEF prev, y, z
  <2> QED
    BY <1>2, <1>3, <2>1
<1>5. CASE Sweeps!InsertAccount(t)
  BY <1>2, <1>3, <1>5 DEF Sweeps!InsertAccount
<1> QED
  BY <1>4, <1>5

LEMMA RemoveCreatedBacked ==
  ASSUME BaseInv, Placed, Sweeps!Mongo, Backed, NEW t \in SweepTask, BaseInv',
         Sweeps!RemoveCreated(t)
  PROVE  Backed'
<1>1. BaseInv' /\ Goes(t) /\ ~Sweeping(t) /\ sweep[t].pc \notin Early
  BY RemoveCreatedBase DEF Sweeping, Early, Sweeps!RemoveCreated
<1>2. CASE UNCHANGED Sweeps!rows
  BY <1>1, <1>2, PausesBacked DEF Goes, Fetched, Early
<1>3. CASE hold' = [hold EXCEPT ![sweep[t].user] = None] /\ UNCHANGED role
  <2>1. \A u \in User : hold'[u] = hold[u] \/ hold'[u] = None
    BY <1>3 DEF BaseInv, Shaped
  <2>2. Sweeps!NobodyStranded'
    BY <1>3, <2>1, CarriedNot, CarriedStill DEF Backed, Sweeps!Live
  <2>3. \A r \in RoleId : Steady(r)
    BY <1>3, <2>1 DEF Steady, HeldBy, Sweeps!Live, BaseInv, Shaped
  <2>4. Believed(t)' /\ Others(t)
    BY <1>1 DEF Believed, Fetched, Goes, Early
  <2> QED
    BY <2>2, <2>3, <2>4, BackedStep DEF BaseInv
<1> QED
  BY <1>2, <1>3 DEF Sweeps!RemoveCreated, Sweeps!Only

LEMMA EveryStepBacked ==
  ASSUME Settling, Settling', Sweeps!Mongo, Backed, Sweeps!Next
  PROVE  Backed'
<1> USE DEF Settling
<1> PICK t \in SweepTask :
      \/ Sweeps!SaveEdit(t) \/ Sweeps!RemoveRole(t) \/ Sweeps!HoldRole(t)
      \/ Sweeps!SaveRole(t) \/ Sweeps!InsertAccount(t) \/ Sweeps!Reconcile(t)
      \/ Sweeps!RemoveCreated(t)
      \/ \E r \in RoleId : Sweeps!TakeForDelete(t, r)
      \/ \E r \in RoleId, s \in Slug :
           Sweeps!TakeForEdit(t, r, s) \/ Sweeps!InsertCustomRole(t, r, s)
      \/ \E u \in User, s \in Slug : Sweeps!TakeAccount(t, u, s)
      \/ Sweeps!SweepRead(t) \/ Sweeps!SweepMove(t) \/ Sweeps!SweepLast(t)
      \/ Sweeps!SweepFails(t) \/ Sweeps!ClearPendingSweep(t)
      \/ Sweeps!CompleteDeletion(t) \/ Sweeps!RecordPendingSweep(t)
      \/ Sweeps!EndRepairs(t) \/ Sweeps!Stop(t)
      \/ Sweeps!ListSweepOwners(t) \/ Sweeps!ListPendingDeletions(t)
      \/ \E p \in sweep[t].todo : Sweeps!NextRepair(t, p)
  BY DEF Sweeps!Next
<1>1. CASE \/ Sweeps!SaveEdit(t) \/ Sweeps!RemoveRole(t) \/ Sweeps!HoldRole(t)
           \/ Sweeps!SaveRole(t) \/ Sweeps!InsertAccount(t) \/ Sweeps!Reconcile(t)
           \/ Sweeps!RemoveCreated(t)
  BY <1>1, SaveEditBacked, RemoveRoleBacked, HoldBacked, SaveRoleBacked, ListsBacked,
     RemoveCreatedBacked
<1>2. CASE \/ \E r \in RoleId : Sweeps!TakeForDelete(t, r)
           \/ \E r \in RoleId, s \in Slug :
                Sweeps!TakeForEdit(t, r, s) \/ Sweeps!InsertCustomRole(t, r, s)
           \/ \E u \in User, s \in Slug : Sweeps!TakeAccount(t, u, s)
  BY <1>2, TakesBacked, InsertBacked
<1>3. CASE \/ Sweeps!SweepRead(t) \/ Sweeps!SweepMove(t) \/ Sweeps!SweepLast(t)
           \/ Sweeps!SweepFails(t) \/ Sweeps!EndRepairs(t) \/ Sweeps!Stop(t)
  BY <1>3, SweepReadKept, SweepMoveKept, SweepLastKept, EndKept, SweepsBacked
<1>4. CASE \/ Sweeps!ClearPendingSweep(t) \/ Sweeps!CompleteDeletion(t)
           \/ Sweeps!RecordPendingSweep(t)
  BY <1>4, ClearKept, CompleteKept, RecordKept, RepairsBacked
<1>5. CASE \/ Sweeps!ListSweepOwners(t) \/ Sweeps!ListPendingDeletions(t)
           \/ \E p \in sweep[t].todo : Sweeps!NextRepair(t, p)
  BY <1>5, ListsBacked
<1> QED
  BY <1>1, <1>2, <1>3, <1>4, <1>5

LEMMA BackedHolds ==
  ASSUME Sweeps!RoleAssumption
  PROVE  Sweeps!Spec => [](Settling /\ Backed)
<1>1. Sweeps!Init => Backed
  <2> SUFFICES ASSUME Sweeps!Init PROVE Backed
    OBVIOUS
  <2>1. \A t \in SweepTask : sweep[t].pc = "idle"
    BY DEF Sweeps!Init, Sweeps!NoTask
  <2>2. \A r \in FirstRoles \cup {UserRole} :
          r \in RoleId /\ Sweeps!Live(r) /\ role[r].slug = SlugOf[r]
    BY DEF Sweeps!Init, Sweeps!Live, Sweeps!RoleAssumption
  <2>3. \A u \in User : hold[u] = None
                        \/ \E r \in FirstRoles \cup {UserRole} : hold[u] = SlugOf[r]
    BY DEF Sweeps!Init, Sweeps!RoleAssumption
  <2>4. Sweeps!NobodyStranded
    BY <2>2, <2>3, CarriedNot
  <2> QED
    BY <2>1, <2>4 DEF Backed, Believed, Fetched
<1>2. Settling /\ Settling' /\ Backed /\ [Sweeps!Next]_Sweeps!vars => Backed'
  <2> SUFFICES ASSUME Settling, Settling', Backed, [Sweeps!Next]_Sweeps!vars, Sweeps!Mongo
               PROVE  Backed'
    BY DEF Backed, Sweeps!Mongo
  <2>1. CASE UNCHANGED Sweeps!vars
    <3>1. hold' = hold /\ role' = role /\ sweep' = sweep
      BY <2>1 DEF Sweeps!vars
    <3> QED
      BY <3>1, CarriedNot, CarriedStill
         DEF Backed, Believed, Fetched, Takers, UpToDate, HeldBy, Sweeps!Live
  <2> QED
    BY <2>1, EveryStepBacked
<1> QED
  BY <1>1, <1>2, SettlingHolds, PTL DEF Sweeps!Spec

(* On either store, one start of the process that nothing meets and that   *)
(* fails at nothing leaves no repair owed and no deletion pending          *)
(* (RoleSweepBootstrapService); on MongoDB nobody is ever left on a slug   *)
(* that no role carries (readRoleAuthorityBySlug).                         *)
THEOREM RolesSettleAlways ==
  ASSUME Sweeps!RoleAssumption
  PROVE  Sweeps!Spec => []RolesSettle
<1>1. Settling /\ Backed => RolesSettle
  BY SettledStart DEF RolesSettle, Backed
<1> QED
  BY <1>1, BackedHolds, PTL

=============================================================================
