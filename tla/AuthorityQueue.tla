--------------------------- MODULE AuthorityQueue ---------------------------
(***************************************************************************)
(* MongoUnitOfWorkRunner.runForAuthority: changes of authority by one      *)
(* administrator run one after the other inside a server, each waiting for *)
(* the promise the one before leaves as the actor's tail; more than a      *)
(* depth per actor, or a total, are refused at once.                       *)
(*                                                                         *)
(* A tail is named by its operation.  It settles in a promise job of its   *)
(* own, after its operation released it and the tail before it settled.    *)
(***************************************************************************)
EXTENDS Integers, FiniteSets

CONSTANTS
  Op, Actor,    \* calls of runForAuthority; administrators
  ActorOf,      \* who makes a call
  MaxPerActor,  \* MAX_AUTHORITY_OPERATIONS_PER_ACTOR
  MaxTotal,     \* MAX_AUTHORITY_OPERATIONS_TOTAL
  NoCall

ASSUME QueueAssumption ==
  /\ ActorOf \in [Op -> Actor] /\ NoCall \notin Op
  /\ MaxPerActor \in Nat /\ MaxTotal \in Nat

VARIABLES
  pc,        \* per call: "new", "waiting", "running", "done", "refused"
  depths,    \* authorityDepths, 0 where the map has no entry
  total,     \* authorityOperations
  tails,     \* authorityTails: the operation whose tail it is, or NoCall
  prior,     \* per call: the tail it waits for, or NoCall
  settled,   \* tails that are settled
  ticket,    \* history: the order of admission, 0 before
  tickets    \* history: admissions so far

vars == <<pc, depths, total, tails, prior, settled, ticket, tickets>>

Live == {o \in Op : pc[o] \in {"waiting", "running"}}

(* Fault: one more than the limit is let in. *)
FullLate(a) == depths[a] >= MaxPerActor \/ total > MaxTotal

(* Is there no room for another operation of this actor.                   *)
Full(a) == depths[a] >= MaxPerActor \/ total >= MaxTotal

Refuse(o) ==
  /\ pc[o] = "new" /\ Full(ActorOf[o])
  /\ pc' = [pc EXCEPT ![o] = "refused"]
  /\ UNCHANGED <<depths, total, tails, prior, settled, ticket, tickets>>

(* Up to `await prior`. *)
Admit(o) ==
  /\ pc[o] = "new" /\ ~Full(ActorOf[o])
  /\ pc' = [pc EXCEPT ![o] = "waiting"]
  /\ depths' = [depths EXCEPT ![ActorOf[o]] = @ + 1]
  /\ total' = total + 1
  /\ prior' = [prior EXCEPT ![o] = tails[ActorOf[o]]]
  /\ tails' = [tails EXCEPT ![ActorOf[o]] = o]
  /\ ticket' = [ticket EXCEPT ![o] = tickets + 1]
  /\ tickets' = tickets + 1
  /\ UNCHANGED settled

(* The awaited promise has settled, or there was none.                     *)
Start(o) ==
  /\ pc[o] = "waiting"
  /\ prior[o] = NoCall \/ prior[o] \in settled
  /\ pc' = [pc EXCEPT ![o] = "running"]
  /\ UNCHANGED <<depths, total, tails, prior, settled, ticket, tickets>>

(* Fault: an operation that failed gives its place back and wakes nobody. *)
FinishUnreleased(o) ==
  /\ pc[o] = "running"
  /\ pc' = [pc EXCEPT ![o] = "failed"]
  /\ total' = total - 1
  /\ depths' = [depths EXCEPT ![ActorOf[o]] = @ - 1]
  /\ UNCHANGED <<tails, prior, settled, ticket, tickets>>

(* Fault: the tail is removed although a later call waits behind it. *)
FinishForgettingTail(o) ==
  /\ pc[o] = "running"
  /\ pc' = [pc EXCEPT ![o] = "done"]
  /\ total' = total - 1
  /\ depths' = [depths EXCEPT ![ActorOf[o]] = @ - 1]
  /\ tails' = [tails EXCEPT ![ActorOf[o]] = NoCall]
  /\ UNCHANGED <<prior, settled, ticket, tickets>>

(* The unit of work ended, well or not: `finally`.  The last tail of an    *)
(* actor is removed.                                                       *)
Finish(o) ==
  /\ pc[o] = "running"
  /\ pc' = [pc EXCEPT ![o] = "done"]
  /\ total' = total - 1
  /\ depths' = [depths EXCEPT ![ActorOf[o]] = @ - 1]
  /\ tails' = IF tails[ActorOf[o]] = o THEN [tails EXCEPT ![ActorOf[o]] = NoCall]
              ELSE tails
  /\ UNCHANGED <<prior, settled, ticket, tickets>>

(* prior.then(() => current): a tail settles after its operation.          *)
Settle(o) ==
  /\ pc[o] = "done" /\ o \notin settled
  /\ prior[o] = NoCall \/ prior[o] \in settled
  /\ settled' = settled \cup {o}
  /\ UNCHANGED <<pc, depths, total, tails, prior, ticket, tickets>>

Init ==
  /\ pc = [o \in Op |-> "new"]
  /\ depths = [a \in Actor |-> 0] /\ total = 0
  /\ tails = [a \in Actor |-> NoCall]
  /\ prior = [o \in Op |-> NoCall] /\ settled = {}
  /\ ticket = [o \in Op |-> 0] /\ tickets = 0

Next == \E o \in Op : \/ Refuse(o) \/ Admit(o) \/ Start(o)
                      \/ Finish(o) \/ Settle(o)

Spec == Init /\ [][Next]_vars

(* Promise jobs run, and a unit of work ends: its reruns are counted and   *)
(* the driver's calls have time limits.                                    *)
FairSpec == Spec /\ \A o \in Op : WF_vars(Start(o) \/ Finish(o) \/ Settle(o))

(***************************************************************************)
(* Properties.                                                             *)
(***************************************************************************)

(* Types: every call is at one of the five places of runForAuthority.      *)
TypeOK ==
  /\ pc \in [Op -> {"new", "waiting", "running", "done", "refused"}]
  /\ depths \in [Actor -> Int] /\ total \in Int
  /\ tails \in [Actor -> Op \cup {NoCall}]
  /\ prior \in [Op -> Op \cup {NoCall}] /\ settled \subseteq Op
  /\ ticket \in [Op -> Nat] /\ tickets \in Nat

(* Two operations of one actor never run at the same time, whatever the    *)
(* order of promise jobs, removals of the tail and new arrivals.           *)
OneAtATime ==
  \A o, p \in Op :
    (ActorOf[o] = ActorOf[p] /\ pc[o] = "running" /\ pc[p] = "running")
      => o = p

(* They run in the order in which they were admitted.                      *)
InOrder ==
  \A o, p \in Op :
    (/\ ActorOf[o] = ActorOf[p] /\ 0 < ticket[o] /\ ticket[o] < ticket[p]
     /\ pc[p] \in {"running", "done"})
      => pc[o] = "done"

(* The counters are the operations under way, so a place is never lost and *)
(* a refusal means that there are that many, not that there were.          *)
CountersExact ==
  /\ total = Cardinality(Live) /\ total <= MaxTotal
  /\ \A a \in Actor :
       /\ depths[a] = Cardinality({o \in Live : ActorOf[o] = a})
       /\ depths[a] <= MaxPerActor

(* Whatever was admitted comes to an end: no tail is left unreleased.      *)
AdmittedEnds == \A o \in Op : (pc[o] = "waiting") ~> (pc[o] = "done")
=============================================================================
