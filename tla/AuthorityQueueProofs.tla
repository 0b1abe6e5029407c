------------------------ MODULE AuthorityQueueProofs ------------------------
(***************************************************************************)
(* For any number of administrators, calls and limits, the changes of      *)
(* authority of one administrator run one at a time, in the order of       *)
(* their admission, and the counters that refuse a call are exact.         *)
(*                                                                         *)
(* Neither is inductive: whether a call may start depends on the promise   *)
(* it waits for, so the invariant says what each promise stands for.  An   *)
(* actor's tail belongs to its latest call, and where there is none every  *)
(* call of the actor is done; a call waits for the latest one before it;   *)
(* a settled tail has every call up to its own done.                       *)
(***************************************************************************)
EXTENDS AuthorityQueue, FiniteSetTheorems, TLAPS

Same(o, p) == ActorOf[o] = ActorOf[p]

Tickets ==
  \A o \in Op :
    /\ ticket[o] <= tickets
    /\ ticket[o] = 0 <=> pc[o] \in {"new", "refused"}

TicketsDiffer ==
  \A o, p \in Op : (0 < ticket[o] /\ ticket[o] = ticket[p]) => o = p

TailIsLast ==
  \A a \in Actor : tails[a] # NoCall =>
    /\ ActorOf[tails[a]] = a /\ 0 < ticket[tails[a]]
    /\ \A o \in Op : ActorOf[o] = a => ticket[o] <= ticket[tails[a]]

NoTailAllDone ==
  \A a \in Actor : tails[a] = NoCall =>
    \A o \in Op : (ActorOf[o] = a /\ 0 < ticket[o]) => pc[o] = "done"

PriorIsLast ==
  \A p \in Op : (0 < ticket[p] /\ prior[p] # NoCall) =>
    /\ Same(prior[p], p) /\ 0 < ticket[prior[p]]
    /\ \A o \in Op : (Same(o, p) /\ ticket[o] < ticket[p])
                        => ticket[o] <= ticket[prior[p]]

NoPriorAllDone ==
  \A p \in Op : (0 < ticket[p] /\ prior[p] = NoCall) =>
    \A o \in Op : (Same(o, p) /\ 0 < ticket[o] /\ ticket[o] < ticket[p])
                     => pc[o] = "done"

SettledAllDone ==
  \A q \in settled : pc[q] = "done" /\ \A o \in Op :
    (Same(o, q) /\ 0 < ticket[o] /\ ticket[o] <= ticket[q]) => pc[o] = "done"

IInv ==
  /\ TypeOK /\ Tickets /\ TicketsDiffer
  /\ TailIsLast /\ NoTailAllDone
  /\ PriorIsLast /\ NoPriorAllDone
  /\ SettledAllDone /\ InOrder

(* The state a server starts in, with no call, satisfies the invariant.    *)
LEMMA InitIInv == Init => IInv
BY QueueAssumption
   DEF Init, IInv, TypeOK, Tickets, TicketsDiffer, TailIsLast, NoTailAllDone,
       PriorIsLast, NoPriorAllDone, SettledAllDone, InOrder

(* A refused call changes nothing but its own place.                       *)
LEMMA RefuseIInv == ASSUME IInv, NEW o \in Op, Refuse(o) PROVE IInv'
<1>1. /\ TypeOK' /\ Tickets' /\ TicketsDiffer'
  BY DEF Refuse, IInv, TypeOK, Tickets, TicketsDiffer
<1>2. TailIsLast' /\ PriorIsLast'
  BY DEF Refuse, IInv, TypeOK, TailIsLast, PriorIsLast, Same
<1>3. NoTailAllDone' /\ NoPriorAllDone' /\ SettledAllDone' /\ InOrder'
  BY DEF Refuse, IInv, TypeOK, Tickets, NoTailAllDone, NoPriorAllDone,
         SettledAllDone, InOrder, Same
<1> QED BY <1>1, <1>2, <1>3 DEF IInv

(* An admitted call gets the largest ticket, waits for the tail it found   *)
(* and becomes the tail.                                                   *)
LEMMA AdmitIInv == ASSUME IInv, NEW o \in Op, Admit(o) PROVE IInv'
<1> DEFINE a == ActorOf[o]
<1>0. a \in Actor /\ o # NoCall
  BY QueueAssumption
<1>1. TypeOK'
  BY <1>0 DEF Admit, IInv, TypeOK
<1>2. /\ ticket[o] = 0 /\ ticket'[o] = tickets + 1 /\ tickets \in Nat
      /\ \A p \in Op : p # o => ticket'[p] = ticket[p] /\ pc'[p] = pc[p]
                                 /\ prior'[p] = prior[p]
      /\ \A p \in Op : ticket[p] <= tickets /\ ticket[p] \in Nat
  BY DEF Admit, IInv, TypeOK, Tickets
<1>3. Tickets' /\ TicketsDiffer'
  BY <1>2 DEF Admit, IInv, TypeOK, Tickets, TicketsDiffer
<1>4. TailIsLast'
  <2> SUFFICES ASSUME NEW b \in Actor, tails'[b] # NoCall
               PROVE  /\ ActorOf[tails'[b]] = b /\ 0 < ticket'[tails'[b]]
                      /\ \A p \in Op : ActorOf[p] = b
                                        => ticket'[p] <= ticket'[tails'[b]]
    BY DEF TailIsLast
  <2>1. CASE b = a
    BY <1>0, <1>2, <2>1 DEF Admit, IInv, TypeOK
  <2>2. CASE b # a
    <3>1. tails'[b] = tails[b] /\ tails[b] \in Op /\ ActorOf[tails[b]] = b
      BY <1>0, <2>2 DEF Admit, IInv, TypeOK, TailIsLast
    <3> QED BY <1>2, <2>2, <3>1 DEF IInv, TailIsLast
  <2> QED BY <2>1, <2>2
<1>5. NoTailAllDone'
  <2> SUFFICES ASSUME NEW b \in Actor, tails'[b] = NoCall,
                      NEW p \in Op, ActorOf[p] = b, 0 < ticket'[p]
               PROVE  pc'[p] = "done"
    BY DEF NoTailAllDone
  <2>1. b # a /\ tails[b] = NoCall
    BY <1>0 DEF Admit, IInv, TypeOK
  <2> QED BY <1>2, <2>1 DEF IInv, NoTailAllDone
<1>6. prior'[o] = tails[a] /\ tails[a] \in Op \cup {NoCall} /\ tails[a] # o
  BY <1>0, <1>2 DEF Admit, IInv, TypeOK, TailIsLast
<1>7. PriorIsLast'
  <2> SUFFICES ASSUME NEW p \in Op, 0 < ticket'[p], prior'[p] # NoCall
               PROVE  /\ Same(prior'[p], p) /\ 0 < ticket'[prior'[p]]
                      /\ \A r \in Op : (Same(r, p) /\ ticket'[r] < ticket'[p])
                                          => ticket'[r] <= ticket'[prior'[p]]
    BY DEF PriorIsLast, Same
  <2>1. CASE p = o
    BY <1>0, <1>2, <1>6, <2>1 DEF IInv, TailIsLast, Same
  <2>2. CASE p # o
    <3>1. /\ prior'[p] = prior[p] /\ prior[p] \in Op /\ Same(prior[p], p)
          /\ 0 < ticket[prior[p]] /\ prior[p] # o
      BY <1>2, <2>2 DEF IInv, TypeOK, PriorIsLast
    <3> QED BY <1>2, <2>2, <3>1 DEF IInv, PriorIsLast
  <2> QED BY <2>1, <2>2
<1>8. NoPriorAllDone'
  <2> SUFFICES ASSUME NEW p \in Op, 0 < ticket'[p], prior'[p] = NoCall,
                      NEW r \in Op, Same(r, p), 0 < ticket'[r],
                      ticket'[r] < ticket'[p]
               PROVE  pc'[r] = "done"
    BY DEF NoPriorAllDone, Same
  <2>1. r # o
    BY <1>2
  <2>2. CASE p = o
    BY <1>0, <1>2, <1>6, <2>1, <2>2 DEF IInv, NoTailAllDone, Same
  <2>3. CASE p # o
    BY <1>2, <2>1, <2>3 DEF IInv, NoPriorAllDone
  <2> QED BY <2>2, <2>3
<1>9a. \A q \in settled : pc'[q] = "done"
  BY DEF Admit, IInv, TypeOK, SettledAllDone
<1>9. SettledAllDone'
  <2> SUFFICES ASSUME NEW q \in settled, NEW r \in Op, Same(r, q),
                      0 < ticket'[r], ticket'[r] <= ticket'[q]
               PROVE  pc'[r] = "done"
    BY <1>9a DEF Admit, SettledAllDone, Same
  <2>1. q \in Op /\ q # o
    BY DEF IInv, TypeOK, Admit, SettledAllDone
  <2> QED BY <1>2, <2>1 DEF IInv, SettledAllDone
<1>10. InOrder'
  <2> SUFFICES ASSUME NEW r \in Op, NEW p \in Op, ActorOf[r] = ActorOf[p],
                      0 < ticket'[r], ticket'[r] < ticket'[p],
                      pc'[p] \in {"running", "done"}
               PROVE  pc'[r] = "done"
    BY DEF InOrder
  <2>1. p # o /\ r # o
    BY <1>2 DEF Admit, IInv, TypeOK
  <2> QED BY <1>2, <2>1 DEF IInv, InOrder
<1> QED BY <1>1, <1>3, <1>4, <1>5, <1>7, <1>8, <1>9, <1>10 DEF IInv

(* A call starts when what it waited for has settled: every earlier call   *)
(* of its actor is done.                                                   *)
LEMMA StartIInv == ASSUME IInv, NEW o \in Op, Start(o) PROVE IInv'
<1>1. /\ TypeOK' /\ Tickets' /\ TicketsDiffer'
  BY DEF Start, IInv, TypeOK, Tickets, TicketsDiffer
<1>2. TailIsLast' /\ PriorIsLast'
  BY DEF Start, IInv, TypeOK, TailIsLast, PriorIsLast, Same
<1>3. NoTailAllDone' /\ NoPriorAllDone' /\ SettledAllDone'
  BY DEF Start, IInv, TypeOK, NoTailAllDone, NoPriorAllDone,
         SettledAllDone, Same
<1>4. 0 < ticket[o] /\ ticket[o] \in Nat
  BY DEF Start, IInv, TypeOK, Tickets
<1>5. \A r \in Op : (Same(r, o) /\ 0 < ticket[r] /\ ticket[r] < ticket[o])
                       => pc[r] = "done"
  <2>1. CASE prior[o] = NoCall
    BY <1>4, <2>1 DEF IInv, NoPriorAllDone
  <2>2. CASE prior[o] # NoCall
    <3>1. prior[o] \in settled /\ Same(prior[o], o)
      BY <1>4, <2>2 DEF Start, IInv, PriorIsLast
    <3>2. \A r \in Op : (Same(r, o) /\ ticket[r] < ticket[o])
                           => ticket[r] <= ticket[prior[o]]
      BY <1>4, <2>2 DEF IInv, PriorIsLast
    <3> QED BY <3>1, <3>2 DEF IInv, SettledAllDone, Same
  <2> QED BY <2>1, <2>2
<1>6. InOrder'
  <2> SUFFICES ASSUME NEW r \in Op, NEW p \in Op, ActorOf[r] = ActorOf[p],
                      0 < ticket[r], ticket[r] < ticket[p],
                      pc'[p] \in {"running", "done"}
               PROVE  pc'[r] = "done"
    BY DEF InOrder, Start
  <2>1. pc[r] = "done"
    <3>1. CASE p = o
      BY <1>5, <3>1 DEF Same
    <3>2. CASE p # o
      BY <3>2 DEF Start, IInv, TypeOK, InOrder
    <3> QED BY <3>1, <3>2
  <2> QED BY <2>1 DEF Start, IInv, TypeOK
<1> QED BY <1>1, <1>2, <1>3, <1>6 DEF IInv

(* A call that ends and is still the tail is the last of its actor, so the *)
(* tail it removes is nobody's to wait for.                                *)
LEMMA FinishIInv == ASSUME IInv, NEW o \in Op, Finish(o) PROVE IInv'
<1>0. ActorOf[o] \in Actor /\ o # NoCall
  BY QueueAssumption
<1>1. /\ TypeOK' /\ Tickets' /\ TicketsDiffer'
  BY <1>0 DEF Finish, IInv, TypeOK, Tickets, TicketsDiffer
<1>2. /\ \A p \in Op : pc[p] = "done" => pc'[p] = "done"
      /\ pc'[o] = "done" /\ \A p \in Op : p # o => pc'[p] = pc[p]
  BY DEF Finish, IInv, TypeOK
<1>3. TailIsLast' /\ PriorIsLast'
  <2>1. \A a \in Actor : tails'[a] # NoCall => tails'[a] = tails[a]
    BY <1>0 DEF Finish, IInv, TypeOK
  <2> QED BY <2>1 DEF Finish, IInv, TailIsLast, PriorIsLast, Same
<1>4. NoTailAllDone'
  <2> SUFFICES ASSUME NEW a \in Actor, tails'[a] = NoCall,
                      NEW r \in Op, ActorOf[r] = a, 0 < ticket[r]
               PROVE  pc'[r] = "done"
    BY DEF Finish, NoTailAllDone
  <2>1. CASE tails[a] = NoCall
    BY <1>2, <2>1 DEF IInv, NoTailAllDone
  <2>2. CASE tails[a] # NoCall
    <3>1. tails[a] = o /\ ActorOf[o] = a
      BY <1>0, <2>2 DEF Finish, IInv, TypeOK, TailIsLast
    <3>2. ticket[r] <= ticket[o] /\ 0 < ticket[o]
      BY <2>2, <3>1 DEF IInv, TailIsLast
    <3>3. ticket[r] = ticket[o] => r = o
      BY DEF IInv, TicketsDiffer
    <3>4. ticket[r] < ticket[o] => pc[r] = "done"
      BY <3>1 DEF Finish, IInv, InOrder
    <3> QED BY <1>2, <3>2, <3>3, <3>4 DEF IInv, TypeOK
  <2> QED BY <2>1, <2>2
<1>5. NoPriorAllDone' /\ SettledAllDone'
  BY <1>2 DEF Finish, IInv, NoPriorAllDone, SettledAllDone, TypeOK, Same
<1>6. InOrder'
  BY <1>2 DEF Finish, IInv, InOrder
<1> QED BY <1>1, <1>3, <1>4, <1>5, <1>6 DEF IInv

(* A tail settles when its call is done and the tail before it settled.    *)
LEMMA SettleIInv == ASSUME IInv, NEW o \in Op, Settle(o) PROVE IInv'
<1>1. /\ TypeOK' /\ Tickets' /\ TicketsDiffer' /\ InOrder'
  BY DEF Settle, IInv, TypeOK, Tickets, TicketsDiffer, InOrder
<1>2. TailIsLast' /\ PriorIsLast' /\ NoTailAllDone' /\ NoPriorAllDone'
  BY DEF Settle, IInv, TailIsLast, PriorIsLast, NoTailAllDone,
         NoPriorAllDone, Same
<1>3. SettledAllDone'
  <2> SUFFICES ASSUME NEW q \in settled', NEW r \in Op, Same(r, q),
                      0 < ticket[r], ticket[r] <= ticket[q]
               PROVE  pc[r] = "done"
    BY DEF Settle, IInv, SettledAllDone, Same
  <2>1. CASE q \in settled
    BY <2>1 DEF IInv, SettledAllDone
  <2>2. CASE q = o
    <3>1. ticket[r] = ticket[o] => r = o
      BY <2>2 DEF IInv, TicketsDiffer
    <3>2. ticket[r] < ticket[o] => pc[r] = "done"
      BY <2>2 DEF Settle, IInv, InOrder, Same
    <3> QED BY <2>2, <3>1, <3>2 DEF Settle, IInv, TypeOK
  <2> QED BY <2>1, <2>2 DEF Settle
<1> QED BY <1>1, <1>2, <1>3 DEF IInv

(* Every step of the queue keeps the invariant.                            *)
LEMMA NextIInv == IInv /\ [Next]_vars => IInv'
<1> SUFFICES ASSUME IInv, [Next]_vars PROVE IInv'
  OBVIOUS
<1>1. CASE UNCHANGED vars
  BY <1>1 DEF vars, IInv, TypeOK, Tickets, TicketsDiffer, TailIsLast,
     NoTailAllDone, PriorIsLast, NoPriorAllDone, SettledAllDone, InOrder, Same
<1>2. CASE Next
  BY <1>2, RefuseIInv, AdmitIInv, StartIInv, FinishIInv, SettleIInv DEF Next
<1> QED BY <1>1, <1>2

(* The calls of one actor are executed in the order in which               *)
(* runForAuthority admitted them.                                          *)
THEOREM RunsInOrder == Spec => []InOrder
<1>1. IInv => InOrder
  BY DEF IInv
<1> QED BY <1>1, InitIInv, NextIInv, PTL DEF Spec

(* Two units of work of one actor never run at the same time.              *)
THEOREM RunsOneAtATime == Spec => []OneAtATime
<1>1. IInv => OneAtATime
  <2> SUFFICES ASSUME IInv, NEW o \in Op, NEW p \in Op,
                      ActorOf[o] = ActorOf[p],
                      pc[o] = "running", pc[p] = "running"
               PROVE  o = p
    BY DEF OneAtATime
  <2>1. /\ ticket[o] \in Nat /\ ticket[p] \in Nat
        /\ 0 < ticket[o] /\ 0 < ticket[p]
    BY DEF IInv, TypeOK, Tickets
  <2>2. ~(ticket[o] < ticket[p]) /\ ~(ticket[p] < ticket[o])
    BY <2>1 DEF IInv, InOrder
  <2> QED BY <2>1, <2>2 DEF IInv, TicketsDiffer
<1> QED BY <1>1, InitIInv, NextIInv, PTL DEF Spec

(* runForAuthority keeps the types of its maps and counters.               *)
THEOREM QueueTyped == Spec => []TypeOK
<1>1. IInv => TypeOK
  BY DEF IInv
<1> QED BY <1>1, InitIInv, NextIInv, PTL DEF Spec
(***************************************************************************)
(* The counters.  The calls under way are a finite set, whatever Op is:    *)
(* there is none at first and a step adds or takes away at most one.       *)
(***************************************************************************)

LiveOf(a) == {o \in Live : ActorOf[o] = a}

Counted ==
  /\ TypeOK /\ IsFiniteSet(Live)
  /\ total = Cardinality(Live) /\ total <= MaxTotal
  /\ \A a \in Actor : depths[a] = Cardinality(LiveOf(a)) /\ depths[a] <= MaxPerActor

(* An admitted call joins the calls under way, its actor's among them.     *)
LEMMA AdmitCounted == ASSUME Counted, NEW o \in Op, Admit(o) PROVE Counted'
<1>0. ActorOf[o] \in Actor
  BY QueueAssumption
<1>1. TypeOK'
  BY <1>0 DEF Admit, Counted, TypeOK
<1>2. Live' = Live \cup {o} /\ o \notin Live
  BY DEF Admit, Counted, TypeOK, Live
<1>3. IsFiniteSet(Live') /\ Cardinality(Live') = Cardinality(Live) + 1
  BY <1>2, FS_AddElement DEF Counted
<1>4. total' = Cardinality(Live') /\ total' <= MaxTotal
  BY <1>3, QueueAssumption DEF Admit, Full, Counted, TypeOK
<1>5. ASSUME NEW a \in Actor
      PROVE  depths'[a] = Cardinality(LiveOf(a)') /\ depths'[a] <= MaxPerActor
  <2>1. IsFiniteSet(LiveOf(a))
    BY FS_Subset DEF Counted, LiveOf
  <2>2. CASE a = ActorOf[o]
    <3>1. LiveOf(a)' = LiveOf(a) \cup {o} /\ o \notin LiveOf(a)
      BY <1>2, <2>2 DEF LiveOf
    <3>2. Cardinality(LiveOf(a)') = Cardinality(LiveOf(a)) + 1
      BY <2>1, <3>1, FS_AddElement
    <3>3. depths'[a] = depths[a] + 1 /\ depths[a] < MaxPerActor
      BY <1>0, <2>2, QueueAssumption DEF Admit, Full, Counted, TypeOK
    <3> QED BY <3>2, <3>3, QueueAssumption DEF Counted, TypeOK
  <2>3. CASE a # ActorOf[o]
    <3>1. LiveOf(a)' = LiveOf(a)
      BY <1>2, <2>3 DEF LiveOf
    <3>2. depths'[a] = depths[a]
      BY <1>0, <2>3 DEF Admit, Counted, TypeOK
    <3> QED BY <3>1, <3>2 DEF Counted
  <2> QED BY <2>2, <2>3
<1> QED BY <1>1, <1>3, <1>4, <1>5 DEF Counted

(* A call that ends gives both places back.                                *)
LEMMA FinishCounted == ASSUME Counted, NEW o \in Op, Finish(o) PROVE Counted'
<1>0. ActorOf[o] \in Actor
  BY QueueAssumption
<1>1. TypeOK'
  BY <1>0 DEF Finish, Counted, TypeOK
<1>2. Live' = Live \ {o} /\ o \in Live
  BY DEF Finish, Counted, TypeOK, Live
<1>3. /\ IsFiniteSet(Live') /\ Cardinality(Live') = Cardinality(Live) - 1
      /\ Cardinality(Live) \in Nat
  BY <1>2, FS_RemoveElement, FS_CardinalityType DEF Counted
<1>4. total' = Cardinality(Live') /\ total' <= MaxTotal
  BY <1>3, QueueAssumption DEF Finish, Counted, TypeOK
<1>5. ASSUME NEW a \in Actor
      PROVE  depths'[a] = Cardinality(LiveOf(a)') /\ depths'[a] <= MaxPerActor
  <2>1. IsFiniteSet(LiveOf(a))
    BY FS_Subset DEF Counted, LiveOf
  <2>2. CASE a = ActorOf[o]
    <3>1. LiveOf(a)' = LiveOf(a) \ {o} /\ o \in LiveOf(a)
      BY <1>2, <2>2 DEF LiveOf
    <3>2. Cardinality(LiveOf(a)') = Cardinality(LiveOf(a)) - 1
      BY <2>1, <3>1, FS_RemoveElement
    <3>3. depths'[a] = depths[a] - 1
      BY <1>0, <2>2 DEF Finish, Counted, TypeOK
    <3> QED BY <3>2, <3>3, QueueAssumption DEF Counted, TypeOK
  <2>3. CASE a # ActorOf[o]
    <3>1. LiveOf(a)' = LiveOf(a)
      BY <1>2, <2>3 DEF LiveOf
    <3>2. depths'[a] = depths[a]
      BY <1>0, <2>3 DEF Finish, Counted, TypeOK
    <3> QED BY <3>1, <3>2 DEF Counted
  <2> QED BY <2>2, <2>3
<1> QED BY <1>1, <1>3, <1>4, <1>5 DEF Counted

(* The other steps leave the calls under way and the counters alone.       *)
LEMMA RestCounted ==
  ASSUME Counted, TypeOK', Live' = Live, UNCHANGED <<depths, total>>
  PROVE  Counted'
<1>1. \A a \in Actor : LiveOf(a)' = LiveOf(a)
  BY DEF LiveOf
<1> QED BY <1>1 DEF Counted

LEMMA NextCounted == Counted /\ [Next]_vars => Counted'
<1> SUFFICES ASSUME Counted, [Next]_vars PROVE Counted'
  OBVIOUS
<1>1. ASSUME NEW o \in Op, Refuse(o) PROVE Counted'
  <2>1. TypeOK' /\ Live' = Live
    BY <1>1 DEF Refuse, Counted, TypeOK, Live
  <2> QED BY <1>1, <2>1, RestCounted DEF Refuse
<1>2. ASSUME NEW o \in Op, Start(o) PROVE Counted'
  <2>1. TypeOK' /\ Live' = Live
    BY <1>2 DEF Start, Counted, TypeOK, Live
  <2> QED BY <1>2, <2>1, RestCounted DEF Start
<1>3. ASSUME NEW o \in Op, Settle(o) PROVE Counted'
  <2>1. TypeOK' /\ Live' = Live
    BY <1>3 DEF Settle, Counted, TypeOK, Live
  <2> QED BY <1>3, <2>1, RestCounted DEF Settle
<1>4. CASE UNCHANGED vars
  <2>1. TypeOK' /\ Live' = Live
    BY <1>4 DEF vars, Counted, TypeOK, Live
  <2> QED BY <1>4, <2>1, RestCounted DEF vars
<1> QED BY <1>1, <1>2, <1>3, <1>4, AdmitCounted, FinishCounted DEF Next

(* authorityOperations and authorityDepths count the calls under way, in   *)
(* all and per actor, and stay within their limits: a place is given back  *)
(* exactly once, whatever way a call ends, and no refusal is for a call    *)
(* that is over.                                                           *)
THEOREM CountersAreExact == Spec => []CountersExact
<1>1. Init => Counted
  <2> SUFFICES ASSUME Init PROVE Counted
    OBVIOUS
  <2>1. TypeOK /\ Live = {} /\ total = 0
    BY DEF Init, TypeOK, Live
  <2>2. \A a \in Actor : LiveOf(a) = {} /\ depths[a] = 0
    BY <2>1 DEF Init, LiveOf
  <2> QED BY <2>1, <2>2, FS_EmptySet, QueueAssumption DEF Counted
<1>2. Counted => CountersExact
  BY DEF Counted, CountersExact, LiveOf
<1> QED BY <1>1, <1>2, NextCounted, PTL DEF Spec
=============================================================================
