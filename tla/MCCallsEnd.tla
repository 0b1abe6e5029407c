----------------------------- MODULE MCCallsEnd -----------------------------
(***************************************************************************)
(* What was started comes to an end: AuthorityQueue, FamilyStores on       *)
(* PostgreSQL and MobileEngine for TLC, each under its own fairness.  A    *)
(* behaviour is of the case its first state picks, and the other modules   *)
(* stay as they start.                                                     *)
(*                                                                         *)
(* Four calls by two administrators, two per actor and two in all, meet    *)
(* both limits of the queue and wait for each other.                       *)
(***************************************************************************)
EXTENDS AuthorityQueue, TLC

CONSTANTS Cases, a1, a2, o1, o2, o3, o4, w1, w2

VARIABLES
  case,
  clock, code, session, bound, absolute, authority, refresh, access,
  tx, reserved, issuedFor, requests, lost,
  slot, up, eng, held, flight, step, ans, cur, queue, nextDrain, net, replies,
  lates, sends, calls, outcome, gaveUp, open, status, parent, used

svars == <<clock, code, session, bound, absolute, authority, refresh, access,
           tx, reserved, issuedFor, requests, lost>>
evars == <<slot, up, eng, held, flight, step, ans, cur, queue, nextDrain, net, replies,
           lates, sends, calls, outcome, gaveUp, open, status, parent, used>>

Ops == {o1, o2, o3, o4}
Actors == {a1, a2}
Actors4 == (o1 :> a1) @@ (o2 :> a1) @@ (o3 :> a1) @@ (o4 :> a2)

Stores == INSTANCE FamilyStores WITH
  Backend <- "postgres", Worker <- {w1, w2}, MaxRequests <- 2, MaxAttempts <- 2,
  MaxLost <- 0, RetryWindow <- 1, AccessLifetime <- 1, AbsoluteLifetime <- 4,
  MaxClock <- 1, MaxPairs <- 4

Engine == INSTANCE MobileEngine WITH
  pc <- step, Bound <- FALSE, ReadsFail <- FALSE, Disposes <- TRUE,
  MaxSends <- 1, MaxCalls <- 4, MaxAttempts <- 1

ASSUME Stores!StoresAssumption /\ Engine!EngineAssumption

MCInit == case \in Cases /\ Init /\ Stores!SInit /\ Engine!Init

MCNext ==
  /\ UNCHANGED case
  /\ \/ case = "queue" /\ Next /\ UNCHANGED <<svars, evars>>
     \/ case = "stores" /\ Stores!SNext /\ UNCHANGED <<vars, evars>>
     \/ case = "engine" /\ Engine!Next /\ UNCHANGED <<vars, svars>>

(* The fairness of FairSpec, SSpec and MobileEngine's FairSpec. *)
MCFairness ==
  /\ \A o \in Op : WF_vars(case = "queue" /\ (Start(o) \/ Finish(o) \/ Settle(o)))
  /\ \A w \in {w1, w2} : WF_svars(case = "stores" /\ Stores!Statement(w))
  /\ WF_evars(case = "engine" /\ Engine!Continuations)
  /\ WF_evars(case = "engine" /\ Engine!RefreshAnswered)
  /\ \A t \in Engine!Task :
       /\ WF_evars(case = "engine" /\ Engine!PortDeadline(t))
       /\ WF_evars(case = "engine" /\ Engine!RevokeUnanswered(t))

MCSpec == MCInit /\ [][MCNext]_<<case, vars, svars, evars>> /\ MCFairness

(* What a server has started ends: an admitted change of authority runs    *)
(* and ends (runForAuthority), and a request on a family is answered, as   *)
(* units of work that keep refusing each other give up after their runs    *)
(* and none waits for ever (PostgresUnitOfWorkRunner.run).                 *)
RequestsEnd == AdmittedEnds /\ Stores!RequestsEnd

(* refresh() and signOut() return to their callers although storage or     *)
(* server hang, the drain a sign-out joins included (withPortDeadline,     *)
(* withNetworkDeadline).                                                   *)
ClientCallsEnd == Engine!RefreshSettles /\ Engine!SignOutSettles
=============================================================================
