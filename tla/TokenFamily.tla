---------------------------- MODULE TokenFamily -----------------------------
(***************************************************************************)
(* What a token family promises, without rows, dates or proofs.            *)
(*                                                                         *)
(* A pair is held by one client.  It can be exchanged once for a new pair. *)
(* If that answer is lost, and the new pair was never used, the old one    *)
(* can be exchanged once more; the unused pair is withdrawn.  When the     *)
(* family ends, nothing is ever exchanged again.                           *)
(***************************************************************************)
EXTENDS Naturals, Sequences

VARIABLES
  open,      \* may pairs be exchanged: "no" before issue, "yes", "ended"
  status,    \* per pair: "held", "exchanged" or "withdrawn"
  parent,    \* per pair: the pair it was exchanged for, 0 for the first
  used       \* the pairs whose access token was used

afVars == <<open, status, parent, used>>

Pairs == DOMAIN status
Children(p) == {c \in Pairs : parent[c] = p}

AInit == open = "no" /\ status = <<>> /\ parent = <<>> /\ used = {}

(* The first pair. *)
AIssue ==
  /\ open = "no"
  /\ open' = "yes"
  /\ status' = <<"held">> /\ parent' = <<0>>
  /\ UNCHANGED used

(* The held pair is exchanged for a new one. *)
AExchange(p) ==
  /\ open = "yes"
  /\ p \in Pairs /\ status[p] = "held"
  /\ status' = Append([status EXCEPT ![p] = "exchanged"], "held")
  /\ parent' = Append(parent, p)
  /\ UNCHANGED <<open, used>>

(* The answer to p's exchange is given once more, by a new pair in place   *)
(* of the one nobody used.                                                 *)
AReissue(p) ==
  /\ open = "yes"
  /\ p \in Pairs /\ status[p] = "exchanged"
  /\ \E c \in Pairs :
       /\ Children(p) = {c}
       /\ status[c] = "held" /\ c \notin used
       /\ status' = Append([status EXCEPT ![c] = "withdrawn"], "held")
  /\ parent' = Append(parent, p)
  /\ UNCHANGED <<open, used>>

AUse(p) ==
  /\ p \in Pairs /\ status[p] = "held"
  /\ used' = used \cup {p}
  /\ UNCHANGED <<open, status, parent>>

(* The session is over; its pairs are withdrawn now or never exchanged.    *)
AEnd ==
  /\ open' = IF open = "no" THEN "no" ELSE "ended"
  /\ \/ UNCHANGED status
     \/ status' = [p \in Pairs |-> "withdrawn"]
  /\ open = "no" => UNCHANGED status
  /\ UNCHANGED <<parent, used>>

ANext ==
  \/ AIssue
  \/ AEnd
  \/ \E p \in Pairs : AExchange(p) \/ AReissue(p) \/ AUse(p)

ASpec == AInit /\ [][ANext]_afVars
=============================================================================
