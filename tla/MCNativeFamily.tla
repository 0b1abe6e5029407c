--------------------------- MODULE MCNativeFamily ---------------------------
(***************************************************************************)
(* NativeFamily and ProofIds for TLC: every interleaving of whole units of *)
(* work on a family, or copies of one proof in time, in units of 10 s, at  *)
(* two servers whose clocks are one unit apart.  A behaviour is of the     *)
(* case its first state picks, and the other module stays as it starts.    *)
(***************************************************************************)
EXTENDS NativeFamily, ProofIds, TLC

CONSTANTS Cases, s1, s2, c1, c2

VARIABLE case

Servers == {s1, s2}
Copies == {c1, c2}
Offsets == (s1 :> 0) @@ (s2 :> 1)
Sym == Permutations(Copies)

MCInit == /\ case \in Cases /\ Init /\ PInit
          /\ case = "family" => issuer = s1
          /\ case = "proof" => authority
MCNext ==
  /\ UNCHANGED case
  /\ \/ case = "family" /\ Next /\ UNCHANGED pvars
     \/ case = "proof" /\ PNext /\ UNCHANGED vars

MCSpec == MCInit /\ [][MCNext]_<<case, vars, pvars>>
=============================================================================
