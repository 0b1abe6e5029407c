------------------------------ MODULE ProofIds ------------------------------
(***************************************************************************)
(* One proof of possession in time (session/native/proof): the nonce it    *)
(* answers, the two clocks it is judged by, the id that is stored when it  *)
(* is accepted, and the job that removes expired ids.                      *)
(*                                                                         *)
(* Servers share the store and not the clock: a server's clock is the time *)
(* plus its Offset.  Copies of the request that carries the proof reach    *)
(* any server at any time.  Who removes the ids reads its own clock: the   *)
(* retention job of any server, or the database (a TTL index).             *)
(***************************************************************************)
EXTENDS Integers, FiniteSets

CONSTANTS
  Server, Copy,   \* servers; deliveries of the request with the proof
  Offset,         \* each server's clock, ahead of time
  Skew,           \* how far two clocks may be apart
  Tolerance,      \* NATIVE_DPOP_IAT_TOLERANCE_MS
  Ttl,            \* NATIVE_DPOP_PROOF_ID_TTL_MS
  Bucket,         \* NATIVE_DPOP_NONCE_BUCKET_MS
  Delay,          \* from reading the clock to the end of the unit of work
  MaxTime

(* Server ends a unit of work before the margin of the kept id is used up; *)
(* the code's own numbers leave 30 s for the clocks and the delay.         *)
ASSUME ProofAssumption ==
  /\ Offset \in [Server -> Nat]
  /\ \A s, t \in Server : Offset[s] - Offset[t] <= Skew
  /\ Skew \in Nat /\ Tolerance \in Nat /\ Delay \in Nat /\ MaxTime \in Nat
  /\ Bucket \in Nat \ {0}
  /\ Ttl \in Nat /\ Ttl > 2 * Tolerance + Skew + Delay

VARIABLES
  time,
  issuer, issuedAt,  \* the server that sent the nonce and when, by its clock
  iat,               \* when the device says it signed, -1 before
  copy,              \* per copy: its state, the server it is at, when it was
                     \* checked (by time) and the clock it was checked at
  storedId           \* when the stored id expires, -1 if none is stored

pvars == <<time, issuer, issuedAt, iat, copy, storedId>>

(* A copy that nothing has to be known about but its state.                *)
Being(st) == [st |-> st, at |-> 0, now |-> 0, kind |-> "refresh"]
Clock(s) == time + Offset[s]
BucketAt(c) == c \div Bucket

(* The nonce of the challenge: the bucket of the clock that made it.       *)
Nonce == BucketAt(issuedAt)

(* Fault: only the nonce of the bucket that runs now is good. *)
CandidatesNow(c) == {BucketAt(c)}

(* nativeDpopNonceCandidates *)
Candidates(c) == {BucketAt(c), BucketAt(c) - 1}

(* Fault: a proof may be as old as its stored id. *)
InTimeAsStored(c) == c - iat <= Ttl /\ iat - c <= Tolerance

(* verifyNativeDpopProof: iat is near the server's clock, on either side.  *)
InTime(c) == c - iat <= Tolerance /\ iat - c <= Tolerance

(* A request without a usable nonce is answered with one.                  *)
Challenge(s) ==
  /\ iat = -1
  /\ issuer' = s /\ issuedAt' = Clock(s)
  /\ UNCHANGED <<time, iat, copy, storedId>>

(* The device signs a proof with the nonce it has, by a clock of its own.  *)
SignProof ==
  /\ iat = -1 /\ issuedAt # -1
  /\ \E c \in 0 .. MaxTime : iat' = c
  /\ UNCHANGED <<time, issuer, issuedAt, copy, storedId>>

(* A copy arrives at server s, which reads its clock once for the check;   *)
(* refresh and revoke keep that reading for the id, a code exchange reads  *)
(* the clock again.                                                        *)
Check(r, s) ==
  /\ iat # -1 /\ copy[r].st = "waiting"
  /\ IF InTime(Clock(s)) /\ Nonce \in Candidates(Clock(s))
     THEN \E kind \in {"refresh", "exchange"} :
            copy' = [copy EXCEPT ![r] = [st |-> "checked", at |-> time,
                                         now |-> Clock(s), kind |-> kind]]
     ELSE copy' = [copy EXCEPT ![r] = Being("refused")]
  /\ UNCHANGED <<time, issuer, issuedAt, iat, storedId>>

(* Fault: the kept id expires with the proof's own tolerance. *)
ExpiresWithProof(c) == c + Tolerance

(* reserveProofId *)
ExpiresAt(c) == c + Ttl

(* The unit of work ends: the id is stored with it, or its unique index    *)
(* refuses the proof as replayed.                                          *)
ReserveProofId(r) ==
  /\ copy[r].st = "checked" /\ time <= copy[r].at + Delay
  /\ IF storedId = -1
     THEN /\ copy' = [copy EXCEPT ![r] = Being("accepted")]
          /\ storedId' = ExpiresAt(IF copy[r].kind = "refresh" THEN copy[r].now
                                   ELSE copy[r].now + (time - copy[r].at))
     ELSE copy' = [copy EXCEPT ![r] = Being("refused")] /\ UNCHANGED storedId
  /\ UNCHANGED <<time, issuer, issuedAt, iat>>

(* The unit of work fails; nothing is stored.                              *)
GiveUp(r) ==
  /\ copy[r].st = "checked"
  /\ copy' = [copy EXCEPT ![r] = Being("refused")]
  /\ UNCHANGED <<time, issuer, issuedAt, iat, storedId>>

(* removeExpiredRows by the clock of server s.                             *)
Purge(s) ==
  /\ storedId # -1 /\ storedId <= Clock(s)
  /\ storedId' = -1
  /\ UNCHANGED <<time, issuer, issuedAt, iat, copy>>

(* A unit of work that has not ended in its time is over.                  *)
PTick ==
  /\ time < MaxTime
  /\ \A r \in Copy : copy[r].st = "checked" => time < copy[r].at + Delay
  /\ time' = time + 1
  /\ UNCHANGED <<issuer, issuedAt, iat, copy, storedId>>

PInit ==
  /\ time = 0 /\ issuer \in Server /\ issuedAt = -1 /\ iat = -1
  /\ copy = [r \in Copy |-> Being("waiting")] /\ storedId = -1

PNext ==
  \/ PTick \/ SignProof
  \/ \E s \in Server : Challenge(s) \/ Purge(s)
  \/ \E r \in Copy : ReserveProofId(r) \/ GiveUp(r) \/ \E s \in Server : Check(r, s)

PSpec == PInit /\ [][PNext]_pvars

(***************************************************************************)
(* Properties.                                                             *)
(***************************************************************************)

(* Types; a stored id expires no earlier than the kept time after the      *)
(* first moment its proof could be accepted.                               *)
PTypeOK ==
  /\ time \in Nat /\ issuer \in Server
  /\ issuedAt \in Nat \cup {-1} /\ iat \in Nat \cup {-1}
  /\ copy \in [Copy -> [st : {"waiting", "checked", "accepted", "refused"},
                        at : Nat, now : Nat, kind : {"refresh", "exchange"}]]
  /\ storedId \in Nat \cup {-1}
  /\ storedId # -1 => storedId >= iat - Tolerance + Ttl

(* A proof is accepted at most once, whatever servers its copies reach,    *)
(* however long their units of work take and whenever its id is removed:   *)
(* the id outlives the proof (NATIVE_DPOP_PROOF_ID_TTL_MS against twice    *)
(* NATIVE_DPOP_IAT_TOLERANCE_MS).                                          *)
AcceptedOnce ==
  \A r, q \in Copy :
    copy[r].st = "accepted" /\ copy[q].st = "accepted" => r = q

(* "a row this job has not reached yet is refused exactly as one it has    *)
(* removed" (postgres-retention.ts): once an id may be removed, no server  *)
(* accepts its proof any more, removed or not.                             *)
RemovalDecidesNothing ==
  storedId # -1 /\ (\E p \in Server : storedId <= Clock(p)) =>
    \A s \in Server : ~InTime(Clock(s))

(* A nonce is good for a whole bucket, also when it was sent at the last   *)
(* moment of one (bucketAt): at the server that sent it, and but for what  *)
(* their clocks may be apart, at both ends, at every other.  To a server   *)
(* whose clock is behind it may be of a bucket that has not begun.         *)
NonceLasts ==
  issuedAt # -1 => \A s \in Server :
    LET apart == IF s = issuer THEN 0 ELSE Skew IN
    issuedAt + apart <= Clock(issuer) /\ Clock(issuer) + apart <= issuedAt + Bucket =>
      Nonce \in Candidates(Clock(s))
=============================================================================
