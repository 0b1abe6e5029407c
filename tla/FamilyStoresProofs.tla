------------------------- MODULE FamilyStoresProofs -------------------------
(***************************************************************************)
(* For any number of units of work at once, any limits and lifetimes:      *)
(*                                                                         *)
(*   - on both databases nothing that was stored runs again, and one proof *)
(*     is answered with one pair;                                          *)
(*   - on PostgreSQL the statements of units of work that run at once      *)
(*     amount to the atomic units of work of NativeFamily, so everything   *)
(*     proved of NativeFamily holds of them;                               *)
(*   - on MongoDB units of work do not take the family, and what they      *)
(*     commit is not what NativeFamily's would: a rotation may be stored   *)
(*     after the session was ended from the device list.  They write       *)
(*     documents, though, that keep two of them apart where it matters, so *)
(*     the family's promises about its tokens hold there too.              *)
(***************************************************************************)
EXTENDS FamilyStores, NativeFamilyProofs, FiniteSetTheorems

-----------------------------------------------------------------------------
(* What holds on both databases. *)

Docs == {"session", "refresh", "access"} \X Nat
ProofIdSet == Kind \X Nat \X Nat
Tables == [session : {"none", "live", "ended"},
           refresh : Seq(RefreshRow), access : Seq(AccessRow)]

(* Tokens come in pairs, and successor links stay inside the family.       *)
Family ==
  {db \in Tables :
     /\ Len(db.refresh) = Len(db.access)
     /\ \A k \in DOMAIN db.refresh : db.refresh[k].next \in 0..Len(db.refresh)}

RotationStep == {"claimRefresh", "retire", "successor", "claimRetry",
                 "revokeSuccessor", "issue"}
Step == {"idle", "find", "reserve", "endSession", "endTokens", "commit"}
          \cup RotationStep

UnitOfWork ==
  [step : Step, kind : Kind, token : Nat, proof : Nat, at : Nat,
   run : 0..MaxAttempts, row : RefreshRow \cup {<<>>}, view : Family,
   wrote : SUBSET Docs, stale : SUBSET Docs, locks : BOOLEAN,
   proofs : SUBSET ProofIdSet, made : Nat, stored : {FALSE}]

OfToken(t) == t.kind \in {"refresh", "revoke"}
Unlocked(t) == t.step \in {"idle", "find"}

(* A unit of work has written nothing before it found the family, and then *)
(* only rows it found; it ends the session or leaves it.                   *)
WritesItsFamily(t) ==
  /\ Unlocked(t) => t.wrote = {} /\ t.proofs = {} /\ ~t.locks
  /\ t.wrote \subseteq {SessionDoc} \cup TokenDocs(t.view)
  /\ SessionDoc \in t.wrote => t.view.session = "ended"
  /\ Len(t.view.refresh) <= Len(refresh)

(* The row it found, and its successor, are rows of what it sees.          *)
FoundItsRow(t) ==
  /\ t.step # "idle" => session # "none" /\ t.at \in 1..clock
  /\ t.step # "idle" => IF OfToken(t) THEN t.token \in Pair ELSE t.token = None
  /\ ~Unlocked(t) /\ OfToken(t) => /\ t.token \in DOMAIN t.view.refresh
                                   /\ t.row \in RefreshRow
                                   /\ t.row.next \in 0..Len(t.view.refresh)
  /\ t.step = "reserve" => OfToken(t)
  /\ t.step \in RotationStep \/ t.made # None => t.kind = "refresh"
  /\ t.step \in {"claimRetry", "revokeSuccessor"} => t.row.next # None
  /\ t.made # None => t.step = "commit"

(* Whoever rotates a bound family has reserved the proof of its request.   *)
ReservedItsProof(t) ==
  /\ t.proofs \subseteq {ProofId(t)}
  /\ bound /\ (t.step \in RotationStep \/ t.made # None)
       => ProofId(t) \in t.proofs

Sound(t) == WritesItsFamily(t) /\ FoundItsRow(t) /\ ReservedItsProof(t)

ProofsApart ==
  \A w \in Worker :
    /\ tx[w].proofs \cap reserved = {}
    /\ \A v \in Worker \ {w} : tx[v].proofs \cap tx[w].proofs = {}

FirstAnswer == <<"exchange", None, None>>

AnswersReserved ==
  bound => \A k \in DOMAIN issuedFor :
             issuedFor[k] \in reserved \cup {FirstAnswer}

StoreInv ==
  /\ TypeOK
  /\ 1 <= clock
  /\ SessionOwnsPairs
  /\ Committed \in Family
  /\ tx \in [Worker -> UnitOfWork]
  /\ \A w \in Worker : Sound(tx[w])
  /\ reserved \subseteq ProofIdSet
  /\ ProofsApart
  /\ AnswersReserved
  /\ OnePairPerProof
  /\ issuedFor \in Seq(ProofIdSet \cup {FirstAnswer})
  /\ Len(issuedFor) = Len(refresh)
  /\ requests \in Nat

-----------------------------------------------------------------------------
(* What holds on PostgreSQL besides, while a unit of work has the family.  *)

RefreshAgrees(t) ==
  /\ Len(t.view.refresh) = Len(refresh)
  /\ SessionDoc \notin t.wrote => t.view.session = session
  /\ \A k \in Pair : RefreshDoc(k) \notin t.wrote
                        => t.view.refresh[k] = refresh[k]

NoAccessWritten(t) == \A k \in Pair : AccessDoc(k) \notin t.wrote

(* It has written every access token that could be used.                   *)
AccessAgrees(t) ==
  \A k \in Pair :
    /\ CanMarkFirstUse(access, k) => AccessDoc(k) \in t.wrote
    /\ AccessDoc(k) \notin t.wrote => t.view.access[k] = access[k]

NothingWritten(t) == t.wrote = {} /\ t.view.refresh = refresh

Rotates(t) ==
  /\ t.kind = "refresh"
  /\ ~refresh[t.token].revoked /\ ~refresh[t.token].spent
  /\ refresh[t.token].expiresAt > t.at
  /\ HasAuthority(t.at)

Retries(t) ==
  /\ t.kind = "refresh" /\ bound
  /\ ~refresh[t.token].revoked /\ refresh[t.token].spent
  /\ HasAuthority(t.at)

(* The successor was unused when it was looked up.                         *)
SuccessorFound(t) ==
  /\ Retries(t) /\ refresh[t.token].next # None
  /\ InsideRetryWindow(refresh[t.token], t.at)
  /\ \/ HasUnusedSuccessor(refresh, access, t.token)
     \/ access[refresh[t.token].next].firstUsed

ClaimWritten(t) ==
  /\ Rotates(t)
  /\ t.view.refresh = ClaimRefresh(refresh, t.token, t.at)

RetryWritten(t) ==
  /\ SuccessorFound(t)
  /\ CanClaimRetry(refresh, t.token, t.at)
  /\ t.view.refresh = ClaimRetry(refresh, t.token, t.at)

(* The old pair is withdrawn, and a new one may be issued.                 *)
RotationReady(t) ==
  /\ ClaimWritten(t)
  /\ t.view.access = RetireAccessTokens(access)

RetryReady(t) ==
  LET old == refresh[t.token].next
  IN  /\ Retries(t) /\ Retryable(t.token, t.at)
      /\ CanClaimRetry(refresh, t.token, t.at)
      /\ t.view.refresh
           = RevokePair(ClaimRetry(refresh, t.token, t.at), old)
      /\ t.view.access = RevokePair(access, old)

(* The family may be ended as the table says.                              *)
Replays(t) ==
  /\ t.kind = "refresh"
  /\ ~refresh[t.token].revoked /\ refresh[t.token].spent
  /\ \/ ~bound
     \/ ~HasAuthority(t.at)
     \/ ProofId(t) \in t.proofs /\ ~Retryable(t.token, t.at)

ReplaysUsed(t) ==
  /\ Retries(t)
  /\ InsideRetryWindow(refresh[t.token], t.at)
  /\ ~HasUnusedSuccessor(refresh, access, t.token)
  /\ CanClaimRetry(refresh, t.token, t.at)

MayEnd(t, table) ==
  \/ t.kind \in {"signOut", "select"} /\ session = "live" /\ table = refresh
  \/ t.kind = "revoke" /\ (bound => ProofId(t) \in t.proofs) /\ table = refresh
  \/ Replays(t) /\ table = refresh
  \/ ReplaysUsed(t) /\ table = ClaimRetry(refresh, t.token, t.at)

EndReady(t) ==
  \/ t.view.refresh = refresh /\ MayEnd(t, refresh)
  \/ /\ ReplaysUsed(t)
     /\ RevokeAll(t.view.refresh)
          = RevokeAll(ClaimRetry(refresh, t.token, t.at))

FamilyEnded(t) ==
  /\ SessionDoc \in t.wrote /\ t.view.session = "ended"
  /\ AccessAgrees(t)
  /\ t.view.access = RevokeAll(access)
  /\ \E table \in {refresh, ClaimRetry(refresh, t.token, t.at)} :
       MayEnd(t, table) /\ t.view.refresh = RevokeAll(table)

SelectedEnded(t) ==
  /\ t.kind = "select" /\ session = "live"
  /\ SessionDoc \in t.wrote /\ t.view.session = "ended"
  /\ NoAccessWritten(t)
  /\ t.view.refresh = refresh

(* Where a unit of work stands that has the family.                        *)
Standing(t) ==
  \/ /\ t.step \in {"reserve", "claimRefresh", "successor", "claimRetry"}
     /\ NothingWritten(t)
     /\ t.step = "reserve" =>
          bound /\ t.proofs = {} /\ (t.kind = "revoke" \/ Rotates(t) \/ Retries(t))
     /\ t.step = "claimRefresh" => Rotates(t)
     /\ t.step = "successor" =>
          Retries(t) /\ InsideRetryWindow(refresh[t.token], t.at)
     /\ t.step = "claimRetry" => SuccessorFound(t)
  \/ /\ t.step \in {"retire", "revokeSuccessor"}
     /\ NoAccessWritten(t) /\ SessionDoc \notin t.wrote
     /\ t.step = "retire" => ClaimWritten(t)
     /\ t.step = "revokeSuccessor" => RetryWritten(t)
  \/ /\ t.step = "issue" \/ (t.step = "commit" /\ t.made # None)
     /\ SessionDoc \notin t.wrote /\ AccessAgrees(t)
     /\ RotationReady(t) \/ RetryReady(t)
     /\ t.step = "commit" => t.made = refresh[t.token].generation + 1
  \/ /\ t.step \in {"endSession", "endTokens"}
     /\ NoAccessWritten(t) /\ EndReady(t)
     /\ t.step = "endSession" => SessionDoc \notin t.wrote
     /\ t.step = "endTokens" => t.kind # "select" /\ SessionDoc \in t.wrote
  \/ /\ t.step = "commit" /\ t.made = None
     /\ NothingWritten(t) \/ SelectedEnded(t) \/ FamilyEnded(t)

HasFamily(t) ==
  ~Unlocked(t) => /\ t.locks /\ t.row = (IF OfToken(t) THEN refresh[t.token] ELSE <<>>)
                  /\ RefreshAgrees(t)
                  /\ Standing(t)

LockOnce == \A v, w \in Worker : tx[v].locks /\ tx[w].locks => v = w

(* Every pair but the first, and every unit of work that may still issue   *)
(* one, is a request that was started.                                     *)
PairsRequested ==
  /\ IsFiniteSet(Open)
  /\ Len(refresh) + Cardinality(Open) <= requests + 1
  /\ requests <= MaxRequests

UnitsOfWork == {tx[w] : w \in Worker}

PostgresInv ==
  /\ StoreInv
  /\ IndInv
  /\ authority
  /\ LockOnce
  /\ \A t \in UnitsOfWork : HasFamily(t)
  /\ PairsRequested

-----------------------------------------------------------------------------
(* Tables. *)

(* A table of refresh tokens whose links stay inside it.                   *)
Linked(table) == /\ table \in Seq(RefreshRow)
                 /\ \A k \in DOMAIN table : table[k].next \in 0..Len(table)

LEMMA FamilyTable ==
  ASSUME NEW db \in Family
  PROVE  /\ db = [session |-> db.session, refresh |-> db.refresh,
                  access |-> db.access]
         /\ db.session \in {"none", "live", "ended"}
         /\ Linked(db.refresh) /\ db.access \in Seq(AccessRow)
         /\ Len(db.refresh) \in Nat /\ Len(db.refresh) = Len(db.access)
         /\ DOMAIN db.refresh = 1..Len(db.refresh)
         /\ DOMAIN db.access = DOMAIN db.refresh
BY DEF Family, Tables, Linked

LEMMA TableFamily ==
  ASSUME NEW s \in {"none", "live", "ended"}, NEW r, NEW a,
         Linked(r), a \in Seq(AccessRow), Len(r) = Len(a)
  PROVE  [session |-> s, refresh |-> r, access |-> a] \in Family
BY DEF Family, Tables, Linked

(* One row is written.                                                     *)
LEMMA LinkedSet ==
  ASSUME NEW table, NEW k \in DOMAIN table, NEW row \in RefreshRow, NEW new,
         Linked(table), row.next \in 0..Len(table),
         new = [table EXCEPT ![k] = row]
  PROVE  Linked(new) /\ Len(new) = Len(table)
<1>1. table \in Seq(RefreshRow) /\ k \in 1..Len(table) /\ Len(table) \in Nat
      /\ DOMAIN table = 1..Len(table)
  BY DEF Linked
<1>2. new \in Seq(RefreshRow) /\ Len(new) = Len(table)
  BY <1>1
<1>3. DOMAIN new = DOMAIN table /\ new[k] = row
      /\ \A j \in DOMAIN table \ {k} : new[j] = table[j]
  BY <1>1
<1>4. \A j \in DOMAIN new : new[j].next \in 0..Len(new)
  <2> SUFFICES ASSUME NEW j \in DOMAIN new PROVE new[j].next \in 0..Len(table)
    BY <1>2
  <2>1. CASE j = k
    BY <1>3, <2>1
  <2>2. CASE j # k
    BY <1>3, <2>2 DEF Linked
  <2> QED BY <2>1, <2>2
<1> QED BY <1>2, <1>3, <1>4 DEF Linked

LEMMA AccessSet ==
  ASSUME NEW table \in Seq(AccessRow), NEW k \in DOMAIN table,
         NEW row \in AccessRow, NEW new, new = [table EXCEPT ![k] = row]
  PROVE  new \in Seq(AccessRow) /\ Len(new) = Len(table)
  OBVIOUS

(* What the statements write stays in the family.                          *)
LEMMA Claims ==
  ASSUME NEW table, NEW k \in DOMAIN table, NEW at \in Nat, Linked(table)
  PROVE  /\ Linked(ClaimRefresh(table, k, at))
         /\ Len(ClaimRefresh(table, k, at)) = Len(table)
         /\ Linked(ClaimRetry(table, k, at))
         /\ Len(ClaimRetry(table, k, at)) = Len(table)
<1> DEFINE claimed == [table[k] EXCEPT !.spent = TRUE, !.consumedAt = at]
           retried == [table[k] EXCEPT !.retryClaimUntil = at + RetryWindow]
<1>1. table[k] \in RefreshRow /\ table[k].next \in 0..Len(table)
  BY DEF Linked
<1>2. at + RetryWindow \in Nat
  BY LifetimeAssumption
<1>3. claimed \in RefreshRow /\ claimed.next \in 0..Len(table)
  BY <1>1, ClaimedRow
<1>4. retried \in RefreshRow /\ retried.next \in 0..Len(table)
  BY <1>1, <1>2, RetryClaimedRow
<1>5. ClaimRefresh(table, k, at) = [table EXCEPT ![k] = claimed]
  BY DEF ClaimRefresh
<1>6. ClaimRetry(table, k, at) = [table EXCEPT ![k] = retried]
  BY DEF ClaimRetry
<1> HIDE DEF claimed, retried
<1>7. /\ Linked(ClaimRefresh(table, k, at))
      /\ Len(ClaimRefresh(table, k, at)) = Len(table)
  BY <1>3, <1>5, LinkedSet
<1>8. /\ Linked(ClaimRetry(table, k, at))
      /\ Len(ClaimRetry(table, k, at)) = Len(table)
  BY <1>4, <1>6, LinkedSet
<1> QED BY <1>7, <1>8

LEMMA Withdraws ==
  ASSUME NEW table, NEW k \in DOMAIN table, Linked(table)
  PROVE  /\ Linked(RevokePair(table, k)) /\ Len(RevokePair(table, k)) = Len(table)
         /\ RevokePair(table, k)[k] = Retired(table[k])
         /\ \A j \in DOMAIN table \ {k} : RevokePair(table, k)[j] = table[j]
<1>1. table[k] \in RefreshRow /\ table[k].next \in 0..Len(table)
  BY DEF Linked
<1>2. Retired(table[k]) \in RefreshRow /\ Retired(table[k]).next \in 0..Len(table)
  BY <1>1, RetiredRefresh
<1>3. RevokePair(table, k) = [table EXCEPT ![k] = Retired(table[k])]
  BY DEF RevokePair
<1>4. Linked(RevokePair(table, k)) /\ Len(RevokePair(table, k)) = Len(table)
  BY <1>2, <1>3, LinkedSet
<1> QED BY <1>3, <1>4

LEMMA WithdrawsAccess ==
  ASSUME NEW table \in Seq(AccessRow), NEW k \in DOMAIN table
  PROVE  /\ RevokePair(table, k) \in Seq(AccessRow)
         /\ Len(RevokePair(table, k)) = Len(table)
         /\ RevokePair(table, k)[k] = Retired(table[k])
         /\ \A j \in DOMAIN table \ {k} : RevokePair(table, k)[j] = table[j]
<1>1. table[k] \in AccessRow
  OBVIOUS
<1>2. Retired(table[k]) \in AccessRow
  BY <1>1, RetiredAccess
<1>3. RevokePair(table, k) = [table EXCEPT ![k] = Retired(table[k])]
  BY DEF RevokePair
<1>4. /\ RevokePair(table, k) \in Seq(AccessRow)
      /\ Len(RevokePair(table, k)) = Len(table)
  BY <1>2, <1>3, AccessSet
<1> QED BY <1>3, <1>4

LEMMA RevokesAll ==
  ASSUME NEW table, Linked(table)
  PROVE  /\ Linked(RevokeAll(table)) /\ Len(RevokeAll(table)) = Len(table)
         /\ \A k \in DOMAIN table : RevokeAll(table)[k] = Retired(table[k])
<1>1. table \in Seq(RefreshRow)
  BY DEF Linked
<1>2. /\ RevokeAll(table) \in Seq(RefreshRow)
      /\ Len(RevokeAll(table)) = Len(table)
      /\ \A k \in DOMAIN table : RevokeAll(table)[k] = Retired(table[k])
  BY <1>1, RevokeAllRefresh
<1>3. DOMAIN RevokeAll(table) = DOMAIN table
  BY DEF RevokeAll
<1>4. \A k \in DOMAIN table : RevokeAll(table)[k].next \in 0..Len(table)
  <2> SUFFICES ASSUME NEW k \in DOMAIN table
               PROVE  RevokeAll(table)[k].next \in 0..Len(table)
    OBVIOUS
  <2>1. table[k] \in RefreshRow /\ table[k].next \in 0..Len(table)
    BY DEF Linked
  <2>2. Retired(table[k]).next = table[k].next
    BY <2>1, RetiredRefresh
  <2> QED BY <1>2, <2>1, <2>2
<1> QED BY <1>2, <1>3, <1>4 DEF Linked

(* A new pair is appended, and linked.                                     *)
LEMMA Appends ==
  ASSUME NEW table, NEW row \in RefreshRow, Linked(table), row.next = None
  PROVE  /\ Linked(Append(table, row)) /\ Len(Append(table, row)) = Len(table) + 1
         /\ \A k \in DOMAIN table : Append(table, row)[k] = table[k]
         /\ DOMAIN Append(table, row) = DOMAIN table \cup {Len(table) + 1}
<1> DEFINE new == Append(table, row)
<1>1. table \in Seq(RefreshRow) /\ Len(table) \in Nat /\ DOMAIN table = 1..Len(table)
  BY DEF Linked
<1>2. /\ new \in Seq(RefreshRow) /\ Len(new) = Len(table) + 1
      /\ \A k \in DOMAIN table : new[k] = table[k]
      /\ new[Len(table) + 1] = row
      /\ DOMAIN new = DOMAIN table \cup {Len(table) + 1}
  BY <1>1
<1> HIDE DEF new
<1>3. \A k \in DOMAIN new : new[k].next \in 0..Len(new)
  <2>1. \A k \in DOMAIN table : table[k].next \in 0..Len(table)
    BY DEF Linked
  <2>2. \A k \in DOMAIN table : new[k].next \in 0..Len(new)
    BY <1>1, <1>2, <2>1
  <2>3. new[Len(table) + 1].next \in 0..Len(new)
    BY <1>1, <1>2 DEF None
  <2> QED BY <1>2, <2>2, <2>3
<1>4. Linked(new)
  BY <1>2, <1>3 DEF Linked
<1> QED BY <1>2, <1>4 DEF new

LEMMA Links ==
  ASSUME NEW table, NEW k \in DOMAIN table, NEW pair \in 0..Len(table),
         Linked(table)
  PROVE  Linked(LinkPair(table, k, pair)) /\ Len(LinkPair(table, k, pair)) = Len(table)
<1> DEFINE row == [table[k] EXCEPT !.next = pair]
<1>1. table[k] \in RefreshRow /\ pair \in Nat
  BY DEF Linked
<1>2. row \in RefreshRow /\ row.next = pair
  BY <1>1, LinkedRow
<1>3. LinkPair(table, k, pair) = [table EXCEPT ![k] = row]
  BY DEF LinkPair
<1> HIDE DEF row
<1>4. row.next \in 0..Len(table)
  BY <1>2
<1> QED BY <1>2, <1>3, <1>4, LinkedSet

-----------------------------------------------------------------------------
(* Documents. *)

LEMMA DocsDiffer ==
  ASSUME NEW j, NEW k
  PROVE  /\ RefreshDoc(j) # SessionDoc /\ AccessDoc(j) # SessionDoc
         /\ RefreshDoc(j) # AccessDoc(k)
         /\ RefreshDoc(j) = RefreshDoc(k) => j = k
         /\ AccessDoc(j) = AccessDoc(k) => j = k
BY DEF RefreshDoc, AccessDoc, SessionDoc

LEMMA DocsOf ==
  ASSUME NEW db \in Family
  PROVE  /\ {SessionDoc} \cup TokenDocs(db) \subseteq Docs
         /\ \A k \in Nat : /\ RefreshDoc(k) \in Docs
                          /\ AccessDoc(k) \in Docs
         /\ \A k : /\ RefreshDoc(k) \in {SessionDoc} \cup TokenDocs(db)
                       <=> k \in DOMAIN db.refresh
                   /\ AccessDoc(k) \in {SessionDoc} \cup TokenDocs(db)
                       <=> k \in DOMAIN db.refresh
<1>1. /\ DOMAIN db.refresh \subseteq Nat /\ DOMAIN db.access = DOMAIN db.refresh
  BY FamilyTable
<1>2. SessionDoc \in Docs /\ \A k \in Nat : RefreshDoc(k) \in Docs /\ AccessDoc(k) \in Docs
  BY DEF SessionDoc, RefreshDoc, AccessDoc, Docs
<1>3. TokenDocs(db) \subseteq Docs
  BY <1>1, <1>2 DEF TokenDocs
<1>4. ASSUME NEW k
      PROVE  /\ RefreshDoc(k) \in {SessionDoc} \cup TokenDocs(db)
                       <=> k \in DOMAIN db.refresh
             /\ AccessDoc(k) \in {SessionDoc} \cup TokenDocs(db)
                       <=> k \in DOMAIN db.refresh
  BY <1>1, DocsDiffer DEF TokenDocs
<1> QED BY <1>2, <1>3, <1>4

(* What is committed with the writes of a unit of work is a family again.  *)
LEMMA Overlays ==
  ASSUME NEW base \in Family, NEW top \in Family, NEW docs,
         Len(top.refresh) <= Len(base.refresh),
         docs \subseteq {SessionDoc} \cup TokenDocs(top)
  PROVE  LET db == Overlay(base, top, docs)
         IN  /\ db \in Family
             /\ Len(db.refresh) = Len(base.refresh)
             /\ \A k \in DOMAIN base.refresh :
                  /\ db.refresh[k] = IF RefreshDoc(k) \in docs THEN top.refresh[k]
                                     ELSE base.refresh[k]
                  /\ db.access[k] = IF AccessDoc(k) \in docs THEN top.access[k]
                                    ELSE base.access[k]
             /\ db.session = IF SessionDoc \in docs THEN top.session
                             ELSE base.session
<1> DEFINE r(k) == IF RefreshDoc(k) \in docs THEN top.refresh[k] ELSE base.refresh[k]
           a(k) == IF AccessDoc(k) \in docs THEN top.access[k] ELSE base.access[k]
           n == Len(base.refresh)
           rows == [k \in 1..n |-> r(k)]
           tokens == [k \in 1..n |-> a(k)]
<1>1. /\ n \in Nat /\ DOMAIN base.refresh = 1..n /\ DOMAIN base.access = 1..n
      /\ base.session \in {"none", "live", "ended"}
      /\ top.session \in {"none", "live", "ended"}
      /\ DOMAIN top.refresh = 1..Len(top.refresh) /\ Len(top.refresh) \in Nat
      /\ Linked(top.refresh) /\ Linked(base.refresh)
      /\ base.access \in Seq(AccessRow) /\ top.access \in Seq(AccessRow)
      /\ DOMAIN top.access = DOMAIN top.refresh
  BY FamilyTable
<1>2. \A k : RefreshDoc(k) \in docs \/ AccessDoc(k) \in docs => k \in DOMAIN top.refresh
  BY DocsOf
<1>3. ASSUME NEW k \in 1..n
      PROVE  r(k) \in RefreshRow /\ r(k).next \in 0..n /\ a(k) \in AccessRow
  <2>1. base.refresh[k] \in RefreshRow /\ base.refresh[k].next \in 0..n
        /\ base.access[k] \in AccessRow
    BY <1>1, <1>3 DEF Linked
  <2>2. k \in DOMAIN top.refresh =>
          top.refresh[k] \in RefreshRow /\ top.refresh[k].next \in 0..n
          /\ top.access[k] \in AccessRow
    BY <1>1 DEF Linked
  <2> QED BY <1>2, <2>1, <2>2
<1> HIDE DEF r, a
<1>4. rows \in Seq(RefreshRow) /\ Len(rows) = n /\ DOMAIN rows = 1..n
      /\ \A k \in 1..n : rows[k] = r(k)
  BY <1>1, <1>3, IsASeq
<1>5. tokens \in Seq(AccessRow) /\ Len(tokens) = n
      /\ \A k \in 1..n : tokens[k] = a(k)
  BY <1>1, <1>3, IsASeq
<1>6. Linked(rows)
  BY <1>3, <1>4 DEF Linked
<1> DEFINE s == IF SessionDoc \in docs THEN top.session ELSE base.session
<1>7. s \in {"none", "live", "ended"}
  BY <1>1
<1>8. Overlay(base, top, docs) = [session |-> s, refresh |-> rows, access |-> tokens]
  BY <1>1 DEF Overlay, r, a
<1> HIDE DEF rows, tokens, s
<1>9. Overlay(base, top, docs) \in Family
  BY <1>4, <1>5, <1>6, <1>7, <1>8, TableFamily
<1> QED BY <1>1, <1>4, <1>5, <1>8, <1>9 DEF r, a, s

-----------------------------------------------------------------------------
(* Units of work. *)

LEMMA UnitFields ==
  ASSUME NEW t \in UnitOfWork
  PROVE  /\ t.step \in Step /\ t.kind \in Kind /\ t.token \in Nat
         /\ t.proof \in Nat /\ t.at \in Nat /\ t.run \in 0..MaxAttempts
         /\ t.row \in RefreshRow \cup {<<>>} /\ t.view \in Family
         /\ t.wrote \in SUBSET Docs /\ t.stale \in SUBSET Docs
         /\ t.locks \in BOOLEAN /\ t.proofs \in SUBSET ProofIdSet
         /\ t.made \in Nat /\ t.stored = FALSE
         /\ ProofId(t) \in ProofIdSet
BY DEF UnitOfWork, ProofId, ProofIdSet

LEMMA NoTablesFamily == NoTables \in Family
BY DEF NoTables, Family, Tables

LEMMA IdleUnit == Idle \in UnitOfWork /\ Idle.step = "idle" /\ Idle.proofs = {}
BY StoresAssumption, NoTablesFamily
   DEF Idle, UnitOfWork, Step, Kind, None

(* What two versions of a unit of work agree on in every statement.        *)
SameRequest(u, t) ==
  /\ u.kind = t.kind /\ u.token = t.token /\ u.proof = t.proof
  /\ u.at = t.at /\ u.run = t.run /\ u.stale = t.stale
  /\ u.stored = t.stored

LEMMA GoneTo ==
  ASSUME NEW t \in UnitOfWork, NEW s \in Step
  PROVE  LET u == [t EXCEPT !.step = s]
         IN  /\ u \in UnitOfWork /\ SameRequest(u, t) /\ u.step = s
             /\ u.row = t.row /\ u.view = t.view /\ u.wrote = t.wrote
             /\ u.locks = t.locks /\ u.proofs = t.proofs /\ u.made = t.made
BY DEF UnitOfWork, SameRequest

LEMMA HasMade ==
  ASSUME NEW t \in UnitOfWork, NEW s \in Step, NEW g \in Nat
  PROVE  LET u == [t EXCEPT !.made = g, !.step = s]
         IN  /\ u \in UnitOfWork /\ SameRequest(u, t) /\ u.step = s
             /\ u.row = t.row /\ u.view = t.view /\ u.wrote = t.wrote
             /\ u.locks = t.locks /\ u.proofs = t.proofs /\ u.made = g
BY DEF UnitOfWork, SameRequest

(* A rerun is a unit of work that has done nothing.                        *)
LEMMA Reruns ==
  ASSUME NEW t \in UnitOfWork
  PROVE  /\ AfterAbort(t) \in UnitOfWork
         /\ \/ AfterAbort(t) = Idle
            \/ /\ AfterAbort(t).step = "find"
               /\ AfterAbort(t).kind = t.kind /\ AfterAbort(t).token = t.token
               /\ AfterAbort(t).proof = t.proof /\ AfterAbort(t).at = t.at
         /\ AfterAbort(t).wrote = {} /\ AfterAbort(t).proofs = {}
         /\ ~AfterAbort(t).locks /\ AfterAbort(t).made = None
         /\ AfterAbort(t).view = NoTables
         /\ AfterAbort(t).step \in {"idle", "find"}
<1>0. /\ t.run \in 0..MaxAttempts /\ t.kind \in Kind /\ t.token \in Nat
      /\ t.proof \in Nat /\ t.at \in Nat /\ t.stored = FALSE
  BY DEF UnitOfWork
<1>1. CASE t.run < MaxAttempts
  <2>1. t.run + 1 \in 0..MaxAttempts
    BY <1>0, <1>1, StoresAssumption
  <2>2. AfterAbort(t) = [step |-> "find", kind |-> t.kind, token |-> t.token,
          proof |-> t.proof, at |-> t.at, run |-> t.run + 1, row |-> <<>>,
          view |-> NoTables, wrote |-> {}, stale |-> {}, locks |-> FALSE,
          proofs |-> {}, made |-> None, stored |-> FALSE]
    BY <1>0, <1>1 DEF AfterAbort, Rerun, Idle
  <2>3. AfterAbort(t) \in UnitOfWork
    BY <1>0, <2>1, <2>2, NoTablesFamily DEF UnitOfWork, Step, None
  <2> QED BY <2>2, <2>3
<1>2. CASE ~(t.run < MaxAttempts)
  <2>1. AfterAbort(t) = Idle
    BY <1>2 DEF AfterAbort
  <2> QED BY <2>1, IdleUnit DEF Idle
<1> QED BY <1>1, <1>2

-----------------------------------------------------------------------------
(* Statements that commit nothing. *)

(* Sound speaks of the committed rows only through how many there are, the *)
(* clock, the session's existence and whether it is bound.                 *)
LEMMA StaysSound ==
  ASSUME NEW t \in UnitOfWork, Sound(t),
         /\ Len(refresh) \in Nat /\ Len(refresh') \in Nat
         /\ Pair = 1..Len(refresh) /\ Pair' = 1..Len(refresh')
         /\ Len(refresh) <= Len(refresh')
         /\ clock \in Nat /\ clock' \in Nat /\ clock <= clock'
         /\ session # "none" => session' # "none"
         /\ t.step # "idle" => bound' = bound
  PROVE  /\ WritesItsFamily(t)' /\ FoundItsRow(t)'
         /\ ReservedItsProof(t)'
<1>1. Len(t.view.refresh) \in Nat
  BY UnitFields, FamilyTable
<1>2. WritesItsFamily(t)'
  BY <1>1 DEF Sound, WritesItsFamily
<1>3. FoundItsRow(t)'
  BY DEF Sound, FoundItsRow
<1>4. ReservedItsProof(t)'
  BY DEF Sound, ReservedItsProof, WritesItsFamily, FoundItsRow, Unlocked, RotationStep
<1> QED BY <1>2, <1>3, <1>4

(* What every unit of work finds after a step: its own conditions again.   *)
LEMMA AllSound ==
  ASSUME \A v \in Worker : \E t \in UnitOfWork :
           /\ tx'[v] = t
           /\ WritesItsFamily(t)' /\ FoundItsRow(t)' /\ ReservedItsProof(t)'
  PROVE  (\A v \in Worker : Sound(tx[v]))'
<1> SUFFICES ASSUME NEW v \in Worker
             PROVE  (WritesItsFamily(tx[v]) /\ FoundItsRow(tx[v])
                       /\ ReservedItsProof(tx[v]))'
  BY DEF Sound
<1>1. PICK t \in UnitOfWork : /\ tx'[v] = t
           /\ WritesItsFamily(t)' /\ FoundItsRow(t)' /\ ReservedItsProof(t)'
  OBVIOUS
<1>2. WritesItsFamily(tx[v])'
  BY <1>1 DEF WritesItsFamily, Unlocked
<1>3. FoundItsRow(tx[v])'
  BY <1>1 DEF FoundItsRow, Unlocked, OfToken
<1>4. ReservedItsProof(tx[v])'
  BY <1>1 DEF ReservedItsProof, ProofId
<1> QED BY <1>2, <1>3, <1>4

(* One unit of work takes a step of its own, and nothing is committed.     *)
LEMMA Local ==
  ASSUME NEW w \in Worker, NEW u \in UnitOfWork, StoreInv,
         tx' = [tx EXCEPT ![w] = u],
         UNCHANGED <<vars, reserved, issuedFor>>, requests' \in Nat,
         WritesItsFamily(u), FoundItsRow(u), ReservedItsProof(u),
         u.proofs \cap reserved = {},
         \A v \in Worker \ {w} : tx[v].proofs \cap u.proofs = {}
  PROVE  StoreInv'
<1>0. UNCHANGED <<clock, code, session, bound, absolute, authority, refresh,
                  access, reserved, issuedFor>>
  BY DEF vars
<1>1. /\ TypeOK' /\ SessionOwnsPairs' /\ (Committed \in Family)' /\ (1 <= clock)'
      /\ AnswersReserved' /\ OnePairPerProof'
      /\ (issuedFor \in Seq(ProofIdSet \cup {FirstAnswer}))'
      /\ (Len(issuedFor) = Len(refresh))' /\ (requests \in Nat)'
      /\ (reserved \subseteq ProofIdSet)'
  BY <1>0 DEF StoreInv, TypeOK, SessionOwnsPairs, Committed, AnswersReserved,
              OnePairPerProof
<1>2. tx \in [Worker -> UnitOfWork] /\ tx' \in [Worker -> UnitOfWork]
  BY DEF StoreInv
<1>3. /\ Len(refresh) \in Nat /\ Pair = 1..Len(refresh) /\ clock \in Nat
  BY DEF StoreInv, TypeOK, Pair, Time
<1>4. ASSUME NEW t \in UnitOfWork, Sound(t)
      PROVE  WritesItsFamily(t)' /\ FoundItsRow(t)' /\ ReservedItsProof(t)'
  <2>1. Pair' = Pair
    BY <1>0 DEF Pair
  <2> QED BY <1>0, <1>3, <1>4, <2>1, StaysSound
<1>5. \A v \in Worker : \E t \in UnitOfWork :
           /\ tx'[v] = t
           /\ WritesItsFamily(t)' /\ FoundItsRow(t)' /\ ReservedItsProof(t)'
  <2> SUFFICES ASSUME NEW v \in Worker
               PROVE  \E t \in UnitOfWork : tx'[v] = t /\ Sound(t)
    BY <1>4
  <2>1. CASE v = w
    BY <1>2, <2>1 DEF Sound
  <2>2. CASE v # w
    BY <1>2, <2>2 DEF StoreInv
  <2> QED BY <2>1, <2>2
<1>6. (\A v \in Worker : Sound(tx[v]))'
  BY <1>5, AllSound
<1>7. ProofsApart'
  <2>1. \A v \in Worker : tx'[v] = (IF v = w THEN u ELSE tx[v])
    BY <1>2
  <2>2. ProofsApart
    BY DEF StoreInv
  <2>3. \A v \in Worker : tx[v].proofs \in SUBSET ProofIdSet
    BY <1>2, UnitFields
  <2> QED BY <1>0, <2>1, <2>2 DEF ProofsApart
<1> QED BY <1>1, <1>2, <1>6, <1>7 DEF StoreInv

LEMMA UnitFacts ==
  ASSUME NEW w \in Worker, NEW t, StoreInv, t = tx[w]
  PROVE  /\ t \in UnitOfWork
         /\ WritesItsFamily(t) /\ FoundItsRow(t) /\ ReservedItsProof(t)
         /\ t.proofs \cap reserved = {}
         /\ \A v \in Worker \ {w} : tx[v] \in UnitOfWork
                                 /\ tx[v].proofs \cap t.proofs = {}
         /\ Committed \in Family /\ Committed.refresh = refresh
         /\ Committed.access = access /\ Committed.session = session
         /\ Len(refresh) \in Nat /\ Pair = 1..Len(refresh)
BY DEF StoreInv, Sound, ProofsApart, Committed, Pair, TypeOK

(* What a unit of work sees has its own writes and all rows of its view.   *)
LEMMA SeenFamily ==
  ASSUME NEW w \in Worker, NEW t, StoreInv, t = tx[w]
  PROVE  /\ Seen(w) \in Family
         /\ Len(t.view.refresh) \in Nat /\ Len(Seen(w).refresh) \in Nat
         /\ Len(t.view.refresh) <= Len(Seen(w).refresh)
         /\ Len(Seen(w).refresh) <= Len(refresh)
         /\ SessionDoc \in t.wrote => Seen(w).session = "ended"
         /\ DOMAIN Seen(w).refresh = 1..Len(Seen(w).refresh)
         /\ DOMAIN Seen(w).access = 1..Len(Seen(w).refresh)
         /\ Linked(Seen(w).refresh) /\ Seen(w).access \in Seq(AccessRow)
         /\ Seen(w) = [session |-> Seen(w).session, refresh |-> Seen(w).refresh,
                       access |-> Seen(w).access]
<1>1. /\ t \in UnitOfWork /\ WritesItsFamily(t)
      /\ Committed \in Family /\ Committed.refresh = refresh
      /\ Len(refresh) \in Nat
  BY UnitFacts
<1>2. /\ t.view \in Family /\ Len(t.view.refresh) \in Nat
      /\ Len(t.view.refresh) <= Len(refresh)
      /\ t.wrote \subseteq {SessionDoc} \cup TokenDocs(t.view)
      /\ SessionDoc \in t.wrote => t.view.session = "ended"
  BY <1>1, UnitFields, FamilyTable DEF WritesItsFamily
<1>3. /\ Seen(w) \in Family
      /\ Len(t.view.refresh) <= Len(Seen(w).refresh)
      /\ Len(Seen(w).refresh) <= Len(refresh)
      /\ SessionDoc \in t.wrote => Seen(w).session = "ended"
  <2>1. CASE Backend = "mongo"
    BY <1>2, <2>1 DEF Seen
  <2>2. CASE Backend # "mongo"
    <3>1. Seen(w) = Overlay(Committed, t.view, t.wrote)
      BY <2>2 DEF Seen
    <3>2. /\ Overlay(Committed, t.view, t.wrote) \in Family
          /\ Len(Overlay(Committed, t.view, t.wrote).refresh) = Len(refresh)
          /\ Overlay(Committed, t.view, t.wrote).session
               = (IF SessionDoc \in t.wrote THEN t.view.session
                  ELSE Committed.session)
      BY <1>1, <1>2, Overlays
    <3> QED BY <1>1, <1>2, <3>1, <3>2
  <2> QED BY <2>1, <2>2
<1>4. /\ Len(Seen(w).refresh) \in Nat
      /\ DOMAIN Seen(w).refresh = 1..Len(Seen(w).refresh)
      /\ DOMAIN Seen(w).access = 1..Len(Seen(w).refresh)
      /\ Linked(Seen(w).refresh) /\ Seen(w).access \in Seq(AccessRow)
      /\ Seen(w) = [session |-> Seen(w).session, refresh |-> Seen(w).refresh,
                    access |-> Seen(w).access]
  BY <1>3, FamilyTable
<1> QED BY <1>2, <1>3, <1>4

(* A unit of work that goes on to its next statement stays sound.          *)
LEMMA Proceeds ==
  ASSUME NEW t \in UnitOfWork, NEW u \in UnitOfWork,
         WritesItsFamily(t), FoundItsRow(t), ReservedItsProof(t),
         SameRequest(u, t), u.row = t.row, u.locks = t.locks,
         u.proofs = t.proofs, u.made = t.made,
         ~Unlocked(t), t.step # "commit", ~Unlocked(u), u.step # "reserve",
         Len(t.view.refresh) <= Len(u.view.refresh),
         Len(u.view.refresh) <= Len(refresh),
         u.wrote \subseteq {SessionDoc} \cup TokenDocs(u.view),
         SessionDoc \in u.wrote => u.view.session = "ended",
         u.step \in RotationStep => t.step \in RotationStep,
         u.step \in {"claimRetry", "revokeSuccessor"} => t.row.next # None
  PROVE  WritesItsFamily(u) /\ FoundItsRow(u) /\ ReservedItsProof(u)
<1>1. /\ Len(t.view.refresh) \in Nat /\ Len(u.view.refresh) \in Nat
      /\ DOMAIN t.view.refresh = 1..Len(t.view.refresh)
      /\ DOMAIN u.view.refresh = 1..Len(u.view.refresh)
  BY UnitFields, FamilyTable
<1>2. t.made = None
  BY DEF FoundItsRow
<1>3. t.step # "idle" /\ u.step # "idle"
  BY DEF Unlocked
<1>4. WritesItsFamily(u)
  BY DEF WritesItsFamily
<1>5. FoundItsRow(u)
  <2>1. u.step # "idle" => session # "none" /\ u.at \in 1..clock
    BY <1>3 DEF FoundItsRow, SameRequest
  <2>2. u.step # "idle" => IF OfToken(u) THEN u.token \in Pair ELSE u.token = None
    BY <1>3 DEF FoundItsRow, SameRequest, OfToken
  <2>3. OfToken(u) => /\ u.token \in DOMAIN u.view.refresh
                      /\ u.row \in RefreshRow
                      /\ u.row.next \in 0..Len(u.view.refresh)
    <3> SUFFICES ASSUME OfToken(u)
                 PROVE  /\ u.token \in DOMAIN u.view.refresh
                        /\ u.row \in RefreshRow
                        /\ u.row.next \in 0..Len(u.view.refresh)
      OBVIOUS
    <3>1. /\ t.token \in DOMAIN t.view.refresh
          /\ t.row \in RefreshRow
          /\ t.row.next \in 0..Len(t.view.refresh)
      BY DEF FoundItsRow, SameRequest, OfToken
    <3> QED BY SMTT(60), <1>1, <3>1 DEF SameRequest
  <2>4. u.step \in RotationStep \/ u.made # None => u.kind = "refresh"
    BY <1>2 DEF FoundItsRow, SameRequest
  <2> QED BY <1>2, <2>1, <2>2, <2>3, <2>4 DEF FoundItsRow
<1>6. ReservedItsProof(u)
  <2>1. ProofId(u) = ProofId(t)
    BY DEF ProofId, SameRequest
  <2> QED BY <1>2, <2>1 DEF ReservedItsProof
<1> QED BY <1>4, <1>5, <1>6

LEMMA GoesOn ==
  ASSUME NEW w \in Worker, NEW s \in Step, NEW t, StoreInv, t = tx[w],
         ~Unlocked(t), t.step # "commit", s \notin {"idle", "find", "reserve"},
         s \in RotationStep => t.step \in RotationStep,
         s \in {"claimRetry", "revokeSuccessor"} => t.row.next # None,
         Goto(w, s)
  PROVE  StoreInv'
<1> DEFINE u == [t EXCEPT !.step = s]
<1>1. t \in UnitOfWork /\ WritesItsFamily(t) /\ FoundItsRow(t)
      /\ ReservedItsProof(t) /\ t.proofs \cap reserved = {}
      /\ \A v \in Worker \ {w} : tx[v].proofs \cap t.proofs = {}
  BY UnitFacts
<1>2. /\ u \in UnitOfWork /\ SameRequest(u, t) /\ u.step = s
      /\ u.row = t.row /\ u.view = t.view /\ u.wrote = t.wrote
      /\ u.locks = t.locks /\ u.proofs = t.proofs /\ u.made = t.made
  BY <1>1, GoneTo
<1>3. tx' = [tx EXCEPT ![w] = u]
  BY DEF Goto
<1> HIDE DEF u
<1>4. UNCHANGED <<vars, reserved, issuedFor>> /\ requests' \in Nat
  BY DEF Goto, NothingStored, StoreInv
<1>5. /\ Len(t.view.refresh) \in Nat
      /\ Len(u.view.refresh) <= Len(refresh)
      /\ u.wrote \subseteq {SessionDoc} \cup TokenDocs(u.view)
      /\ SessionDoc \in u.wrote => u.view.session = "ended"
  BY <1>1, <1>2, UnitFields, FamilyTable DEF WritesItsFamily
<1>6. ~Unlocked(u) /\ u.step # "reserve"
  BY <1>2 DEF Unlocked
<1>7. WritesItsFamily(u) /\ FoundItsRow(u) /\ ReservedItsProof(u)
  BY <1>1, <1>2, <1>5, <1>6, Proceeds
<1> QED BY <1>1, <1>2, <1>3, <1>4, <1>7, Local

LEMMA Refuses ==
  ASSUME NEW w \in Worker, StoreInv, NothingStored,
         \/ tx[w].step # "idle" /\ tx' = [tx EXCEPT ![w] = AfterAbort(@)]
         \/ tx' = [tx EXCEPT ![w] = Idle]
  PROVE  StoreInv'
<1> DEFINE t == tx[w]
<1>1. t \in UnitOfWork /\ FoundItsRow(t) /\ Len(refresh) \in Nat
  BY UnitFacts
<1>2. UNCHANGED <<vars, reserved, issuedFor>> /\ requests' \in Nat
  BY DEF NothingStored, StoreInv
<1>3. PICK u \in {Idle, AfterAbort(t)} :
        /\ tx' = [tx EXCEPT ![w] = u]
        /\ u = Idle \/ t.step # "idle"
  OBVIOUS
<1>4. /\ u \in UnitOfWork /\ u.wrote = {} /\ u.proofs = {} /\ ~u.locks
      /\ u.made = None /\ u.view = NoTables /\ u.step \in {"idle", "find"}
      /\ u.step = "find" => /\ t.step # "idle"
                            /\ u.kind = t.kind /\ u.token = t.token
                            /\ u.proof = t.proof /\ u.at = t.at
  <2>1. CASE u = Idle
    BY <2>1, IdleUnit DEF Idle
  <2>2. CASE u = AfterAbort(t)
    BY <1>1, <1>3, <2>2, Reruns, IdleUnit
  <2> QED BY <2>1, <2>2
<1> HIDE DEF t
<1>5. WritesItsFamily(u)
  BY <1>1, <1>4 DEF WritesItsFamily, NoTables
<1>6. FoundItsRow(u)
  BY <1>1, <1>4 DEF FoundItsRow, Unlocked, OfToken, RotationStep
<1>7. ReservedItsProof(u)
  BY <1>4 DEF ReservedItsProof, RotationStep
<1> QED BY <1>2, <1>3, <1>4, <1>5, <1>6, <1>7, Local

LEMMA WritesOn ==
  ASSUME NEW w \in Worker, NEW s \in Step, NEW db \in Family, NEW t,
         StoreInv, t = tx[w],
         ~Unlocked(t), t.step # "commit", s \notin {"idle", "find", "reserve"},
         s \in RotationStep => t.step \in RotationStep,
         s \in {"claimRetry", "revokeSuccessor"} => t.row.next # None,
         Targets(w) \subseteq {SessionDoc} \cup TokenDocs(db),
         Len(db.refresh) = Len(Seen(w).refresh),
         SessionDoc \in t.wrote \cup Targets(w) => db.session = "ended",
         Write(w, db, s)
  PROVE  StoreInv'
<1>1. t \in UnitOfWork /\ WritesItsFamily(t) /\ FoundItsRow(t)
      /\ ReservedItsProof(t) /\ t.proofs \cap reserved = {}
      /\ \A v \in Worker \ {w} : tx[v].proofs \cap t.proofs = {}
  BY UnitFacts
<1>2. CASE Conflicts(w) /\ Refuse(w)
  <2>1. NothingStored /\ t.step # "idle" /\ tx' = [tx EXCEPT ![w] = AfterAbort(@)]
    BY <1>2 DEF Refuse, Unlocked
  <2> QED BY <2>1, Refuses
<1>3. CASE ~(Conflicts(w) /\ Refuse(w))
  <2> DEFINE docs == Targets(w)
             u == [t EXCEPT !.view = db, !.wrote = @ \cup docs, !.step = s]
  <2>1. tx' = [tx EXCEPT ![w] = u] /\ NothingStored
    BY <1>3 DEF Write
  <2>2. t.view \in Family /\ docs \in SUBSET Docs
    BY <1>1, DocsOf, UnitFields
  <2> HIDE DEF docs
  <2>3. /\ u \in UnitOfWork /\ SameRequest(u, t) /\ u.step = s
        /\ u.row = t.row /\ u.view = db /\ u.wrote = t.wrote \cup docs
        /\ u.locks = t.locks /\ u.proofs = t.proofs /\ u.made = t.made
    BY <1>1, <2>2 DEF UnitOfWork, SameRequest
  <2> HIDE DEF u
  <2>4. UNCHANGED <<vars, reserved, issuedFor>> /\ requests' \in Nat
    BY <2>1 DEF NothingStored, StoreInv
  <2>5. /\ Len(t.view.refresh) <= Len(db.refresh)
        /\ Len(db.refresh) <= Len(refresh)
    BY SeenFamily
  <2>6. TokenDocs(t.view) \subseteq TokenDocs(db)
    <3>1. /\ DOMAIN t.view.refresh = 1..Len(t.view.refresh)
          /\ DOMAIN t.view.access = DOMAIN t.view.refresh
          /\ DOMAIN db.refresh = 1..Len(db.refresh)
          /\ DOMAIN db.access = DOMAIN db.refresh
          /\ Len(t.view.refresh) \in Nat /\ Len(db.refresh) \in Nat
      BY <2>2, FamilyTable
    <3>2. DOMAIN t.view.refresh \subseteq DOMAIN db.refresh
      BY <2>5, <3>1
    <3> QED BY <3>1, <3>2 DEF TokenDocs
  <2>7. u.wrote \subseteq {SessionDoc} \cup TokenDocs(u.view)
    BY <1>1, <2>3, <2>6 DEF WritesItsFamily, docs
  <2>8. ~Unlocked(u) /\ u.step # "reserve"
    BY <2>3 DEF Unlocked
  <2>9. WritesItsFamily(u) /\ FoundItsRow(u) /\ ReservedItsProof(u)
    BY <1>1, <2>3, <2>5, <2>7, <2>8, Proceeds DEF docs
  <2> QED BY <1>1, <2>1, <2>3, <2>4, <2>9, Local
<1> QED BY <1>2, <1>3

(* The documents of rows that are there.                                   *)
LEMMA RowDocs ==
  ASSUME NEW db \in Family, NEW k \in DOMAIN db.refresh
  PROVE  RefreshDoc(k) \in TokenDocs(db) /\ AccessDoc(k) \in TokenDocs(db)
BY FamilyTable DEF TokenDocs

LEMMA ClaimKeeps ==
  ASSUME NEW w \in Worker, StoreInv, Claim(w)
  PROVE  StoreInv'
<1> DEFINE t == tx[w]
           seen == Seen(w)
           db == [session |-> seen.session, access |-> seen.access,
                  refresh |-> ClaimRefresh(seen.refresh, t.token, t.at)]
<1>1. t.step = "claimRefresh"
  BY DEF Claim
<1>2. t \in UnitOfWork /\ WritesItsFamily(t) /\ FoundItsRow(t)
  BY UnitFacts
<1>3. /\ ~Unlocked(t) /\ t.step # "commit" /\ t.step \in RotationStep
      /\ "retire" \in Step /\ "endSession" \in Step
      /\ "endSession" \notin RotationStep
  BY <1>1 DEF Unlocked, RotationStep, Step
<1>4. /\ seen \in Family /\ Len(t.view.refresh) <= Len(seen.refresh)
      /\ DOMAIN seen.refresh = 1..Len(seen.refresh)
      /\ Linked(seen.refresh) /\ seen.access \in Seq(AccessRow)
      /\ seen = [session |-> seen.session, refresh |-> seen.refresh,
                 access |-> seen.access]
      /\ Len(t.view.refresh) \in Nat /\ Len(seen.refresh) \in Nat
      /\ SessionDoc \in t.wrote => seen.session = "ended"
  BY SeenFamily
<1>5. t.token \in DOMAIN seen.refresh /\ t.at \in Nat
  <2>1. t.token \in DOMAIN t.view.refresh
    BY <1>2, <1>3 DEF FoundItsRow, OfToken
  <2>2. t.view \in Family /\ t.at \in Nat
    BY <1>2, UnitFields
  <2>3. DOMAIN t.view.refresh = 1..Len(t.view.refresh)
    BY <2>2, FamilyTable
  <2> QED BY <1>4, <2>1, <2>2, <2>3
<1>6. CASE seen.refresh[t.token].spent
  <2>1. Goto(w, "endSession")
    BY <1>6 DEF Claim
  <2> HIDE DEF seen
  <2> QED BY <1>3, <2>1, GoesOn
<1>7. CASE ~seen.refresh[t.token].spent
  <2>1. /\ Linked(db.refresh) /\ Len(db.refresh) = Len(seen.refresh)
    <3> HIDE DEF seen
    <3>1. /\ Linked(ClaimRefresh(seen.refresh, t.token, t.at))
          /\ Len(ClaimRefresh(seen.refresh, t.token, t.at)) = Len(seen.refresh)
      BY <1>4, <1>5, Claims
    <3> QED BY <3>1
  <2>2. db \in Family
    BY <1>4, <2>1, TableFamily, FamilyTable
  <2>3. Write(w, [seen EXCEPT !.refresh = ClaimRefresh(@, t.token, t.at)], "retire")
    BY <1>7 DEF Claim
  <2>4. [seen EXCEPT !.refresh = ClaimRefresh(@, t.token, t.at)] = db
    BY <1>4
  <2>5. Targets(w) \subseteq {RefreshDoc(t.token)}
    BY <1>1 DEF Targets
  <2>6. DOMAIN db.refresh = DOMAIN seen.refresh
    BY <1>4, <2>1, <2>2, FamilyTable
  <2>7. Targets(w) \subseteq {SessionDoc} \cup TokenDocs(db)
    BY <1>5, <2>2, <2>5, <2>6, RowDocs
  <2>8. SessionDoc \in t.wrote \cup Targets(w) => db.session = "ended"
    BY <1>4, <2>5, DocsDiffer
  <2> HIDE DEF seen, db
  <2> QED BY <1>3, <2>1, <2>2, <2>3, <2>4, <2>7, <2>8, WritesOn DEF seen, db
<1> QED BY <1>6, <1>7

LEMMA BothTables ==
  ASSUME NEW db, NEW r, NEW a, db = [session |-> db.session,
           refresh |-> db.refresh, access |-> db.access]
  PROVE  [db EXCEPT !.refresh = r, !.access = a]
           = [session |-> db.session, refresh |-> r, access |-> a]
<1> DEFINE new == [db EXCEPT !.refresh = r, !.access = a]
<1>1. DOMAIN db = {"session", "refresh", "access"}
  OBVIOUS
<1>2. DOMAIN new = {"session", "refresh", "access"}
  BY <1>1
<1>3. new["session"] = db.session /\ new["refresh"] = r /\ new["access"] = a
  BY <1>1
<1>4. new = [x \in {"session", "refresh", "access"} |-> new[x]]
  BY <1>2
<1> HIDE DEF new
<1> QED BY <1>2, <1>3, <1>4

(* The token as found, and its successor, are rows of what is seen.        *)
LEMMA RowSeen ==
  ASSUME NEW w \in Worker, NEW t, StoreInv, t = tx[w], ~Unlocked(t)
  PROVE  /\ t \in UnitOfWork /\ t.at \in Nat
         /\ OfToken(t) => /\ t.token \in DOMAIN Seen(w).refresh
                          /\ t.row \in RefreshRow
                          /\ t.row.next \in 0..Len(Seen(w).refresh)
                          /\ t.row.next # None =>
                               t.row.next \in DOMAIN Seen(w).refresh
<1>1. t \in UnitOfWork /\ FoundItsRow(t)
  BY UnitFacts
<1>2. t.view \in Family /\ t.at \in Nat
  BY <1>1, UnitFields
<1>3. DOMAIN t.view.refresh = 1..Len(t.view.refresh)
  BY <1>2, FamilyTable
<1>4. /\ Len(t.view.refresh) \in Nat /\ Len(Seen(w).refresh) \in Nat
      /\ Len(t.view.refresh) <= Len(Seen(w).refresh)
      /\ DOMAIN Seen(w).refresh = 1..Len(Seen(w).refresh)
  BY SeenFamily
<1>5. OfToken(t) => /\ t.token \in DOMAIN t.view.refresh
                    /\ t.row \in RefreshRow
                    /\ t.row.next \in 0..Len(t.view.refresh)
  BY <1>1 DEF FoundItsRow
<1> QED BY <1>1, <1>2, <1>3, <1>4, <1>5 DEF None

LEMMA RetireKeeps ==
  ASSUME NEW w \in Worker, StoreInv, Retire(w)
  PROVE  StoreInv'
<1> DEFINE t == tx[w]
           seen == Seen(w)
           db == [session |-> seen.session, refresh |-> seen.refresh,
                  access |-> RetireAccessTokens(seen.access)]
<1>1. /\ t.step = "retire"
      /\ Write(w, [seen EXCEPT !.access = RetireAccessTokens(@)], "issue")
  BY DEF Retire
<1>2. /\ ~Unlocked(t) /\ t.step # "commit" /\ t.step \in RotationStep
      /\ "issue" \in Step
  BY <1>1 DEF Unlocked, RotationStep, Step
<1>3. /\ seen \in Family /\ DOMAIN seen.access = DOMAIN seen.refresh
      /\ Linked(seen.refresh) /\ seen.access \in Seq(AccessRow)
      /\ seen = [session |-> seen.session, refresh |-> seen.refresh,
                 access |-> seen.access]
      /\ SessionDoc \in t.wrote => seen.session = "ended"
  BY SeenFamily
<1>4. db \in Family
  <2> HIDE DEF seen
  <2>1. /\ RetireAccessTokens(seen.access) \in Seq(AccessRow)
        /\ Len(RetireAccessTokens(seen.access)) = Len(seen.access)
    BY <1>3, RetireAccessSeq
  <2>2. Len(seen.refresh) = Len(seen.access)
        /\ seen.session \in {"none", "live", "ended"}
    BY <1>3, FamilyTable
  <2> QED BY <1>3, <2>1, <2>2, TableFamily
<1>5. [seen EXCEPT !.access = RetireAccessTokens(@)] = db
  BY <1>3
<1>6. Targets(w) \subseteq {AccessDoc(k) : k \in DOMAIN seen.refresh}
  BY <1>1, <1>3 DEF Targets
<1>7. Targets(w) \subseteq {SessionDoc} \cup TokenDocs(db)
  BY <1>4, <1>6, RowDocs
<1>8. SessionDoc \in t.wrote \cup Targets(w) => db.session = "ended"
  BY <1>3, <1>6, DocsDiffer
<1> HIDE DEF seen, db
<1> QED BY <1>1, <1>2, <1>4, <1>5, <1>7, <1>8, WritesOn DEF seen, db

LEMMA LookupKeeps ==
  ASSUME NEW w \in Worker, StoreInv, Lookup(w)
  PROVE  StoreInv'
<1> DEFINE t == tx[w]
           found == [Seen(w).refresh EXCEPT ![t.token] = t.row]
<1>1. t.step = "successor"
  BY DEF Lookup
<1>2. /\ ~Unlocked(t) /\ t.step # "commit" /\ t.step \in RotationStep
      /\ "claimRetry" \in Step /\ "endSession" \in Step
      /\ "endSession" \notin RotationStep
  BY <1>1 DEF Unlocked, RotationStep, Step
<1>3. CASE HasUnusedSuccessor(found, Seen(w).access, t.token)
  <2>1. Goto(w, "claimRetry")
    BY <1>3 DEF Lookup
  <2>2. t \in UnitOfWork /\ FoundItsRow(t)
    BY UnitFacts
  <2>3. OfToken(t)
    BY <1>2, <2>2 DEF FoundItsRow, OfToken
  <2>4. t.token \in DOMAIN Seen(w).refresh
    BY <1>2, <2>3, RowSeen
  <2>5. found[t.token] = t.row
    BY <2>4
  <2>6. t.row.next # None
    BY <1>3, <2>5 DEF HasUnusedSuccessor
  <2> QED BY <1>2, <2>1, <2>6, GoesOn
<1>4. CASE ~HasUnusedSuccessor(found, Seen(w).access, t.token)
  <2>1. Goto(w, "endSession")
    BY <1>4 DEF Lookup
  <2> QED BY <1>2, <2>1, GoesOn
<1> QED BY <1>3, <1>4

LEMMA ClaimTheRetryKeeps ==
  ASSUME NEW w \in Worker, StoreInv, ClaimTheRetry(w)
  PROVE  StoreInv'
<1> DEFINE t == tx[w]
           seen == Seen(w)
           db == [session |-> seen.session, access |-> seen.access,
                  refresh |-> ClaimRetry(seen.refresh, t.token, t.at)]
<1>1. t.step = "claimRetry"
  BY DEF ClaimTheRetry
<1>2. t \in UnitOfWork /\ FoundItsRow(t)
  BY UnitFacts
<1>3. /\ ~Unlocked(t) /\ t.step # "commit" /\ t.step \in RotationStep
      /\ OfToken(t) /\ t.row.next # None
      /\ "revokeSuccessor" \in Step /\ "commit" \in Step
      /\ "commit" \notin RotationStep
  BY <1>1, <1>2 DEF Unlocked, RotationStep, Step, OfToken, FoundItsRow
<1>4. /\ seen \in Family /\ DOMAIN seen.access = DOMAIN seen.refresh
      /\ Linked(seen.refresh) /\ seen.access \in Seq(AccessRow)
      /\ seen = [session |-> seen.session, refresh |-> seen.refresh,
                 access |-> seen.access]
      /\ SessionDoc \in t.wrote => seen.session = "ended"
  BY SeenFamily
<1>5. t.token \in DOMAIN seen.refresh /\ t.at \in Nat
  BY <1>3, RowSeen
<1>6. CASE ~CanClaimRetry(seen.refresh, t.token, t.at)
  <2>1. Goto(w, "commit")
    BY <1>6 DEF ClaimTheRetry
  <2> HIDE DEF seen
  <2> QED BY <1>3, <2>1, GoesOn
<1>7. CASE CanClaimRetry(seen.refresh, t.token, t.at)
  <2>1. Linked(db.refresh) /\ Len(db.refresh) = Len(seen.refresh)
    <3> HIDE DEF seen
    <3>1. /\ Linked(ClaimRetry(seen.refresh, t.token, t.at))
          /\ Len(ClaimRetry(seen.refresh, t.token, t.at)) = Len(seen.refresh)
      BY <1>4, <1>5, Claims
    <3> QED BY <3>1
  <2>2. db \in Family
    BY <1>4, <2>1, TableFamily, FamilyTable
  <2>3. Write(w, [seen EXCEPT !.refresh = ClaimRetry(@, t.token, t.at)],
              "revokeSuccessor")
    BY <1>7 DEF ClaimTheRetry
  <2>4. [seen EXCEPT !.refresh = ClaimRetry(@, t.token, t.at)] = db
    BY <1>4
  <2>5. Targets(w) \subseteq {RefreshDoc(t.token)}
    BY <1>1 DEF Targets
  <2>6. DOMAIN db.refresh = DOMAIN seen.refresh
    BY <1>4, <2>1, <2>2, FamilyTable
  <2>7. Targets(w) \subseteq {SessionDoc} \cup TokenDocs(db)
    BY <1>5, <2>2, <2>5, <2>6, RowDocs
  <2>8. SessionDoc \in t.wrote \cup Targets(w) => db.session = "ended"
    BY <1>4, <2>5, DocsDiffer
  <2> HIDE DEF seen, db
  <2> QED BY <1>3, <2>1, <2>2, <2>3, <2>4, <2>7, <2>8, WritesOn DEF seen, db
<1> QED BY <1>6, <1>7

LEMMA RevokeSuccessorKeeps ==
  ASSUME NEW w \in Worker, StoreInv, RevokeSuccessor(w)
  PROVE  StoreInv'
<1> DEFINE t == tx[w]
           seen == Seen(w)
           pair == t.row.next
           r == IF Live(seen.refresh[pair]) THEN RevokePair(seen.refresh, pair)
                ELSE seen.refresh
           a == IF CanMarkFirstUse(seen.access, pair)
                THEN RevokePair(seen.access, pair) ELSE seen.access
           db == [session |-> seen.session, refresh |-> r, access |-> a]
           next == IF CanRevokeSuccessor(seen.refresh, seen.access, pair)
                   THEN "issue" ELSE "endSession"
<1>1. t.step = "revokeSuccessor"
  BY DEF RevokeSuccessor
<1>2. t \in UnitOfWork /\ FoundItsRow(t)
  BY UnitFacts
<1>3. /\ ~Unlocked(t) /\ t.step # "commit" /\ t.step \in RotationStep
      /\ OfToken(t) /\ t.row.next # None
      /\ next \in Step /\ next \notin {"idle", "find", "reserve"}
      /\ next \notin {"claimRetry", "revokeSuccessor"}
  BY <1>1, <1>2 DEF Unlocked, RotationStep, Step, OfToken, FoundItsRow
<1>4. /\ seen \in Family /\ DOMAIN seen.access = DOMAIN seen.refresh
      /\ Linked(seen.refresh) /\ seen.access \in Seq(AccessRow)
      /\ seen = [session |-> seen.session, refresh |-> seen.refresh,
                 access |-> seen.access]
      /\ SessionDoc \in t.wrote => seen.session = "ended"
  BY SeenFamily
<1>5. pair \in DOMAIN seen.refresh
  BY <1>3, RowSeen
<1>6. db \in Family /\ Len(r) = Len(seen.refresh)
  <2> HIDE DEF seen
  <2>1. /\ Linked(RevokePair(seen.refresh, pair))
        /\ Len(RevokePair(seen.refresh, pair)) = Len(seen.refresh)
    BY <1>4, <1>5, Withdraws
  <2>2. /\ RevokePair(seen.access, pair) \in Seq(AccessRow)
        /\ Len(RevokePair(seen.access, pair)) = Len(seen.access)
    BY <1>4, <1>5, WithdrawsAccess
  <2>3. Len(seen.refresh) = Len(seen.access)
        /\ seen.session \in {"none", "live", "ended"}
    BY <1>4, FamilyTable
  <2>4. Linked(r) /\ Len(r) = Len(seen.refresh)
    BY <1>4, <2>1
  <2>5. a \in Seq(AccessRow) /\ Len(a) = Len(seen.access)
    BY <1>4, <2>2
  <2> HIDE DEF r, a
  <2> QED BY <2>3, <2>4, <2>5, TableFamily
<1>7. Write(w, db, next)
  <2>1. Write(w, [seen EXCEPT
              !.refresh = IF Live(@[pair]) THEN RevokePair(@, pair) ELSE @,
              !.access = IF CanMarkFirstUse(@, pair) THEN RevokePair(@, pair)
                         ELSE @], next)
    BY DEF RevokeSuccessor
  <2>2. [seen EXCEPT
              !.refresh = IF Live(@[pair]) THEN RevokePair(@, pair) ELSE @,
              !.access = IF CanMarkFirstUse(@, pair) THEN RevokePair(@, pair)
                         ELSE @] = db
    <3> HIDE DEF seen
    <3>1. seen = [session |-> seen.session, refresh |-> seen.refresh,
                  access |-> seen.access]
      BY <1>4
    <3>2. \A x, y : [seen EXCEPT !.refresh = x, !.access = y]
                     = [session |-> seen.session, refresh |-> x, access |-> y]
      BY ZenonT(60), <3>1, BothTables
    <3> QED BY <3>2
  <2> QED BY <2>1, <2>2
<1>8. Targets(w) \subseteq {RefreshDoc(pair), AccessDoc(pair)}
  BY <1>1 DEF Targets
<1>9. DOMAIN db.refresh = DOMAIN seen.refresh
  <2>1. DOMAIN db.refresh = 1..Len(r)
    BY <1>6, FamilyTable
  <2> QED BY <1>4, <1>6, <2>1, FamilyTable
<1>10. Targets(w) \subseteq {SessionDoc} \cup TokenDocs(db)
  BY <1>5, <1>6, <1>8, <1>9, RowDocs
<1>11. SessionDoc \in t.wrote \cup Targets(w) => db.session = "ended"
  BY <1>4, <1>8, DocsDiffer
<1>12. Len(db.refresh) = Len(seen.refresh)
  BY <1>6
<1> HIDE DEF db, next
<1> QED BY <1>3, <1>6, <1>7, <1>10, <1>11, <1>12, WritesOn

LEMMA IssueKeeps ==
  ASSUME NEW w \in Worker, StoreInv, Issue(w)
  PROVE  StoreInv'
<1> DEFINE t == tx[w]
           g == t.row.generation + 1
           u == [t EXCEPT !.made = g, !.step = "commit"]
<1>1. t.step = "issue" /\ NothingStored /\ tx' = [tx EXCEPT ![w] = u]
  BY DEF Issue
<1>2. t \in UnitOfWork /\ WritesItsFamily(t) /\ FoundItsRow(t)
      /\ ReservedItsProof(t) /\ t.proofs \cap reserved = {}
      /\ \A v \in Worker \ {w} : tx[v].proofs \cap t.proofs = {}
  BY UnitFacts
<1>3. /\ ~Unlocked(t) /\ t.step \in RotationStep /\ OfToken(t)
      /\ t.kind = "refresh" /\ "commit" \in Step
  BY <1>1, <1>2 DEF Unlocked, RotationStep, Step, OfToken, FoundItsRow
<1>4. t.row \in RefreshRow
  BY <1>2, <1>3 DEF FoundItsRow
<1>5. g \in Nat
  BY <1>4 DEF RefreshRow
<1> HIDE DEF g
<1>6. /\ u \in UnitOfWork /\ SameRequest(u, t) /\ u.step = "commit"
      /\ u.row = t.row /\ u.view = t.view /\ u.wrote = t.wrote
      /\ u.locks = t.locks /\ u.proofs = t.proofs /\ u.made = g
  BY ZenonT(60), <1>2, <1>3, <1>5, HasMade
<1> HIDE DEF u
<1>7. UNCHANGED <<vars, reserved, issuedFor>> /\ requests' \in Nat
  BY <1>1 DEF NothingStored, StoreInv
<1>8. WritesItsFamily(u)
  BY <1>2, <1>6 DEF WritesItsFamily, Unlocked
<1>9. FoundItsRow(u)
  BY <1>1, <1>2, <1>3, <1>6 DEF FoundItsRow, Unlocked, OfToken, RotationStep,
                              SameRequest
<1>10. ReservedItsProof(u)
  BY <1>2, <1>3, <1>6 DEF ReservedItsProof, ProofId, SameRequest
<1> QED BY <1>1, <1>2, <1>6, <1>7, <1>8, <1>9, <1>10, Local

LEMMA EndSessionKeeps ==
  ASSUME NEW w \in Worker, StoreInv, EndSession(w)
  PROVE  StoreInv'
<1> DEFINE t == tx[w]
           seen == Seen(w)
           db == [session |-> "ended", refresh |-> seen.refresh,
                  access |-> seen.access]
           next == IF t.kind = "select" THEN "commit" ELSE "endTokens"
<1>1. t.step = "endSession"
  BY DEF EndSession
<1>2. /\ ~Unlocked(t) /\ t.step # "commit"
      /\ "commit" \in Step /\ "commit" \notin RotationStep
      /\ next \in Step \ RotationStep /\ next \notin {"idle", "find", "reserve"}
      /\ next \notin {"claimRetry", "revokeSuccessor"}
  BY <1>1 DEF Unlocked, RotationStep, Step
<1>3. CASE Targets(w) = {}
  <2>1. Goto(w, "commit")
    BY <1>3 DEF EndSession
  <2> QED BY <1>2, <2>1, GoesOn
<1>4. CASE Targets(w) # {}
  <2>1. /\ seen \in Family
        /\ Linked(seen.refresh) /\ seen.access \in Seq(AccessRow)
        /\ seen = [session |-> seen.session, refresh |-> seen.refresh,
                   access |-> seen.access]
    BY SeenFamily
  <2>2. db \in Family
    BY <2>1, TableFamily, FamilyTable
  <2>3. Write(w, [seen EXCEPT !.session = "ended"], next)
    BY <1>4 DEF EndSession
  <2>4. [seen EXCEPT !.session = "ended"] = db
    BY <2>1
  <2>5. Targets(w) \subseteq {SessionDoc}
    BY <1>1 DEF Targets
  <2>6. /\ Len(db.refresh) = Len(seen.refresh) /\ db.session = "ended"
        /\ Write(w, db, next)
    BY <2>3, <2>4
  <2> HIDE DEF seen, db, next
  <2> QED BY <1>2, <2>2, <2>5, <2>6, WritesOn DEF seen
<1> QED BY <1>3, <1>4

LEMMA EndTokensKeeps ==
  ASSUME NEW w \in Worker, StoreInv, EndTokens(w)
  PROVE  StoreInv'
<1> DEFINE t == tx[w]
           seen == Seen(w)
           db == [session |-> seen.session, refresh |-> RevokeAll(seen.refresh),
                  access |-> RevokeAll(seen.access)]
<1>1. t.step = "endTokens"
  BY DEF EndTokens
<1>2. /\ ~Unlocked(t) /\ t.step # "commit"
      /\ "commit" \in Step /\ "commit" \notin RotationStep
  BY <1>1 DEF Unlocked, RotationStep, Step
<1>3. /\ seen \in Family /\ DOMAIN seen.access = DOMAIN seen.refresh
      /\ Linked(seen.refresh) /\ seen.access \in Seq(AccessRow)
      /\ seen = [session |-> seen.session, refresh |-> seen.refresh,
                 access |-> seen.access]
      /\ SessionDoc \in t.wrote => seen.session = "ended"
  BY SeenFamily
<1>4. db \in Family /\ Len(db.refresh) = Len(seen.refresh)
  <2> HIDE DEF seen
  <2>1. /\ Linked(RevokeAll(seen.refresh))
        /\ Len(RevokeAll(seen.refresh)) = Len(seen.refresh)
    BY <1>3, RevokesAll
  <2>2. /\ RevokeAll(seen.access) \in Seq(AccessRow)
        /\ Len(RevokeAll(seen.access)) = Len(seen.access)
    BY <1>3, RevokeAllAccess
  <2>3. Len(seen.refresh) = Len(seen.access)
        /\ seen.session \in {"none", "live", "ended"}
    BY <1>3, FamilyTable
  <2> QED BY <2>1, <2>2, <2>3, TableFamily
<1>5. Write(w, db, "commit")
  <2>1. Write(w, [seen EXCEPT !.refresh = RevokeAll(@), !.access = RevokeAll(@)],
              "commit")
    BY DEF EndTokens
  <2> HIDE DEF seen
  <2>2. [seen EXCEPT !.refresh = RevokeAll(@), !.access = RevokeAll(@)] = db
    <3>1. seen = [session |-> seen.session, refresh |-> seen.refresh,
                  access |-> seen.access]
      BY <1>3
    <3>2. \A x, y : [seen EXCEPT !.refresh = x, !.access = y]
                     = [session |-> seen.session, refresh |-> x, access |-> y]
      BY ZenonT(60), <3>1, BothTables
    <3> QED BY <3>2
  <2> QED BY <2>1, <2>2
<1>6. Targets(w) = TokenDocs(seen)
  BY <1>1 DEF Targets
<1>7. TokenDocs(db) = TokenDocs(seen)
  <2>1. DOMAIN db.refresh = DOMAIN seen.refresh /\ DOMAIN db.access = DOMAIN seen.access
    BY <1>3 DEF RevokeAll
  <2> QED BY <2>1 DEF TokenDocs
<1>8. SessionDoc \in t.wrote \cup Targets(w) => db.session = "ended"
  BY <1>3, <1>6, DocsDiffer DEF TokenDocs
<1> HIDE DEF db
<1> QED BY <1>2, <1>4, <1>5, <1>6, <1>7, <1>8, WritesOn

LEMMA StartKeeps ==
  ASSUME NEW w \in Worker, NEW kind \in Kind, NEW i \in Nat, NEW n \in Nat,
         StoreInv, Start(w, kind, i, n),
         IF kind \in {"refresh", "revoke"} THEN i \in Pair ELSE i = None
  PROVE  StoreInv'
<1> DEFINE u == [Idle EXCEPT !.step = "find", !.kind = kind, !.token = i,
                             !.proof = n, !.at = clock, !.run = 1]
<1>1. /\ session # "none" /\ tx' = [tx EXCEPT ![w] = u]
      /\ requests' = requests + 1 /\ UNCHANGED <<vars, reserved, issuedFor>>
  BY DEF Start
<1>2. clock \in Nat /\ 1 <= clock /\ requests \in Nat /\ Len(refresh) \in Nat
  BY DEF StoreInv, TypeOK, Time
<1>3. "find" \in Step /\ 1 \in 0..MaxAttempts
  BY StoresAssumption DEF Step
<1>4. PICK t \in UnitOfWork : t = Idle
  BY IdleUnit
<1>5. /\ u \in UnitOfWork /\ u.step = "find" /\ u.kind = kind /\ u.token = i
      /\ u.at = clock /\ u.wrote = {} /\ u.proofs = {} /\ ~u.locks
      /\ u.made = None /\ u.view = NoTables
  <2>1. /\ t.wrote = {} /\ t.proofs = {} /\ ~t.locks /\ t.made = None
        /\ t.view = NoTables
    BY <1>4 DEF Idle
  <2>2. u = [t EXCEPT !.step = "find", !.kind = kind, !.token = i,
                      !.proof = n, !.at = clock, !.run = 1]
    BY <1>4
  <2> HIDE DEF u
  <2> QED BY <1>2, <1>3, <2>1, <2>2 DEF UnitOfWork
<1> HIDE DEF u
<1>6. WritesItsFamily(u)
  BY <1>2, <1>5 DEF WritesItsFamily, NoTables
<1>7. FoundItsRow(u)
  BY <1>1, <1>2, <1>5 DEF FoundItsRow, Unlocked, OfToken, RotationStep
<1>8. ReservedItsProof(u)
  BY <1>5 DEF ReservedItsProof, RotationStep
<1>9. requests' \in Nat
  BY <1>1, <1>2
<1> QED BY <1>1, <1>5, <1>6, <1>7, <1>8, <1>9, Local

LEMMA FindKeeps ==
  ASSUME NEW w \in Worker, StoreInv, Find(w)
  PROVE  StoreInv'
<1> DEFINE t == tx[w]
           row == IF t.token = None THEN <<>> ELSE refresh[t.token]
           step == CASE t.kind = "refresh" -> AfterFind(t, row)
                     [] t.kind = "revoke" -> IF bound THEN "reserve"
                                             ELSE "endSession"
                     [] OTHER -> IF session = "live" THEN "endSession"
                                 ELSE "leave"
           locks == Backend = "postgres"
           u == [t EXCEPT !.view = Committed, !.row = row, !.locks = locks,
                          !.step = step]
<1>1. t.step = "find" /\ t.step # "idle"
  BY DEF Find
<1>2. /\ t \in UnitOfWork /\ WritesItsFamily(t) /\ FoundItsRow(t)
      /\ ReservedItsProof(t)
      /\ Committed \in Family /\ Committed.refresh = refresh
      /\ Committed.access = access
      /\ Len(refresh) \in Nat /\ Pair = 1..Len(refresh)
      /\ \A k \in Pair : refresh[k] \in RefreshRow
                      /\ refresh[k].next \in 0..Len(refresh)
  <2>1. \A k \in DOMAIN Committed.refresh :
          Committed.refresh[k].next \in 0..Len(Committed.refresh)
    BY DEF StoreInv, Family
  <2>2. refresh \in Seq(RefreshRow)
    BY DEF StoreInv, TypeOK
  <2> QED BY <2>1, <2>2, UnitFacts DEF Pair
<1>3. CASE Refuse(w) \/ Leave(w)
  BY <1>1, <1>3, Refuses DEF Refuse, Leave
<1>4. CASE ~(Refuse(w) \/ Leave(w))
  <2>1. tx' = [tx EXCEPT ![w] = u] /\ NothingStored /\ step # "leave"
    BY <1>4 DEF Find
  <2>2. /\ step \in {"claimRefresh", "reserve", "endSession"}
        /\ step = "claimRefresh" => t.kind = "refresh" /\ ~bound
        /\ step = "reserve" => OfToken(t)
    <3>1. CASE t.kind = "refresh"
      BY <2>1, <3>1 DEF AfterFind, OfToken
    <3>2. CASE t.kind = "revoke"
      BY <2>1, <3>2 DEF OfToken
    <3>3. CASE t.kind \notin {"refresh", "revoke"}
      BY <2>1, <3>3
    <3> QED BY <3>1, <3>2, <3>3
  <2>3. OfToken(t) => t.token \in Pair /\ row = refresh[t.token]
    BY <1>1, <1>2 DEF FoundItsRow, None
  <2>4. ~OfToken(t) => t.token = None /\ row = <<>>
    BY <1>1, <1>2 DEF FoundItsRow
  <2>5. row \in RefreshRow \cup {<<>>} /\ step \in Step
    BY <1>2, <2>2, <2>3, <2>4 DEF Step, RotationStep
  <2>6. locks \in BOOLEAN
    OBVIOUS
  <2> HIDE DEF row, step, locks
  <2>7. /\ u \in UnitOfWork /\ u.step = step /\ u.row = row
        /\ u.view = Committed /\ u.wrote = t.wrote /\ u.proofs = t.proofs
        /\ u.made = t.made /\ u.kind = t.kind /\ u.token = t.token /\ u.at = t.at
    BY <1>2, <2>5, <2>6 DEF UnitOfWork
  <2> HIDE DEF u
  <2>8. t.wrote = {} /\ t.proofs = {} /\ t.made = None
    BY <1>1, <1>2 DEF WritesItsFamily, FoundItsRow, Unlocked
  <2>9. WritesItsFamily(u)
    BY <1>2, <2>2, <2>7, <2>8 DEF WritesItsFamily, Unlocked
  <2>10. FoundItsRow(u)
    <3>1. u.step # "idle" => session # "none" /\ u.at \in 1..clock
      BY <1>1, <1>2, <2>7 DEF FoundItsRow
    <3>2. IF OfToken(u) THEN u.token \in Pair ELSE u.token = None
      BY <2>3, <2>4, <2>7 DEF OfToken
    <3>3. OfToken(u) => /\ u.token \in DOMAIN u.view.refresh
                        /\ u.row \in RefreshRow
                        /\ u.row.next \in 0..Len(u.view.refresh)
      BY <1>2, <2>3, <2>7 DEF OfToken, Pair
    <3>4. u.step = "reserve" => OfToken(u)
      BY <2>2, <2>7 DEF OfToken
    <3>5. u.step \in RotationStep \/ u.made # None => u.kind = "refresh"
      BY <2>2, <2>7, <2>8 DEF RotationStep
    <3>6. u.step \notin {"claimRetry", "revokeSuccessor"} /\ u.made = None
      BY <2>2, <2>7, <2>8
    <3> QED BY <3>1, <3>2, <3>3, <3>4, <3>5, <3>6 DEF FoundItsRow
  <2>11. ReservedItsProof(u)
    BY <2>2, <2>7, <2>8 DEF ReservedItsProof, RotationStep
  <2>12. UNCHANGED <<vars, reserved, issuedFor>> /\ requests' \in Nat
    BY <2>1 DEF NothingStored, StoreInv
  <2> QED BY <2>1, <2>7, <2>8, <2>9, <2>10, <2>11, <2>12, Local
<1> QED BY <1>3, <1>4

LEMMA ReserveKeeps ==
  ASSUME NEW w \in Worker, StoreInv, Reserve(w)
  PROVE  StoreInv'
<1> DEFINE t == tx[w]
           step == IF t.kind = "revoke" THEN "endSession"
                   ELSE IF ~t.row.spent THEN "claimRefresh"
                   ELSE IF InsideRetryWindow(t.row, t.at) THEN "successor"
                   ELSE "endSession"
           id == ProofId(t)
           u == [t EXCEPT !.proofs = {id}, !.step = step]
<1>1. t.step = "reserve" /\ t.step # "idle"
  BY DEF Reserve
<1>2. /\ t \in UnitOfWork /\ WritesItsFamily(t) /\ FoundItsRow(t)
      /\ \A v \in Worker \ {w} : tx[v] \in UnitOfWork
  BY UnitFacts
<1>3. CASE Refuse(w) \/ Leave(w)
  BY <1>1, <1>3, Refuses DEF Refuse, Leave
<1>4. CASE ~(Refuse(w) \/ Leave(w))
  <2>1. /\ tx' = [tx EXCEPT ![w] = u] /\ NothingStored
        /\ id \notin reserved /\ ~Waits(w) /\ ~Conflicts(w)
    BY <1>4 DEF Reserve, ProofReplayed
  <2>2. \A v \in Worker \ {w} : id \notin tx[v].proofs
    BY <1>1, <2>1, StoresAssumption DEF Waits, Conflicts
  <2>3. /\ step \in {"endSession", "claimRefresh", "successor"}
        /\ step \in {"claimRefresh", "successor"} => t.kind = "refresh"
    BY <1>1, <1>2 DEF FoundItsRow, OfToken
  <2>4. step \in Step /\ {id} \in SUBSET ProofIdSet
    BY <1>2, <2>3, UnitFields DEF Step, RotationStep
  <2> HIDE DEF step
  <2>5. ProofId(u) = id
    BY <1>2, <2>4 DEF ProofId, UnitOfWork
  <2> HIDE DEF id
  <2>6. /\ u \in UnitOfWork /\ u.step = step /\ u.proofs = {id}
        /\ SameRequest(u, t) /\ u.row = t.row /\ u.view = t.view
        /\ u.wrote = t.wrote /\ u.made = t.made
    BY <1>2, <2>4 DEF UnitOfWork, SameRequest
  <2> HIDE DEF u
  <2>7. WritesItsFamily(u)
    BY <1>2, <2>3, <2>6 DEF WritesItsFamily, Unlocked
  <2>8. FoundItsRow(u)
    BY <1>1, <1>2, <2>3, <2>6
       DEF FoundItsRow, Unlocked, OfToken, RotationStep, SameRequest
  <2>9. ReservedItsProof(u)
    BY <2>5, <2>6 DEF ReservedItsProof
  <2>10. UNCHANGED <<vars, reserved, issuedFor>> /\ requests' \in Nat
    BY <2>1 DEF NothingStored, StoreInv
  <2>11. u.proofs \cap reserved = {}
    BY <2>1, <2>6
  <2>12. \A v \in Worker \ {w} : tx[v].proofs \cap u.proofs = {}
    BY <2>2, <2>6
  <2> QED BY <2>1, <2>6, <2>7, <2>8, <2>9, <2>10, <2>11, <2>12, Local
<1> QED BY <1>3, <1>4

-----------------------------------------------------------------------------
(* Steps that commit something. *)

(* The tables once a unit of work is committed are a family again.         *)
LEMMA AfterFamily ==
  ASSUME NEW w \in Worker, NEW t, StoreInv, t = tx[w], ~Unlocked(t)
  PROVE  /\ After(w) \in Family
         /\ Len(After(w).refresh)
              = IF t.made = None THEN Len(refresh) ELSE Len(refresh) + 1
         /\ After(w).session \in {session, "ended"}
<1> DEFINE db == Overlay(Committed, t.view, t.wrote)
           next == Len(db.refresh) + 1
           issued == IssuedRefresh(db.refresh, t.made, absolute, t.token)
           linked == IF bound THEN LinkPair(issued, t.token, next) ELSE issued
           tokens == IssuedAccess(db.access, t.made, t.at, absolute)
<1>1. /\ t \in UnitOfWork /\ WritesItsFamily(t) /\ FoundItsRow(t)
      /\ Committed \in Family /\ Committed.refresh = refresh
      /\ Committed.session = session
      /\ Len(refresh) \in Nat /\ Pair = 1..Len(refresh)
  BY UnitFacts
<1>2. /\ t.view \in Family /\ t.made \in Nat /\ t.at \in Nat /\ t.token \in Nat
      /\ absolute \in Nat
  BY <1>1, UnitFields DEF StoreInv, TypeOK, Time
<1>3. /\ db \in Family /\ Len(db.refresh) = Len(refresh)
      /\ db.session \in {session, "ended"}
  <2>1. /\ db \in Family /\ Len(db.refresh) = Len(refresh)
        /\ db.session = IF SessionDoc \in t.wrote THEN t.view.session
                        ELSE Committed.session
    BY <1>1, <1>2, Overlays DEF WritesItsFamily
  <2> QED BY <1>1, <2>1 DEF WritesItsFamily
<1> HIDE DEF db
<1>4. /\ Linked(db.refresh) /\ db.access \in Seq(AccessRow)
      /\ Len(db.refresh) = Len(db.access)
      /\ db.session \in {"none", "live", "ended"}
      /\ DOMAIN db.refresh = 1..Len(refresh)
  BY <1>3, FamilyTable
<1>5. CASE t.made = None
  BY <1>3, <1>5 DEF After, db
<1>6. CASE t.made # None
  <2>1. OfToken(t) /\ t.token \in 1..Len(refresh)
    BY <1>1, <1>6 DEF FoundItsRow, OfToken
  <2>2. /\ NewRefresh(t.made, absolute, t.token) \in RefreshRow
        /\ NewRefresh(t.made, absolute, t.token).next = None
        /\ NewAccess(t.made, t.at, absolute) \in AccessRow
    BY <1>2, NewRows DEF NewRefresh
  <2>3. /\ Linked(issued) /\ Len(issued) = Len(refresh) + 1
        /\ DOMAIN issued = DOMAIN db.refresh \cup {Len(refresh) + 1}
    BY <1>3, <1>4, <2>2, Appends DEF IssuedRefresh
  <2>4. Linked(linked) /\ Len(linked) = Len(refresh) + 1
    <3>1. next = Len(refresh) + 1
      BY <1>3
    <3> HIDE DEF issued, next
    <3>2. /\ t.token \in DOMAIN issued /\ next \in 0..Len(issued)
      BY <1>1, <1>4, <2>1, <2>3, <3>1
    <3> QED BY <2>3, <3>2, Links
  <2>5. tokens \in Seq(AccessRow) /\ Len(tokens) = Len(refresh) + 1
    BY <1>3, <1>4, <2>2 DEF IssuedAccess
  <2>6. After(w) = [session |-> db.session, refresh |-> linked, access |-> tokens]
    BY <1>6 DEF After, db
  <2> HIDE DEF linked, tokens
  <2>7. After(w) \in Family
    BY <1>4, <2>4, <2>5, <2>6, TableFamily
  <2> QED BY <1>3, <1>6, <2>4, <2>6, <2>7
<1> QED BY <1>5, <1>6

(* Two versions of a unit of work that differ only in what is stale.       *)
SameWork(u, t) ==
  /\ u.step = t.step /\ u.kind = t.kind /\ u.token = t.token
  /\ u.proof = t.proof /\ u.at = t.at /\ u.run = t.run /\ u.row = t.row
  /\ u.view = t.view /\ u.wrote = t.wrote /\ u.locks = t.locks
  /\ u.proofs = t.proofs /\ u.made = t.made /\ u.stored = t.stored

LEMMA Notifies ==
  ASSUME NEW t \in UnitOfWork, NEW docs \in SUBSET Docs
  PROVE  LET u == [t EXCEPT !.stale = @ \cup docs]
         IN  u \in UnitOfWork /\ SameWork(u, t)
BY DEF UnitOfWork, SameWork

LEMMA NotifiesAll ==
  ASSUME NEW docs \in SUBSET Docs, NEW v \in Worker, tx[v] \in UnitOfWork
  PROVE  /\ Notify(tx, docs)[v] \in UnitOfWork
         /\ SameWork(Notify(tx, docs)[v], tx[v])
<1> DEFINE u == [tx[v] EXCEPT !.stale = @ \cup docs]
<1>1. u \in UnitOfWork /\ SameWork(u, tx[v])
  BY Notifies
<1>2. Notify(tx, docs)[v] \in {u, tx[v]}
  BY DEF Notify
<1> HIDE DEF u
<1> QED BY <1>1, <1>2 DEF SameWork

(* The tables grow; every unit of work goes on, or is done.                *)
LEMMA Grows ==
  ASSUME StoreInv,
         (Committed \in Family)', Len(refresh) <= Len(refresh'),
         clock' \in Nat, clock <= clock',
         session # "none" => session' # "none",
         Open # {} => bound' = bound,
         DOMAIN tx' = Worker, tx' = [v \in Worker |-> tx'[v]],
         \A v \in Worker : \/ tx'[v] = Idle
                           \/ tx'[v] \in UnitOfWork /\ SameWork(tx'[v], tx[v])
  PROVE  /\ tx' \in [Worker -> UnitOfWork]
         /\ (\A v \in Worker : Sound(tx[v]))'
<1>1. tx' \in [Worker -> UnitOfWork]
  BY IdleUnit
<1>2. /\ Len(refresh) \in Nat /\ Pair = 1..Len(refresh) /\ clock \in Nat
      /\ Len(refresh') \in Nat /\ Pair' = 1..Len(refresh')
  <2>1. Committed'.refresh = refresh' /\ Committed' \in Family
    BY DEF Committed
  <2>2. Len(refresh') \in Nat /\ DOMAIN refresh' = 1..Len(refresh')
    BY <2>1, FamilyTable
  <2> QED BY <2>2 DEF StoreInv, TypeOK, Pair, Time
<1>3. ASSUME NEW t \in UnitOfWork, Sound(t), t.step # "idle" => bound' = bound
      PROVE  WritesItsFamily(t)' /\ FoundItsRow(t)' /\ ReservedItsProof(t)'
  BY <1>2, <1>3, StaysSound
<1>4. ASSUME NEW t \in UnitOfWork, NEW u \in UnitOfWork, SameWork(u, t),
             WritesItsFamily(t)', FoundItsRow(t)', ReservedItsProof(t)'
      PROVE  WritesItsFamily(u)' /\ FoundItsRow(u)' /\ ReservedItsProof(u)'
  <2>1. WritesItsFamily(u)'
    BY <1>4 DEF SameWork, WritesItsFamily, Unlocked
  <2>2. FoundItsRow(u)'
    BY <1>4 DEF SameWork, FoundItsRow, OfToken, Unlocked
  <2>3. ReservedItsProof(u)'
    BY <1>4 DEF SameWork, ReservedItsProof, ProofId
  <2> QED BY <2>1, <2>2, <2>3
<1>5. WritesItsFamily(Idle)' /\ FoundItsRow(Idle)' /\ ReservedItsProof(Idle)'
  BY <1>2 DEF Idle, NoTables, WritesItsFamily, FoundItsRow, ReservedItsProof,
              Unlocked, OfToken, RotationStep, SessionDoc
<1>6. \A v \in Worker : \E u \in UnitOfWork :
           /\ tx'[v] = u
           /\ WritesItsFamily(u)' /\ FoundItsRow(u)' /\ ReservedItsProof(u)'
  <2> SUFFICES ASSUME NEW v \in Worker
               PROVE  \E u \in UnitOfWork :
                 /\ tx'[v] = u
                 /\ WritesItsFamily(u)' /\ FoundItsRow(u)' /\ ReservedItsProof(u)'
    OBVIOUS
  <2>1. CASE tx'[v] = Idle
    BY <1>5, <2>1, IdleUnit
  <2>2. CASE tx'[v] # Idle
    <3>1. PICK t \in UnitOfWork : t = tx[v]
      BY DEF StoreInv
    <3>2. PICK u \in UnitOfWork : u = tx'[v] /\ SameWork(u, t)
      BY <2>2, <3>1
    <3>3. Sound(t) /\ (t.step # "idle" => bound' = bound)
      BY <3>1 DEF StoreInv, Open
    <3>4. WritesItsFamily(t)' /\ FoundItsRow(t)' /\ ReservedItsProof(t)'
      BY <1>3, <3>3
    <3>5. WritesItsFamily(u)' /\ FoundItsRow(u)' /\ ReservedItsProof(u)'
      BY <1>4, <3>2, <3>4
    <3> QED BY <3>2, <3>5
  <2> QED BY <2>1, <2>2
<1> QED BY <1>1, <1>6, AllSound

LEMMA StoredKeeps ==
  ASSUME NEW w \in Worker, StoreInv, tx[w].step = "commit", Stored(w),
         tx' = [Notify(tx, tx[w].wrote) EXCEPT ![w] = Idle]
  PROVE  StoreInv'
<1> DEFINE t == tx[w]
<1>1. /\ t \in UnitOfWork /\ FoundItsRow(t) /\ ReservedItsProof(t)
      /\ t.proofs \cap reserved = {}
      /\ \A v \in Worker \ {w} : tx[v] \in UnitOfWork
                              /\ tx[v].proofs \cap t.proofs = {}
      /\ Len(refresh) \in Nat /\ Pair = 1..Len(refresh)
  BY UnitFacts
<1>2. ~Unlocked(t) /\ t.step # "idle" /\ session # "none"
  BY <1>1 DEF Unlocked, FoundItsRow
<1>3. /\ After(w) \in Family
      /\ Len(After(w).refresh)
           = IF t.made = None THEN Len(refresh) ELSE Len(refresh) + 1
      /\ After(w).session \in {session, "ended"}
  BY <1>2, AfterFamily
<1>4. /\ session' = After(w).session /\ refresh' = After(w).refresh
      /\ access' = After(w).access /\ reserved' = reserved \cup t.proofs
      /\ issuedFor' = (IF t.made = None THEN issuedFor
                       ELSE Append(issuedFor, ProofId(t)))
      /\ UNCHANGED <<clock, code, bound, absolute, authority, requests>>
  BY DEF Stored
<1>5. (Committed \in Family)'
  <2>1. Committed' = After(w)
    BY <1>3, <1>4, FamilyTable DEF Committed
  <2> QED BY <1>3, <2>1
<1>6. /\ refresh' \in Seq(RefreshRow) /\ access' \in Seq(AccessRow)
      /\ Len(refresh') = Len(access') /\ Len(refresh') \in Nat
      /\ session' \in {"none", "live", "ended"}
  BY <1>3, <1>4, FamilyTable DEF Linked
<1>7. /\ Len(refresh) <= Len(refresh') /\ session' # "none"
      /\ Len(refresh') = (IF t.made = None THEN Len(refresh) ELSE Len(refresh) + 1)
  BY <1>1, <1>2, <1>3, <1>4
<1>8. TypeOK' /\ (1 <= clock)'
  BY <1>4, <1>6 DEF StoreInv, TypeOK
<1>9. SessionOwnsPairs'
  <2>1. refresh # <<>> /\ code # "unspent" /\ refresh \in Seq(RefreshRow)
    BY <1>2 DEF StoreInv, SessionOwnsPairs, TypeOK
  <2>2. Len(refresh) # 0
    BY <2>1
  <2>3. refresh' # <<>>
    BY <1>1, <1>7, <2>2
  <2> QED BY <1>4, <1>7, <2>1, <2>3 DEF SessionOwnsPairs
<1>10. /\ DOMAIN tx' = Worker /\ tx' = [v \in Worker |-> tx'[v]]
       /\ \A v \in Worker : \/ v = w /\ tx'[v] = Idle
                            \/ v # w /\ tx'[v] \in UnitOfWork
                                     /\ SameWork(tx'[v], tx[v])
  <2> DEFINE told == Notify(tx, t.wrote)
  <2>1. t.wrote \in SUBSET Docs
    BY <1>1, UnitFields
  <2>2. \A v \in Worker : told[v] \in UnitOfWork /\ SameWork(told[v], tx[v])
    BY <1>1, <2>1, NotifiesAll
  <2>3. told = [v \in Worker |-> told[v]]
    BY DEF Notify
  <2> HIDE DEF told
  <2>4. tx' = [told EXCEPT ![w] = Idle]
    BY DEF told
  <2>5. /\ DOMAIN tx' = Worker /\ tx' = [v \in Worker |-> tx'[v]]
        /\ \A v \in Worker : tx'[v] = IF v = w THEN Idle ELSE told[v]
    BY <2>3, <2>4
  <2> QED BY <2>2, <2>5
<1>11. clock' \in Nat /\ clock <= clock' /\ bound' = bound
  BY <1>4 DEF StoreInv, TypeOK, Time
<1>12. /\ tx' \in [Worker -> UnitOfWork]
       /\ (\A v \in Worker : Sound(tx[v]))'
  BY <1>5, <1>7, <1>10, <1>11, Grows
<1>13. t.proofs \in SUBSET ProofIdSet /\ ProofId(t) \in ProofIdSet
  BY <1>1, UnitFields
<1>14. ProofsApart'
  <2>1. \A v \in Worker : tx'[v].proofs = IF v = w THEN {} ELSE tx[v].proofs
    BY <1>10, IdleUnit DEF SameWork
  <2>2. ProofsApart
    BY DEF StoreInv
  <2>3. \A v \in Worker \ {w} : tx[v].proofs \cap reserved' = {}
    BY <1>1, <1>4, <2>2 DEF ProofsApart
  <2>4. ASSUME NEW v \in Worker
        PROVE  /\ tx'[v].proofs \cap reserved' = {}
               /\ \A x \in Worker \ {v} : tx'[x].proofs \cap tx'[v].proofs = {}
    BY <2>1, <2>2, <2>3 DEF ProofsApart
  <2> QED BY <2>4 DEF ProofsApart
<1>15. (reserved \subseteq ProofIdSet)' /\ (requests \in Nat)'
  BY <1>4, <1>13 DEF StoreInv
<1>16. /\ AnswersReserved' /\ OnePairPerProof'
       /\ (issuedFor \in Seq(ProofIdSet \cup {FirstAnswer}))'
       /\ (Len(issuedFor) = Len(refresh))'
  <2>1. /\ issuedFor \in Seq(ProofIdSet \cup {FirstAnswer})
        /\ Len(issuedFor) = Len(refresh)
        /\ AnswersReserved /\ OnePairPerProof
    BY DEF StoreInv
  <2>2. CASE t.made = None
    <3>1. issuedFor' = issuedFor /\ Len(refresh') = Len(refresh)
      BY <1>4, <1>7, <2>2
    <3> QED BY <1>4, <2>1, <3>1 DEF AnswersReserved, OnePairPerProof
  <2>3. CASE t.made # None
    <3> DEFINE id == ProofId(t)
               n == Len(issuedFor)
    <3>1. issuedFor' = Append(issuedFor, id) /\ Len(refresh') = n + 1 /\ n \in Nat
      BY <1>1, <1>4, <1>7, <2>1, <2>3
    <3>2. /\ Len(issuedFor') = n + 1 /\ DOMAIN issuedFor' = 1..(n + 1)
          /\ issuedFor' \in Seq(ProofIdSet \cup {FirstAnswer})
          /\ \A k \in 1..n : issuedFor'[k] = issuedFor[k]
          /\ issuedFor'[n + 1] = id
          /\ DOMAIN issuedFor = 1..n
      BY <1>13, <2>1, <3>1
    <3>3. bound => id \in t.proofs
      BY <1>1, <2>3 DEF ReservedItsProof
    <3>4. id # FirstAnswer
      BY <1>13 DEF ProofIdSet, Kind, FirstAnswer
    <3>5. bound => \A k \in 1..n : issuedFor[k] # id
      BY <1>1, <2>1, <3>2, <3>3, <3>4 DEF AnswersReserved
    <3> HIDE DEF id, n
    <3>6. AnswersReserved'
      <4> SUFFICES ASSUME bound, NEW k \in 1..(n + 1)
                   PROVE  issuedFor'[k] \in reserved' \cup {FirstAnswer}
        BY <1>4, <3>2 DEF AnswersReserved
      <4>1. CASE k \in 1..n
        BY <1>4, <2>1, <3>2, <4>1 DEF AnswersReserved
      <4>2. CASE k = n + 1
        BY <1>4, <3>2, <3>3, <4>2
      <4>3. k \in 1..n \/ k = n + 1
        BY <3>1
      <4> QED BY <4>1, <4>2, <4>3
    <3>7. OnePairPerProof'
      <4> SUFFICES ASSUME bound, NEW j \in 1..(n + 1), NEW k \in 1..(n + 1),
                          issuedFor'[j] = issuedFor'[k]
                   PROVE  j = k
        BY <1>4, <3>2 DEF OnePairPerProof
      <4>1. CASE j \in 1..n /\ k \in 1..n
        BY <2>1, <3>2, <4>1 DEF OnePairPerProof
      <4>2. CASE j = n + 1 \/ k = n + 1
        BY <3>1, <3>2, <3>5, <4>2
      <4> QED BY <3>1, <4>1, <4>2
    <3> QED BY <3>1, <3>2, <3>6, <3>7
  <2> QED BY <2>2, <2>3
<1> QED BY <1>5, <1>8, <1>9, <1>12, <1>14, <1>15, <1>16 DEF StoreInv

LEMMA SignKeeps ==
  ASSUME NEW withProof \in BOOLEAN, StoreInv, Sign(withProof)
  PROVE  StoreInv'
<1>1. /\ code = "unspent" /\ code' = "spent" /\ session' = "live"
      /\ bound' = withProof /\ absolute' = clock + AbsoluteLifetime
      /\ refresh' = IssuedRefresh(refresh, 1, absolute', None)
      /\ access' = IssuedAccess(access, 1, clock, absolute')
      /\ issuedFor' = <<FirstAnswer>>
      /\ UNCHANGED <<clock, authority, tx, reserved, requests>>
  BY DEF Sign, Exchange, FirstAnswer
<1>2. /\ session = "none" /\ refresh = <<>>
  BY <1>1 DEF StoreInv, SessionOwnsPairs
<1>3. access = <<>> /\ clock \in Nat /\ absolute' \in Nat
  BY <1>1, <1>2, LifetimeAssumption DEF StoreInv, TypeOK, Time
<1>4. /\ NewRefresh(1, absolute', None) \in RefreshRow
      /\ NewRefresh(1, absolute', None).next = None
      /\ NewAccess(1, clock, absolute') \in AccessRow
  <2>1. /\ NewRefresh(1, absolute', None) \in RefreshRow
        /\ NewAccess(1, clock, absolute') \in AccessRow
    BY <1>3, NewRows DEF None
  <2> QED BY <2>1 DEF NewRefresh
<1>5. /\ refresh' \in Seq(RefreshRow) /\ access' \in Seq(AccessRow)
      /\ Len(refresh') = 1 /\ Len(access') = 1 /\ DOMAIN refresh' = {1}
      /\ refresh'[1].next = None /\ refresh' # <<>>
  BY <1>1, <1>2, <1>3, <1>4 DEF IssuedRefresh, IssuedAccess
<1>6. (Committed \in Family)'
  <2>1. Linked(refresh')
    BY <1>5 DEF Linked, None
  <2> QED BY <1>1, <1>5, <2>1, TableFamily DEF Committed
<1>7. TypeOK' /\ SessionOwnsPairs' /\ (1 <= clock)'
  BY <1>1, <1>3, <1>5 DEF StoreInv, TypeOK, SessionOwnsPairs, Time
<1>8. Open = {}
  <2> SUFFICES ASSUME NEW v \in Worker PROVE tx[v].step = "idle"
    BY DEF Open
  <2>1. FoundItsRow(tx[v])
    BY UnitFacts
  <2> QED BY <1>2, <2>1 DEF FoundItsRow
<1>9. /\ tx' \in [Worker -> UnitOfWork]
      /\ (\A v \in Worker : Sound(tx[v]))'
  <2>1. tx \in [Worker -> UnitOfWork] /\ tx' = tx
    BY <1>1 DEF StoreInv
  <2>2. /\ DOMAIN tx' = Worker /\ tx' = [v \in Worker |-> tx'[v]]
        /\ \A v \in Worker : tx'[v] \in UnitOfWork /\ SameWork(tx'[v], tx[v])
    BY <2>1 DEF SameWork
  <2>3. /\ Len(refresh) <= Len(refresh') /\ clock' \in Nat /\ clock <= clock'
        /\ session' # "none"
    BY <1>1, <1>2, <1>3, <1>5
  <2> QED BY <1>6, <1>8, <2>2, <2>3, Grows
<1>10. ProofsApart' /\ (reserved \subseteq ProofIdSet)' /\ (requests \in Nat)'
  BY <1>1 DEF StoreInv, ProofsApart
<1>11. /\ AnswersReserved' /\ OnePairPerProof'
       /\ (issuedFor \in Seq(ProofIdSet \cup {FirstAnswer}))'
       /\ (Len(issuedFor) = Len(refresh))'
  <2>1. /\ issuedFor' \in Seq(ProofIdSet \cup {FirstAnswer})
        /\ Len(issuedFor') = 1 /\ DOMAIN issuedFor' = {1}
        /\ issuedFor'[1] = FirstAnswer
    BY <1>1
  <2> QED BY <1>5, <2>1 DEF AnswersReserved, OnePairPerProof
<1> QED BY <1>6, <1>7, <1>9, <1>10, <1>11 DEF StoreInv

LEMMA FirstUseKeeps ==
  ASSUME NEW i \in Pair, StoreInv, FirstUse(i)
  PROVE  StoreInv'
<1>1. /\ access' = MarkFirstUse(access, i)
      /\ tx' = Notify(tx, {AccessDoc(i)})
      /\ UNCHANGED <<clock, code, session, bound, absolute, authority, refresh,
                     reserved, issuedFor, requests>>
  BY DEF FirstUse, UseAccess
<1>2. /\ TypeOK /\ Committed \in Family /\ clock \in Nat
      /\ Len(refresh) \in Nat
      /\ Pair = 1..Len(refresh) /\ access \in Seq(AccessRow)
      /\ Len(access) = Len(refresh)
  BY DEF StoreInv, TypeOK, Pair, Time
<1>3. access' \in Seq(AccessRow) /\ Len(access') = Len(access)
  <2> DEFINE row == [access[i] EXCEPT !.firstUsed = TRUE]
  <2>1. i \in DOMAIN access /\ access[i] \in AccessRow
    BY <1>2
  <2>2. row \in AccessRow
    BY <2>1 DEF AccessRow
  <2>3. access' = [access EXCEPT ![i] = row]
    BY <1>1 DEF MarkFirstUse
  <2> HIDE DEF row
  <2> QED BY <1>2, <2>1, <2>2, <2>3, AccessSet
<1>4. (Committed \in Family)'
  <2>1. Committed.refresh = refresh /\ Committed.session = session
    BY DEF Committed
  <2>2. Linked(refresh) /\ session \in {"none", "live", "ended"}
    BY <1>2, <2>1, FamilyTable
  <2>3. Linked(refresh') /\ session' \in {"none", "live", "ended"}
        /\ Len(refresh') = Len(access')
    BY <1>1, <1>2, <1>3, <2>2 DEF Linked
  <2> QED BY <1>3, <2>3, TableFamily DEF Committed
<1>5. TypeOK' /\ SessionOwnsPairs' /\ (1 <= clock)'
  BY <1>1, <1>2, <1>3 DEF StoreInv, TypeOK, SessionOwnsPairs
<1>6. \A v \in Worker : tx'[v] \in UnitOfWork /\ SameWork(tx'[v], tx[v])
  <2>1. {AccessDoc(i)} \in SUBSET Docs
    BY <1>2 DEF AccessDoc, Docs
  <2>2. \A v \in Worker : tx[v] \in UnitOfWork
    BY DEF StoreInv
  <2> QED BY <1>1, <2>1, <2>2, NotifiesAll
<1>7. DOMAIN tx' = Worker /\ tx' = [v \in Worker |-> tx'[v]]
  BY <1>1 DEF Notify
<1>8. /\ tx' \in [Worker -> UnitOfWork]
      /\ (\A v \in Worker : Sound(tx[v]))'
  <2>1. /\ Len(refresh) <= Len(refresh') /\ clock' \in Nat /\ clock <= clock'
        /\ session' = session /\ bound' = bound
    BY <1>1, <1>2
  <2> QED BY <1>4, <1>6, <1>7, <2>1, Grows
<1>9. ProofsApart'
  <2>1. \A v \in Worker : tx'[v].proofs = tx[v].proofs
    BY <1>6 DEF SameWork
  <2> QED BY <1>1, <2>1 DEF StoreInv, ProofsApart
<1>10. /\ (reserved \subseteq ProofIdSet)' /\ (requests \in Nat)'
       /\ AnswersReserved' /\ OnePairPerProof'
       /\ (issuedFor \in Seq(ProofIdSet \cup {FirstAnswer}))'
       /\ (Len(issuedFor) = Len(refresh))'
  BY <1>1 DEF StoreInv, AnswersReserved, OnePairPerProof
<1> QED BY <1>4, <1>5, <1>8, <1>9, <1>10 DEF StoreInv

LEMMA AdvanceKeeps ==
  ASSUME StoreInv, Advance
  PROVE  StoreInv'
<1>1. /\ clock' = clock + 1
      /\ UNCHANGED <<code, session, bound, absolute, authority, refresh, access,
                     tx, reserved, issuedFor, requests>>
  BY DEF Advance, Tick
<1>2. clock \in Nat /\ 1 <= clock /\ Len(refresh) \in Nat
  BY DEF StoreInv, TypeOK, Time
<1>3. TypeOK' /\ SessionOwnsPairs' /\ (1 <= clock)' /\ (Committed \in Family)'
  BY <1>1, <1>2 DEF StoreInv, TypeOK, SessionOwnsPairs, Committed, Time
<1>4. /\ tx' \in [Worker -> UnitOfWork]
      /\ (\A v \in Worker : Sound(tx[v]))'
  <2>1. tx \in [Worker -> UnitOfWork] /\ tx' = tx
    BY <1>1 DEF StoreInv
  <2>2. /\ DOMAIN tx' = Worker /\ tx' = [v \in Worker |-> tx'[v]]
        /\ \A v \in Worker : tx'[v] \in UnitOfWork /\ SameWork(tx'[v], tx[v])
    BY <2>1 DEF SameWork
  <2>3. /\ Len(refresh) <= Len(refresh') /\ clock' \in Nat /\ clock <= clock'
        /\ session' = session /\ bound' = bound
    BY <1>1, <1>2
  <2> QED BY <1>3, <2>2, <2>3, Grows
<1>5. /\ ProofsApart' /\ (reserved \subseteq ProofIdSet)' /\ (requests \in Nat)'
      /\ AnswersReserved' /\ OnePairPerProof'
      /\ (issuedFor \in Seq(ProofIdSet \cup {FirstAnswer}))'
      /\ (Len(issuedFor) = Len(refresh))'
  BY <1>1 DEF StoreInv, ProofsApart, AnswersReserved, OnePairPerProof
<1> QED BY <1>3, <1>4, <1>5 DEF StoreInv

LEMMA StoreInit == SInit => StoreInv
<1> SUFFICES ASSUME SInit PROVE StoreInv
  OBVIOUS
<1>1. /\ clock = 1 /\ code = "unspent" /\ session = "none" /\ bound = FALSE
      /\ absolute = None /\ authority = TRUE /\ refresh = <<>> /\ access = <<>>
      /\ tx = [w \in Worker |-> Idle] /\ reserved = {} /\ issuedFor = <<>>
      /\ requests = 0
  BY DEF SInit, Init
<1>2. TypeOK /\ SessionOwnsPairs /\ Committed \in Family
  <2>1. Committed \in Family
    BY <1>1, NoTablesFamily DEF Committed, NoTables
  <2>2. TypeOK
    BY InitIndInv DEF SInit, IndInv
  <2> QED BY <1>1, <2>1, <2>2 DEF SessionOwnsPairs
<1>3. tx \in [Worker -> UnitOfWork]
  BY <1>1, IdleUnit
<1>4. \A w \in Worker : Sound(tx[w])
  <2> SUFFICES Sound(Idle)
    BY <1>1
  <2> QED BY <1>1 DEF Idle, NoTables, Sound, WritesItsFamily, FoundItsRow,
              ReservedItsProof, Unlocked, OfToken, RotationStep, SessionDoc
<1>5. ProofsApart
  BY <1>1, IdleUnit DEF ProofsApart
<1> QED BY <1>1, <1>2, <1>3, <1>4, <1>5 DEF StoreInv, AnswersReserved, OnePairPerProof

LEMMA StoreNext == StoreInv /\ [SNext]_svars => StoreInv'
<1> SUFFICES ASSUME StoreInv, [SNext]_svars PROVE StoreInv'
  OBVIOUS
<1>1. CASE UNCHANGED svars
  <2>1. UNCHANGED <<clock, code, session, bound, absolute, authority, refresh,
                    access, tx, reserved, issuedFor, requests>>
    BY <1>1 DEF svars, vars
  <2> QED BY <2>1 DEF StoreInv, TypeOK, SessionOwnsPairs, Committed, Sound,
       WritesItsFamily, FoundItsRow, ReservedItsProof, ProofsApart,
       AnswersReserved, OnePairPerProof, Pair
<1>2. CASE Rest
  <2>1. UNCHANGED svars
    BY <1>2 DEF Rest
  <2> QED BY <1>1, <2>1
<1>3. CASE Advance
  BY <1>3, AdvanceKeeps
<1>4. CASE \E withProof \in BOOLEAN : Sign(withProof)
  BY <1>4, SignKeeps
<1>5. CASE \E i \in Pair : FirstUse(i)
  BY <1>5, FirstUseKeeps
<1>6. ASSUME NEW w \in Worker, Statement(w)
      PROVE  StoreInv'
  <2>1. CASE Commit(w)
    BY <2>1, StoredKeeps DEF Commit
  <2> QED BY <1>6, <2>1, FindKeeps, ReserveKeeps, ClaimKeeps, RetireKeeps,
             LookupKeeps, ClaimTheRetryKeeps, RevokeSuccessorKeeps, IssueKeeps,
             EndSessionKeeps, EndTokensKeeps DEF Statement
<1>7. ASSUME NEW w \in Worker, Failure(w)
      PROVE  StoreInv'
  <2>1. CASE CommitAborted(w)
    BY <2>1, Refuses DEF CommitAborted
  <2>2. CASE CommitUnknown(w)
    BY <2>2, StoredKeeps, Refuses DEF CommitUnknown, AfterUnknown
  <2>3. CASE Fail(w)
    BY <2>3, Refuses DEF Fail, Leave
  <2> QED BY <1>7, <2>1, <2>2, <2>3 DEF Failure
<1>8. ASSUME NEW w \in Worker, NEW kind \in {"refresh", "revoke"},
             NEW i \in Pair, NEW n \in 1..MaxRequests, Start(w, kind, i, n)
      PROVE  StoreInv'
  <2>1. kind \in Kind /\ i \in Nat /\ n \in Nat
    BY DEF Kind, Pair, StoreInv, TypeOK
  <2> QED BY <1>8, <2>1, StartKeeps
<1>9. ASSUME NEW w \in Worker, NEW kind \in {"signOut", "select"},
             Start(w, kind, None, requests + 1)
      PROVE  StoreInv'
  <2>1. kind \in Kind /\ None \in Nat /\ requests + 1 \in Nat
    BY DEF Kind, None, StoreInv
  <2> QED BY <1>9, <2>1, StartKeeps
<1> QED BY <1>1, <1>2, <1>3, <1>4, <1>5, <1>6, <1>7, <1>8, <1>9 DEF SNext

LEMMA StoreHolds == SSpec => []StoreInv
BY StoreInit, StoreNext, PTL DEF SSpec

(* On both databases, with any number of units of work at once: rows keep  *)
(* their types and units of work their limits, a unit of work whose writes *)
(* are stored is not run again although its commit went unanswered, and a  *)
(* proof delivered twice is answered with one pair.                        *)
THEOREM StoredAndAnsweredOnce == SSpec => []StoredOnce
<1>1. StoreInv => StoredOnce
  <2> SUFFICES ASSUME StoreInv PROVE StoredOnce
    OBVIOUS
  <2>1. ASSUME NEW w \in Worker
        PROVE  /\ tx[w].kind \in Kind /\ tx[w].run \in 0..MaxAttempts
               /\ tx[w].wrote \subseteq {SessionDoc} \cup TokenDocs(Committed)
               /\ tx[w].view.refresh \in Seq(RefreshRow)
               /\ tx[w].view.access \in Seq(AccessRow)
               /\ tx[w].stored = FALSE
    <3> DEFINE t == tx[w]
    <3>1. t \in UnitOfWork /\ WritesItsFamily(t) /\ Committed \in Family
          /\ Committed.refresh = refresh
      BY UnitFacts
    <3>2. t.view \in Family /\ t.kind \in Kind /\ t.run \in 0..MaxAttempts
          /\ t.stored = FALSE
      BY <3>1, UnitFields
    <3>3. /\ Linked(t.view.refresh) /\ t.view.access \in Seq(AccessRow)
          /\ DOMAIN t.view.refresh = 1..Len(t.view.refresh)
          /\ DOMAIN t.view.access = DOMAIN t.view.refresh
          /\ Len(t.view.refresh) \in Nat /\ Len(refresh) \in Nat
          /\ DOMAIN Committed.refresh = 1..Len(refresh)
          /\ DOMAIN Committed.access = 1..Len(refresh)
      BY <3>1, <3>2, FamilyTable
    <3>4. DOMAIN t.view.refresh \subseteq DOMAIN Committed.refresh
      BY <3>1, <3>3 DEF WritesItsFamily
    <3>5. TokenDocs(t.view) \subseteq TokenDocs(Committed)
      BY <3>3, <3>4 DEF TokenDocs
    <3> QED BY <3>1, <3>2, <3>3, <3>5 DEF WritesItsFamily, Linked
  <2> QED BY <2>1 DEF StoredOnce, STypeOK, StoredRunsNoMore, Open, StoreInv
<1> QED BY <1>1, StoreHolds, PTL

-----------------------------------------------------------------------------
(* PostgreSQL: what the unit of work that has the family sees. *)

LEMMA PgSees ==
  ASSUME NEW w \in Worker, NEW t, Backend = "postgres", PostgresInv,
         t = tx[w], ~Unlocked(t)
  PROVE  /\ Seen(w) = Overlay(Committed, t.view, t.wrote)
         /\ Seen(w).refresh = t.view.refresh
         /\ Seen(w).session = t.view.session
         /\ NoAccessWritten(t) => Seen(w).access = access
         /\ AccessAgrees(t) => Seen(w).access = t.view.access
<1>1. /\ t \in UnitOfWork /\ WritesItsFamily(t)
      /\ Committed \in Family /\ Committed.refresh = refresh
      /\ Committed.access = access /\ Committed.session = session
      /\ Len(refresh) \in Nat /\ Pair = 1..Len(refresh)
  BY UnitFacts DEF PostgresInv
<1>2. t.view \in Family /\ RefreshAgrees(t)
  BY <1>1, UnitFields DEF PostgresInv, HasFamily, UnitsOfWork
<1>3. Seen(w) = Overlay(Committed, t.view, t.wrote)
  BY DEF Seen
<1> DEFINE db == Overlay(Committed, t.view, t.wrote)
<1>4. /\ db \in Family /\ Len(db.refresh) = Len(refresh)
      /\ \A k \in DOMAIN refresh :
           /\ db.refresh[k] = IF RefreshDoc(k) \in t.wrote THEN t.view.refresh[k]
                              ELSE refresh[k]
           /\ db.access[k] = IF AccessDoc(k) \in t.wrote THEN t.view.access[k]
                             ELSE access[k]
      /\ db.session = IF SessionDoc \in t.wrote THEN t.view.session ELSE session
  BY <1>1, <1>2, Overlays DEF WritesItsFamily
<1> HIDE DEF db
<1>5. /\ Linked(db.refresh) /\ db.access \in Seq(AccessRow)
      /\ Len(db.access) = Len(db.refresh)
      /\ Linked(t.view.refresh) /\ t.view.access \in Seq(AccessRow)
      /\ Len(t.view.access) = Len(t.view.refresh)
      /\ access \in Seq(AccessRow) /\ Len(access) = Len(refresh)
  BY <1>1, <1>2, <1>4, FamilyTable
<1>6. db.refresh = t.view.refresh
  <2>1. \A k \in 1..Len(refresh) : db.refresh[k] = t.view.refresh[k]
    BY <1>1, <1>2, <1>4 DEF RefreshAgrees, Pair
  <2>2. /\ db.refresh \in Seq(RefreshRow) /\ t.view.refresh \in Seq(RefreshRow)
        /\ Len(db.refresh) = Len(refresh) /\ Len(t.view.refresh) = Len(refresh)
    BY <1>2, <1>4, <1>5 DEF Linked, RefreshAgrees
  <2> QED BY <2>1, <2>2
<1>7. db.session = t.view.session
  BY <1>2, <1>4 DEF RefreshAgrees
<1>8. ASSUME NoAccessWritten(t)
      PROVE  db.access = access
  BY <1>1, <1>4, <1>5, <1>8 DEF NoAccessWritten, Pair
<1>9. ASSUME AccessAgrees(t)
      PROVE  db.access = t.view.access
  BY SMTT(60), <1>1, <1>2, <1>4, <1>5, <1>9 DEF AccessAgrees, RefreshAgrees, Pair
<1> QED BY <1>3, <1>6, <1>7, <1>8, <1>9 DEF db

(* Who has written or reserved anything has the family, alone.             *)
LEMMA PgAlone ==
  ASSUME NEW w \in Worker, NEW t, PostgresInv, t = tx[w], ~Unlocked(t)
  PROVE  /\ t.locks
         /\ \A v \in Worker \ {w} :
              /\ Unlocked(tx[v]) /\ ~tx[v].locks
              /\ tx[v].wrote = {} /\ tx[v].proofs = {}
<1>1. t.locks
  BY DEF PostgresInv, HasFamily, UnitsOfWork
<1>2. ASSUME NEW v \in Worker \ {w}
      PROVE  Unlocked(tx[v]) /\ ~tx[v].locks
  BY <1>1 DEF PostgresInv, HasFamily, LockOnce, UnitsOfWork
<1>3. \A v \in Worker : WritesItsFamily(tx[v])
  BY UnitFacts DEF PostgresInv
<1> QED BY <1>1, <1>2, <1>3 DEF WritesItsFamily

LEMMA PgNoWait ==
  ASSUME NEW w \in Worker, PostgresInv
  PROVE  ~Waits(w)
<1>1. CASE Unlocked(tx[w])
  <2>1. Targets(w) = {} /\ tx[w].step # "reserve"
    BY <1>1 DEF Targets, Unlocked
  <2> QED BY <2>1 DEF Waits
<1>2. CASE ~Unlocked(tx[w])
  BY <1>2, PgAlone DEF Waits
<1> QED BY <1>1, <1>2

(* Where a unit of work stands depends on the committed rows alone.        *)
LEMMA PgSame ==
  ASSUME NEW t, HasFamily(t),
         UNCHANGED <<session, bound, absolute, authority, refresh, access>>
  PROVE  HasFamily(t)'
<1>1. /\ RefreshAgrees(t)' <=> RefreshAgrees(t)
      /\ NoAccessWritten(t)' <=> NoAccessWritten(t)
      /\ AccessAgrees(t)' <=> AccessAgrees(t)
      /\ NothingWritten(t)' <=> NothingWritten(t)
  BY DEF RefreshAgrees, NoAccessWritten, AccessAgrees, NothingWritten, Pair
<1>2. /\ HasAuthority(t.at)' <=> HasAuthority(t.at)
      /\ Retryable(t.token, t.at)' <=> Retryable(t.token, t.at)
  BY DEF HasAuthority, Retryable
<1>3. Rotates(t)' <=> Rotates(t)
  BY <1>2 DEF Rotates
<1>4. Retries(t)' <=> Retries(t)
  BY <1>2 DEF Retries
<1>5. SuccessorFound(t)' <=> SuccessorFound(t)
  BY <1>4 DEF SuccessorFound
<1>6. ClaimWritten(t)' <=> ClaimWritten(t)
  BY <1>3 DEF ClaimWritten
<1>7. RetryWritten(t)' <=> RetryWritten(t)
  BY <1>5 DEF RetryWritten
<1>8. RotationReady(t)' <=> RotationReady(t)
  BY <1>6 DEF RotationReady
<1>9. RetryReady(t)' <=> RetryReady(t)
  BY <1>2, <1>4 DEF RetryReady
<1>10. Replays(t)' <=> Replays(t)
  BY <1>2 DEF Replays
<1>11. ReplaysUsed(t)' <=> ReplaysUsed(t)
  BY <1>4 DEF ReplaysUsed
<1>12. \A table : MayEnd(t, table)' <=> MayEnd(t, table)
  BY <1>10, <1>11 DEF MayEnd
<1>13. EndReady(t)' <=> EndReady(t)
  BY <1>11, <1>12 DEF EndReady, MayEnd
<1>14. FamilyEnded(t)' <=> FamilyEnded(t)
  BY <1>1, <1>12 DEF FamilyEnded
<1>15. SelectedEnded(t)' <=> SelectedEnded(t)
  BY <1>1 DEF SelectedEnded
<1>16. Standing(t)' <=> Standing(t)
  BY <1>1, <1>3, <1>4, <1>5, <1>6, <1>7, <1>8, <1>9, <1>13, <1>14, <1>15
     DEF Standing
<1> QED BY <1>1, <1>16 DEF HasFamily

(* A statement of the unit of work that has the family, or a refused one.  *)
LEMMA PgLocal ==
  ASSUME NEW w \in Worker, NEW u \in UnitOfWork, PostgresInv, StoreInv',
         tx' = [tx EXCEPT ![w] = u], UNCHANGED vars, requests' = requests,
         HasFamily(u), u.locks => \A v \in Worker \ {w} : ~tx[v].locks,
         u.step # "idle" => tx[w].step # "idle"
  PROVE  PostgresInv'
<1>0. UNCHANGED <<clock, code, session, bound, absolute, authority, refresh,
                  access, requests>>
  BY DEF vars
<1>1. \A v \in Worker : tx'[v] = IF v = w THEN u ELSE tx[v]
  BY DEF PostgresInv, StoreInv
<1>2. IndInv'
  BY NextIndInv DEF PostgresInv
<1>3. authority' /\ LockOnce'
  BY <1>0, <1>1 DEF PostgresInv, LockOnce
<1>4. (\A t \in UnitsOfWork : HasFamily(t))'
  <2> SUFFICES ASSUME NEW t \in UnitsOfWork' PROVE HasFamily(t)'
    OBVIOUS
  <2>1. HasFamily(t)
    BY <1>1 DEF PostgresInv, UnitsOfWork
  <2> QED BY <1>0, <2>1, PgSame
<1>5. PairsRequested'
  <2>1. Open' \subseteq Open
    BY <1>1 DEF Open
  <2>2. /\ IsFiniteSet(Open) /\ Len(refresh) + Cardinality(Open) <= requests + 1
        /\ requests <= MaxRequests /\ Len(refresh) \in Nat /\ requests \in Nat
    BY DEF PostgresInv, PairsRequested, StoreInv, TypeOK
  <2>3. /\ IsFiniteSet(Open') /\ Cardinality(Open') <= Cardinality(Open)
        /\ Cardinality(Open') \in Nat /\ Cardinality(Open) \in Nat
    BY <2>1, <2>2, FS_Subset, FS_CardinalityType
  <2> QED BY <1>0, <2>2, <2>3 DEF PairsRequested
<1> QED BY <1>2, <1>3, <1>4, <1>5 DEF PostgresInv

LEMMA PgUnit ==
  ASSUME NEW w \in Worker, NEW t, PostgresInv, t = tx[w], ~Unlocked(t)
  PROVE  /\ t \in UnitOfWork /\ FoundItsRow(t) /\ ReservedItsProof(t)
         /\ t.at \in Nat /\ t.at \in 1..clock
         /\ RefreshAgrees(t) /\ Standing(t)
         /\ refresh \in Seq(RefreshRow) /\ access \in Seq(AccessRow)
         /\ Len(refresh) \in Nat /\ Len(access) = Len(refresh)
         /\ Pair = 1..Len(refresh) /\ DOMAIN access = Pair
         /\ Linked(refresh)
         /\ OfToken(t) => t.token \in Pair /\ t.row = refresh[t.token]
<1>1. /\ t \in UnitOfWork /\ FoundItsRow(t) /\ ReservedItsProof(t)
      /\ Committed \in Family /\ Committed.refresh = refresh
  BY UnitFacts DEF PostgresInv
<1>2. t.at \in Nat /\ t.at \in 1..clock
  BY <1>1, UnitFields DEF FoundItsRow, Unlocked
<1>3. HasFamily(t)
  BY DEF PostgresInv, UnitsOfWork
<1>4. RefreshAgrees(t) /\ Standing(t)
      /\ t.row = (IF OfToken(t) THEN refresh[t.token] ELSE <<>>)
  BY <1>3 DEF HasFamily
<1>5. /\ refresh \in Seq(RefreshRow) /\ access \in Seq(AccessRow)
      /\ Len(access) = Len(refresh)
  BY DEF PostgresInv, StoreInv, TypeOK
<1>6. /\ Len(refresh) \in Nat /\ Pair = 1..Len(refresh) /\ DOMAIN access = Pair
  BY <1>5 DEF Pair
<1>7. Linked(refresh)
  BY <1>1, FamilyTable
<1>8. OfToken(t) => t.token \in Pair /\ t.row = refresh[t.token]
  BY <1>1, <1>4 DEF FoundItsRow, Unlocked
<1> QED BY <1>1, <1>2, <1>4, <1>5, <1>6, <1>7, <1>8

LEMMA PgGoes ==
  ASSUME NEW w \in Worker, NEW t, NEW u \in UnitOfWork, PostgresInv, StoreInv',
         t = tx[w], ~Unlocked(t), ~Unlocked(u),
         tx' = [tx EXCEPT ![w] = u], UNCHANGED vars, requests' = requests,
         SameRequest(u, t), u.row = t.row, u.locks = t.locks,
         RefreshAgrees(u), Standing(u)
  PROVE  PostgresInv'
<1>1. t.locks /\ \A v \in Worker \ {w} : ~tx[v].locks
  BY PgAlone
<1>2. HasFamily(t) /\ t.step # "idle"
  BY DEF PostgresInv, UnitsOfWork, Unlocked
<1>3. HasFamily(u)
  BY <1>1, <1>2 DEF HasFamily, SameRequest, OfToken
<1> QED BY <1>1, <1>2, <1>3, PgLocal

LEMMA PgWrites ==
  ASSUME NEW w \in Worker, NEW t, NEW db, NEW s, Backend = "postgres",
         StoreInv, StoreInv', t = tx[w], Write(w, db, s)
  PROVE  \E u \in UnitOfWork :
           /\ tx' = [tx EXCEPT ![w] = u]
           /\ UNCHANGED vars /\ requests' = requests
           /\ SameRequest(u, t) /\ u.step = s /\ u.view = db
           /\ u.wrote = t.wrote \cup Targets(w)
           /\ u.row = t.row /\ u.locks = t.locks /\ u.proofs = t.proofs
           /\ u.made = t.made
<1> DEFINE docs == Targets(w)
           u == [t EXCEPT !.view = db, !.wrote = @ \cup docs, !.step = s]
<1>1. tx' = [tx EXCEPT ![w] = u] /\ NothingStored
  BY DEF Write, Conflicts
<1>2. t \in UnitOfWork /\ tx \in [Worker -> UnitOfWork]
  BY DEF StoreInv
<1>3. u \in UnitOfWork
  <2>1. tx'[w] = u
    BY <1>1, <1>2
  <2>2. tx'[w] \in UnitOfWork
    BY DEF StoreInv
  <2> QED BY <2>1, <2>2
<1> HIDE DEF docs
<1>4. /\ SameRequest(u, t) /\ u.step = s /\ u.view = db
      /\ u.wrote = t.wrote \cup docs
      /\ u.row = t.row /\ u.locks = t.locks /\ u.proofs = t.proofs
      /\ u.made = t.made
  BY <1>2 DEF UnitOfWork, SameRequest
<1>5. UNCHANGED vars /\ requests' = requests
  BY <1>1 DEF NothingStored
<1> HIDE DEF u
<1> QED BY <1>1, <1>3, <1>4, <1>5 DEF docs

LEMMA PgGoto ==
  ASSUME NEW w \in Worker, NEW t, NEW s \in Step, StoreInv, t = tx[w],
         Goto(w, s)
  PROVE  \E u \in UnitOfWork :
           /\ tx' = [tx EXCEPT ![w] = u]
           /\ UNCHANGED vars /\ requests' = requests
           /\ SameRequest(u, t) /\ u.step = s /\ u.view = t.view
           /\ u.wrote = t.wrote
           /\ u.row = t.row /\ u.locks = t.locks /\ u.proofs = t.proofs
           /\ u.made = t.made
<1> DEFINE u == [t EXCEPT !.step = s]
<1>1. t \in UnitOfWork
  BY DEF StoreInv
<1>2. /\ u \in UnitOfWork /\ SameRequest(u, t) /\ u.step = s
      /\ u.row = t.row /\ u.view = t.view /\ u.wrote = t.wrote
      /\ u.locks = t.locks /\ u.proofs = t.proofs /\ u.made = t.made
  BY <1>1, GoneTo
<1>3. /\ tx' = [tx EXCEPT ![w] = u]
      /\ UNCHANGED vars /\ requests' = requests
  BY DEF Goto, NothingStored
<1> HIDE DEF u
<1> QED BY <1>2, <1>3

(* A refused unit of work, or one that ends, holds nothing.                *)
LEMMA PgRefuses ==
  ASSUME NEW w \in Worker, PostgresInv, StoreInv', NothingStored,
         \/ tx[w].step # "idle" /\ tx' = [tx EXCEPT ![w] = AfterAbort(@)]
         \/ tx' = [tx EXCEPT ![w] = Idle]
  PROVE  PostgresInv'
<1> DEFINE t == tx[w]
<1>1. t \in UnitOfWork
  BY DEF PostgresInv, StoreInv
<1>2. PICK u \in {Idle, AfterAbort(t)} :
        /\ tx' = [tx EXCEPT ![w] = u]
        /\ u = Idle \/ t.step # "idle"
  OBVIOUS
<1> HIDE DEF t
<1>3. u \in UnitOfWork /\ ~u.locks /\ u.step \in {"idle", "find"}
  <2>1. CASE u = Idle
    BY <2>1, IdleUnit DEF Idle
  <2>2. CASE u = AfterAbort(t)
    BY <1>1, <2>2, Reruns
  <2> QED BY <2>1, <2>2
<1>4. HasFamily(u)
  BY <1>3 DEF HasFamily, Unlocked
<1>5. u.step # "idle" => t.step # "idle"
  BY <1>2, IdleUnit
<1>6. UNCHANGED vars /\ requests' = requests
  BY DEF NothingStored
<1> QED BY <1>2, <1>3, <1>4, <1>5, <1>6, PgLocal DEF t

LEMMA PgClaim ==
  ASSUME NEW w \in Worker, Backend = "postgres", PostgresInv, StoreInv', Claim(w)
  PROVE  PostgresInv'
<1> DEFINE t == tx[w]
           seen == Seen(w)
           db == [seen EXCEPT !.refresh = ClaimRefresh(@, t.token, t.at)]
<1>1. t.step = "claimRefresh" /\ ~Unlocked(t)
  BY DEF Claim, Unlocked
<1>2. /\ t \in UnitOfWork /\ FoundItsRow(t) /\ RefreshAgrees(t) /\ Standing(t)
      /\ Pair = 1..Len(refresh) /\ Linked(refresh) /\ t.at \in Nat
      /\ OfToken(t) => t.token \in Pair
      /\ Len(refresh) \in Nat
  BY <1>1, PgUnit
<1>3. t.token \in Pair /\ t.kind = "refresh"
  BY <1>1, <1>2 DEF FoundItsRow, RotationStep, OfToken
<1>4. /\ Rotates(t) /\ t.wrote = {} /\ t.view.refresh = refresh
      /\ t.view.session = session
  BY <1>1, <1>2, DocsDiffer DEF Standing, NothingWritten, RefreshAgrees
<1>5. seen.refresh = refresh /\ seen.session = session
  BY <1>1, <1>4, PgSees
<1>6. seen \in Family
  BY SeenFamily DEF PostgresInv
<1>7. ~seen.refresh[t.token].spent
  BY <1>4, <1>5 DEF Rotates
<1>8. Write(w, db, "retire")
  BY <1>7 DEF Claim
<1>9. Targets(w) = {RefreshDoc(t.token)}
  BY <1>1, <1>7 DEF Targets
<1>10. db.refresh = ClaimRefresh(refresh, t.token, t.at) /\ db.session = session
  BY <1>5, <1>6 DEF Family, Tables
<1> HIDE DEF seen, db
<1>11. PICK u \in UnitOfWork :
         /\ tx' = [tx EXCEPT ![w] = u]
         /\ UNCHANGED vars /\ requests' = requests
         /\ SameRequest(u, t) /\ u.step = "retire" /\ u.view = db
         /\ u.wrote = t.wrote \cup Targets(w)
         /\ u.row = t.row /\ u.locks = t.locks /\ u.proofs = t.proofs
         /\ u.made = t.made
  BY <1>8, PgWrites DEF PostgresInv
<1>12. u.wrote = {RefreshDoc(t.token)} /\ u.token = t.token /\ u.at = t.at
       /\ u.kind = t.kind
  BY <1>4, <1>9, <1>11 DEF SameRequest
<1>13. RefreshAgrees(u)
  <2>1. Len(u.view.refresh) = Len(refresh)
    BY ZenonT(60), <1>2, <1>3, <1>10, <1>11, Claims DEF Pair
  <2>2. \A k \in Pair : RefreshDoc(k) \notin u.wrote
                          => u.view.refresh[k] = refresh[k]
    BY <1>2, <1>3, <1>10, <1>11, <1>12 DEF ClaimRefresh, Pair
  <2> QED BY <1>10, <1>11, <2>1, <2>2 DEF RefreshAgrees
<1>14. Standing(u)
  <2>1. NoAccessWritten(u) /\ SessionDoc \notin u.wrote
    BY <1>12, DocsDiffer DEF NoAccessWritten
  <2>2. ClaimWritten(u)
    BY <1>4, <1>10, <1>11, <1>12 DEF ClaimWritten, Rotates
  <2> QED BY <1>11, <2>1, <2>2 DEF Standing
<1>15. ~Unlocked(u)
  BY <1>11 DEF Unlocked
<1> HIDE DEF t
<1> QED BY <1>1, <1>11, <1>13, <1>14, <1>15, PgGoes DEF t

LEMMA PgRetire ==
  ASSUME NEW w \in Worker, Backend = "postgres", PostgresInv, StoreInv', Retire(w)
  PROVE  PostgresInv'
<1> DEFINE t == tx[w]
           seen == Seen(w)
           db == [seen EXCEPT !.access = RetireAccessTokens(@)]
<1>1. t.step = "retire" /\ ~Unlocked(t) /\ Write(w, db, "issue")
  BY DEF Retire, Unlocked
<1>2. /\ t \in UnitOfWork /\ RefreshAgrees(t) /\ Standing(t)
      /\ Pair = 1..Len(refresh) /\ access \in Seq(AccessRow)
      /\ DOMAIN access = Pair
  BY <1>1, PgUnit
<1>3. ClaimWritten(t) /\ NoAccessWritten(t) /\ SessionDoc \notin t.wrote
  BY <1>1, <1>2 DEF Standing
<1>4. /\ seen.refresh = t.view.refresh /\ seen.session = t.view.session
      /\ seen.access = access
  BY <1>1, <1>3, PgSees
<1>5. seen \in Family
  BY SeenFamily DEF PostgresInv
<1>6. Targets(w) = {AccessDoc(k) : k \in {i \in Pair : ~access[i].spent}}
  BY <1>1, <1>2, <1>4 DEF Targets
<1>7. /\ db.refresh = t.view.refresh /\ db.session = t.view.session
      /\ db.access = RetireAccessTokens(access)
  BY <1>4, <1>5 DEF Family, Tables
<1> HIDE DEF seen, db
<1>8. PICK u \in UnitOfWork :
         /\ tx' = [tx EXCEPT ![w] = u]
         /\ UNCHANGED vars /\ requests' = requests
         /\ SameRequest(u, t) /\ u.step = "issue" /\ u.view = db
         /\ u.wrote = t.wrote \cup Targets(w)
         /\ u.row = t.row /\ u.locks = t.locks /\ u.proofs = t.proofs
         /\ u.made = t.made
  BY <1>1, PgWrites DEF PostgresInv
<1>9. \A k : RefreshDoc(k) \in u.wrote <=> RefreshDoc(k) \in t.wrote
  BY <1>6, <1>8, DocsDiffer
<1>10. SessionDoc \notin u.wrote
  BY <1>3, <1>6, <1>8, DocsDiffer
<1>11. \A k \in Pair : AccessDoc(k) \in u.wrote <=> ~access[k].spent
  <2> SUFFICES ASSUME NEW k \in Pair
               PROVE  AccessDoc(k) \in u.wrote <=> ~access[k].spent
    OBVIOUS
  <2>1. AccessDoc(k) \notin t.wrote
    BY <1>3 DEF NoAccessWritten
  <2>2. AccessDoc(k) \in Targets(w) <=> ~access[k].spent
    BY <1>6, DocsDiffer
  <2> QED BY <1>8, <2>1, <2>2
<1>12. RefreshAgrees(u)
  BY <1>2, <1>3, <1>7, <1>8, <1>9, <1>10 DEF RefreshAgrees
<1>13. AccessAgrees(u)
  <2> SUFFICES ASSUME NEW k \in Pair
               PROVE  /\ CanMarkFirstUse(access, k) => AccessDoc(k) \in u.wrote
                      /\ AccessDoc(k) \notin u.wrote =>
                           u.view.access[k] = access[k]
    BY DEF AccessAgrees
  <2>1. RetireAccessTokens(access)[k]
          = IF access[k].spent THEN access[k] ELSE Retired(access[k])
    BY <1>2, RetireAccessSeq
  <2> QED BY <1>7, <1>8, <1>11, <2>1 DEF CanMarkFirstUse, Live
<1>14. RotationReady(u)
  BY <1>3, <1>7, <1>8 DEF RotationReady, ClaimWritten, Rotates, SameRequest
<1>15. Standing(u) /\ ~Unlocked(u)
  BY <1>8, <1>10, <1>13, <1>14 DEF Standing, Unlocked
<1> HIDE DEF t
<1> QED BY <1>1, <1>8, <1>12, <1>15, PgGoes DEF t

LEMMA PgLookup ==
  ASSUME NEW w \in Worker, Backend = "postgres", PostgresInv, StoreInv', Lookup(w)
  PROVE  PostgresInv'
<1> DEFINE t == tx[w]
           found == [Seen(w).refresh EXCEPT ![t.token] = t.row]
           unused == HasUnusedSuccessor(found, Seen(w).access, t.token)
           s == IF unused THEN "claimRetry" ELSE "endSession"
<1>1. t.step = "successor" /\ ~Unlocked(t) /\ Goto(w, s)
  BY DEF Lookup, Unlocked
<1>2. /\ t \in UnitOfWork /\ FoundItsRow(t) /\ ReservedItsProof(t)
      /\ RefreshAgrees(t) /\ Standing(t)
      /\ Pair = 1..Len(refresh) /\ refresh \in Seq(RefreshRow)
      /\ OfToken(t) => t.token \in Pair /\ t.row = refresh[t.token]
  BY <1>1, PgUnit
<1>3. t.token \in Pair /\ t.row = refresh[t.token] /\ t.kind = "refresh"
  BY <1>1, <1>2 DEF FoundItsRow, RotationStep, OfToken
<1>4. /\ Retries(t) /\ InsideRetryWindow(refresh[t.token], t.at)
      /\ t.wrote = {} /\ t.view.refresh = refresh
  BY <1>1, <1>2 DEF Standing, NothingWritten
<1>5. NoAccessWritten(t)
  BY <1>4 DEF NoAccessWritten
<1>6. Seen(w).refresh = refresh /\ Seen(w).access = access
  BY <1>1, <1>4, <1>5, PgSees
<1>7. found = refresh
  BY <1>2, <1>3, <1>6
<1>8. unused <=> HasUnusedSuccessor(refresh, access, t.token)
  BY <1>6, <1>7
<1>9. s \in {"claimRetry", "endSession"} /\ s \in Step
  BY DEF Step, RotationStep
<1> DEFINE isUnused == HasUnusedSuccessor(refresh, access, t.token)
<1>10. s = IF isUnused THEN "claimRetry" ELSE "endSession"
  BY <1>8
<1> HIDE DEF s, isUnused
<1>11. PICK u \in UnitOfWork :
         /\ tx' = [tx EXCEPT ![w] = u]
         /\ UNCHANGED vars /\ requests' = requests
         /\ SameRequest(u, t) /\ u.step = s /\ u.view = t.view
         /\ u.wrote = t.wrote
         /\ u.row = t.row /\ u.locks = t.locks /\ u.proofs = t.proofs
         /\ u.made = t.made
  BY <1>1, <1>9, PgGoto DEF PostgresInv
<1>12. RefreshAgrees(u)
  BY <1>2, <1>11 DEF RefreshAgrees
<1>13. u.kind = t.kind /\ u.token = t.token /\ u.at = t.at
       /\ ProofId(u) = ProofId(t)
  BY <1>11 DEF SameRequest, ProofId
<1>14. CASE isUnused
  <2>1. SuccessorFound(u)
    <3>1. refresh[t.token].next # None
      BY <1>14 DEF isUnused, HasUnusedSuccessor
    <3> QED BY <1>4, <1>13, <1>14, <3>1 DEF SuccessorFound, Retries, isUnused
  <2>2. NothingWritten(u)
    BY <1>4, <1>11 DEF NothingWritten
  <2>3. Standing(u)
    BY <1>10, <1>11, <1>14, <2>1, <2>2 DEF Standing
  <2>4. ~Unlocked(u)
    BY <1>9, <1>11 DEF Unlocked
  <2> HIDE DEF t
  <2> QED BY <1>1, <1>11, <1>12, <2>3, <2>4, PgGoes DEF t
<1>15. CASE ~isUnused
  <2>1. ProofId(u) \in u.proofs
    BY <1>1, <1>2, <1>4, <1>11, <1>13 DEF ReservedItsProof, RotationStep, Retries
  <2>2. Replays(u)
    BY <1>4, <1>13, <1>15, <2>1 DEF Replays, Retries, Retryable, isUnused
  <2>3. EndReady(u)
    BY <1>4, <1>11, <2>2 DEF EndReady, MayEnd
  <2>4. NoAccessWritten(u) /\ SessionDoc \notin u.wrote
    BY <1>4, <1>11 DEF NoAccessWritten
  <2>5. Standing(u)
    BY <1>10, <1>11, <1>15, <2>3, <2>4 DEF Standing
  <2>6. ~Unlocked(u)
    BY <1>9, <1>11 DEF Unlocked
  <2> HIDE DEF t
  <2> QED BY <1>1, <1>11, <1>12, <2>5, <2>6, PgGoes DEF t
<1> QED BY <1>14, <1>15

LEMMA PgClaimTheRetry ==
  ASSUME NEW w \in Worker, Backend = "postgres", PostgresInv, StoreInv',
         ClaimTheRetry(w)
  PROVE  PostgresInv'
<1> DEFINE t == tx[w]
           seen == Seen(w)
           db == [seen EXCEPT !.refresh = ClaimRetry(@, t.token, t.at)]
<1>1. t.step = "claimRetry" /\ ~Unlocked(t)
  BY DEF ClaimTheRetry, Unlocked
<1>2. /\ t \in UnitOfWork /\ FoundItsRow(t) /\ RefreshAgrees(t) /\ Standing(t)
      /\ Pair = 1..Len(refresh) /\ Linked(refresh) /\ t.at \in Nat
      /\ OfToken(t) => t.token \in Pair
      /\ Len(refresh) \in Nat
  BY <1>1, PgUnit
<1>3. t.token \in Pair /\ t.kind = "refresh"
  BY <1>1, <1>2 DEF FoundItsRow, RotationStep, OfToken
<1>4. /\ SuccessorFound(t) /\ t.wrote = {} /\ t.view.refresh = refresh
      /\ t.view.session = session
  BY <1>1, <1>2, DocsDiffer DEF Standing, NothingWritten, RefreshAgrees
<1>5. seen.refresh = refresh /\ seen.session = session
  BY <1>1, <1>4, PgSees
<1>6. seen \in Family
  BY SeenFamily DEF PostgresInv
<1>7. CASE ~CanClaimRetry(refresh, t.token, t.at)
  <2>1. Goto(w, "commit") /\ "commit" \in Step
    BY <1>5, <1>7 DEF ClaimTheRetry, Step
  <2>2. PICK u \in UnitOfWork :
           /\ tx' = [tx EXCEPT ![w] = u]
           /\ UNCHANGED vars /\ requests' = requests
           /\ SameRequest(u, t) /\ u.step = "commit" /\ u.view = t.view
           /\ u.wrote = t.wrote
           /\ u.row = t.row /\ u.locks = t.locks /\ u.proofs = t.proofs
           /\ u.made = t.made
    BY <2>1, PgGoto DEF PostgresInv
  <2>3. RefreshAgrees(u) /\ NothingWritten(u) /\ u.made = None
    BY <1>1, <1>2, <1>4, <2>2 DEF RefreshAgrees, NothingWritten, FoundItsRow
  <2>4. Standing(u) /\ ~Unlocked(u)
    BY <2>2, <2>3 DEF Standing, Unlocked
  <2> HIDE DEF t
  <2> QED BY <1>1, <2>2, <2>3, <2>4, PgGoes DEF t
<1>8. CASE CanClaimRetry(refresh, t.token, t.at)
  <2>1. Write(w, db, "revokeSuccessor")
    BY <1>5, <1>8 DEF ClaimTheRetry
  <2>2. Targets(w) = {RefreshDoc(t.token)}
    BY <1>1, <1>5, <1>8 DEF Targets
  <2>3. db.refresh = ClaimRetry(refresh, t.token, t.at) /\ db.session = session
    BY <1>5, <1>6 DEF Family, Tables
  <2> HIDE DEF seen, db
  <2>4. PICK u \in UnitOfWork :
           /\ tx' = [tx EXCEPT ![w] = u]
           /\ UNCHANGED vars /\ requests' = requests
           /\ SameRequest(u, t) /\ u.step = "revokeSuccessor" /\ u.view = db
           /\ u.wrote = t.wrote \cup Targets(w)
           /\ u.row = t.row /\ u.locks = t.locks /\ u.proofs = t.proofs
           /\ u.made = t.made
    BY <2>1, PgWrites DEF PostgresInv
  <2>5. u.wrote = {RefreshDoc(t.token)} /\ u.token = t.token /\ u.at = t.at
        /\ u.kind = t.kind
    BY <1>4, <2>2, <2>4 DEF SameRequest
  <2>6. RefreshAgrees(u)
    <3>1. Len(u.view.refresh) = Len(refresh)
      BY ZenonT(60), <1>2, <1>3, <2>3, <2>4, Claims DEF Pair
    <3>2. \A k \in Pair : RefreshDoc(k) \notin u.wrote
                            => u.view.refresh[k] = refresh[k]
      BY <1>2, <1>3, <2>3, <2>4, <2>5 DEF ClaimRetry, Pair
    <3> QED BY <2>3, <2>4, <3>1, <3>2 DEF RefreshAgrees
  <2>7. NoAccessWritten(u) /\ SessionDoc \notin u.wrote
    BY <2>5, DocsDiffer DEF NoAccessWritten
  <2>8. RetryWritten(u)
    BY <1>4, <1>8, <2>3, <2>4, <2>5 DEF RetryWritten, SuccessorFound, Retries
  <2>9. Standing(u) /\ ~Unlocked(u)
    BY <2>4, <2>7, <2>8 DEF Standing, Unlocked
  <2> HIDE DEF t
  <2> QED BY <1>1, <2>4, <2>6, <2>9, PgGoes DEF t
<1> QED BY <1>7, <1>8

LEMMA PgIssue ==
  ASSUME NEW w \in Worker, Backend = "postgres", PostgresInv, StoreInv', Issue(w)
  PROVE  PostgresInv'
<1> DEFINE t == tx[w]
           g == t.row.generation + 1
           u == [t EXCEPT !.made = g, !.step = "commit"]
<1>1. /\ t.step = "issue" /\ ~Unlocked(t)
      /\ NothingStored /\ tx' = [tx EXCEPT ![w] = u]
  BY DEF Issue, Unlocked
<1>2. /\ t \in UnitOfWork /\ FoundItsRow(t)
      /\ RefreshAgrees(t) /\ Standing(t) /\ Pair = 1..Len(refresh)
      /\ refresh \in Seq(RefreshRow)
      /\ OfToken(t) => t.token \in Pair /\ t.row = refresh[t.token]
  BY <1>1, PgUnit
<1>3. t.token \in Pair /\ t.row = refresh[t.token]
  BY <1>1, <1>2 DEF FoundItsRow, RotationStep, OfToken
<1>4. /\ SessionDoc \notin t.wrote /\ AccessAgrees(t)
      /\ RotationReady(t) \/ RetryReady(t)
  BY <1>1, <1>2 DEF Standing
<1>5. g \in Nat /\ g # None /\ g = refresh[t.token].generation + 1
  <2>1. t.row \in RefreshRow
    BY <1>2, <1>3
  <2>2. t.row.generation \in Nat
    BY <2>1 DEF RefreshRow
  <2> QED BY <1>3, <2>2 DEF None
<1>6. "commit" \in Step
  BY DEF Step
<1> HIDE DEF g
<1>7. /\ u \in UnitOfWork /\ SameRequest(u, t) /\ u.step = "commit"
      /\ u.row = t.row /\ u.view = t.view /\ u.wrote = t.wrote
      /\ u.locks = t.locks /\ u.proofs = t.proofs /\ u.made = g
  BY <1>2, <1>5, <1>6 DEF UnitOfWork, SameRequest
<1> HIDE DEF u
<1>8. UNCHANGED vars /\ requests' = requests
  BY <1>1 DEF NothingStored
<1>9. RefreshAgrees(u) /\ AccessAgrees(u)
  BY <1>2, <1>4, <1>7 DEF RefreshAgrees, AccessAgrees
<1>10. RotationReady(u) \/ RetryReady(u)
  BY <1>4, <1>7 DEF RotationReady, RetryReady, ClaimWritten, Rotates, Retries,
                    SameRequest
<1>11. u.made = refresh[u.token].generation + 1
  BY <1>5, <1>7 DEF SameRequest
<1>12. Standing(u) /\ ~Unlocked(u)
  BY <1>4, <1>5, <1>7, <1>9, <1>10, <1>11 DEF Standing, Unlocked
<1> HIDE DEF t
<1> QED BY <1>1, <1>7, <1>8, <1>9, <1>12, PgGoes DEF t

(* The pair a bound token was exchanged for comes after it.                *)
LEMMA SuccessorLater ==
  ASSUME NEW i \in Pair, IndInv, refresh[i].next # None
  PROVE  refresh[i].next \in Pair /\ refresh[i].next # i
<1>1. /\ refresh[i].next \in 0..Len(refresh) /\ Pair = 1..Len(refresh)
      /\ Len(refresh) \in Nat
      /\ refresh[refresh[i].next].from = i
  BY DEF IndInv, RowsLinked, TypeOK, Pair
<1>2. refresh[i].next \in Pair
  BY <1>1 DEF None
<1>3. refresh[refresh[i].next].from \in 0..(refresh[i].next - 1)
  BY <1>2 DEF IndInv, RowsLinked
<1> QED BY <1>1, <1>2, <1>3

(* Withdrawing a row twice is withdrawing it once.                         *)
LEMMA RetiredTwice ==
  ASSUME NEW row \in RefreshRow
  PROVE  Retired(Retired(row)) = Retired(row)
BY DEF Retired, RefreshRow

LEMMA RevokedTwice ==
  ASSUME NEW table, NEW k \in DOMAIN table, Linked(table)
  PROVE  RevokeAll(RevokePair(table, k)) = RevokeAll(table)
<1> DEFINE one == RevokePair(table, k)
<1>1. /\ Linked(one) /\ Len(one) = Len(table)
      /\ one[k] = Retired(table[k])
      /\ \A j \in DOMAIN table \ {k} : one[j] = table[j]
  BY Withdraws
<1>2. /\ table \in Seq(RefreshRow) /\ one \in Seq(RefreshRow)
      /\ DOMAIN one = DOMAIN table
  BY <1>1 DEF Linked
<1> HIDE DEF one
<1>3. \A j \in DOMAIN table : Retired(one[j]) = Retired(table[j])
  <2> SUFFICES ASSUME NEW j \in DOMAIN table
               PROVE  Retired(one[j]) = Retired(table[j])
    OBVIOUS
  <2>1. table[j] \in RefreshRow
    BY <1>2
  <2> QED BY <1>1, <2>1, RetiredTwice
<1>4. RevokeAll(one) = RevokeAll(table)
  BY <1>2, <1>3 DEF RevokeAll
<1> QED BY <1>4 DEF one

LEMMA PgRevokeSuccessor ==
  ASSUME NEW w \in Worker, Backend = "postgres", PostgresInv, StoreInv',
         RevokeSuccessor(w)
  PROVE  PostgresInv'
<1> DEFINE t == tx[w]
           seen == Seen(w)
           pair == t.row.next
           r == IF Live(seen.refresh[pair]) THEN RevokePair(seen.refresh, pair)
                ELSE seen.refresh
           a == IF CanMarkFirstUse(seen.access, pair)
                THEN RevokePair(seen.access, pair) ELSE seen.access
           db == [seen EXCEPT
              !.refresh = IF Live(@[pair]) THEN RevokePair(@, pair) ELSE @,
              !.access = IF CanMarkFirstUse(@, pair) THEN RevokePair(@, pair)
                         ELSE @]
           claimed == ClaimRetry(refresh, t.token, t.at)
           ok == CanRevokeSuccessor(seen.refresh, seen.access, pair)
           s == IF ok THEN "issue" ELSE "endSession"
<1>1. t.step = "revokeSuccessor" /\ ~Unlocked(t) /\ Write(w, db, s)
  BY DEF RevokeSuccessor, Unlocked
<1>2. /\ t \in UnitOfWork /\ FoundItsRow(t) /\ ReservedItsProof(t)
      /\ RefreshAgrees(t) /\ Standing(t) /\ t.at \in Nat
      /\ Pair = 1..Len(refresh) /\ refresh \in Seq(RefreshRow)
      /\ Linked(refresh) /\ access \in Seq(AccessRow) /\ DOMAIN access = Pair
      /\ OfToken(t) => t.token \in Pair /\ t.row = refresh[t.token]
  BY <1>1, PgUnit
<1>3. /\ t.token \in Pair /\ t.row = refresh[t.token] /\ t.kind = "refresh"
      /\ pair = refresh[t.token].next /\ pair # None
  BY <1>1, <1>2 DEF FoundItsRow, RotationStep, OfToken, Unlocked
<1>4. pair \in Pair /\ pair # t.token
  BY <1>3, SuccessorLater DEF PostgresInv
<1>5. RetryWritten(t) /\ NoAccessWritten(t) /\ SessionDoc \notin t.wrote
  BY <1>1, <1>2 DEF Standing
<1>6. /\ seen.refresh = claimed /\ seen.session = t.view.session
      /\ seen.access = access /\ t.view.refresh = claimed
  BY <1>1, <1>5, PgSees DEF RetryWritten
<1>7. /\ Linked(claimed) /\ Len(claimed) = Len(refresh)
      /\ DOMAIN claimed = Pair /\ claimed[pair] = refresh[pair]
  <2>1. Linked(claimed) /\ Len(claimed) = Len(refresh)
    BY <1>2, <1>3, Claims DEF Pair
  <2>2. DOMAIN claimed = Pair
    BY DEF ClaimRetry, Pair
  <2>3. claimed[pair] = refresh[pair]
    BY <1>4 DEF ClaimRetry, Pair
  <2> QED BY <2>1, <2>2, <2>3
<1>8. seen \in Family
  BY SeenFamily DEF PostgresInv
<1>9. db = [session |-> seen.session, refresh |-> r, access |-> a]
  <2> HIDE DEF seen
  <2>1. seen = [session |-> seen.session, refresh |-> seen.refresh,
                access |-> seen.access]
    BY <1>8, FamilyTable
  <2>2. \A x, y : [seen EXCEPT !.refresh = x, !.access = y]
                   = [session |-> seen.session, refresh |-> x, access |-> y]
    BY ZenonT(60), <2>1, BothTables
  <2> QED BY <2>2
<1>10. Targets(w) = {RefreshDoc(k) : k \in {i \in {pair} : Live(seen.refresh[i])}}
              \cup {AccessDoc(k) : k \in {i \in {pair} :
                                           CanMarkFirstUse(seen.access, i)}}
  BY <1>1 DEF Targets
<1>11. /\ r = (IF Live(refresh[pair]) THEN RevokePair(claimed, pair) ELSE claimed)
       /\ a = (IF CanMarkFirstUse(access, pair) THEN RevokePair(access, pair)
               ELSE access)
       /\ ok <=> CanRevokeSuccessor(refresh, access, pair)
  BY <1>6, <1>7 DEF CanRevokeSuccessor
<1>12. /\ \A k \in Pair : RefreshDoc(k) \in Targets(w)
                            <=> k = pair /\ Live(refresh[pair])
       /\ \A k \in Pair : AccessDoc(k) \in Targets(w)
                            <=> k = pair /\ CanMarkFirstUse(access, pair)
       /\ SessionDoc \notin Targets(w)
  BY <1>4, <1>6, <1>7, <1>10, DocsDiffer
<1> HIDE DEF r, a, db, ok, seen, claimed, pair
<1>13. PICK u \in UnitOfWork :
         /\ tx' = [tx EXCEPT ![w] = u]
         /\ UNCHANGED vars /\ requests' = requests
         /\ SameRequest(u, t) /\ u.step = s /\ u.view = db
         /\ u.wrote = t.wrote \cup Targets(w)
         /\ u.row = t.row /\ u.locks = t.locks /\ u.proofs = t.proofs
         /\ u.made = t.made
  BY <1>1, PgWrites DEF PostgresInv
<1>14. /\ u.kind = t.kind /\ u.token = t.token /\ u.at = t.at
       /\ u.view.refresh = r /\ u.view.access = a
       /\ u.view.session = t.view.session
       /\ SessionDoc \notin u.wrote
  BY <1>5, <1>6, <1>9, <1>12, <1>13 DEF SameRequest
<1>15. RefreshAgrees(u)
  <2>1. Len(r) = Len(refresh)
    BY <1>4, <1>7, <1>11, Withdraws
  <2>2. u.view.session = session
    BY <1>2, <1>5, <1>14 DEF RefreshAgrees
  <2>3. ASSUME NEW k \in Pair, RefreshDoc(k) \notin u.wrote
        PROVE  r[k] = refresh[k]
    <3>1. RefreshDoc(k) \notin t.wrote /\ ~(k = pair /\ Live(refresh[pair]))
      BY <1>12, <1>13, <2>3
    <3>2. claimed[k] = refresh[k]
      BY <1>2, <1>6, <3>1 DEF RefreshAgrees
    <3>3. RevokePair(claimed, pair)[k] = claimed[k] \/ k = pair
      BY <1>4, <1>7, Withdraws
    <3> QED BY <1>11, <3>1, <3>2, <3>3
  <2> QED BY <1>14, <2>1, <2>2, <2>3 DEF RefreshAgrees
<1>16. /\ Retries(u) /\ CanClaimRetry(refresh, u.token, u.at)
       /\ InsideRetryWindow(refresh[u.token], u.at)
       /\ HasUnusedSuccessor(refresh, access, u.token) \/ access[pair].firstUsed
  BY <1>3, <1>5, <1>14 DEF RetryWritten, SuccessorFound, Retries
<1>17. CASE ok
  <2>1. /\ Live(refresh[pair]) /\ Live(access[pair]) /\ ~access[pair].firstUsed
    BY <1>11, <1>17 DEF CanRevokeSuccessor
  <2>2. CanMarkFirstUse(access, pair)
    BY <2>1 DEF CanMarkFirstUse
  <2>3. HasUnusedSuccessor(refresh, access, u.token)
    BY <1>16, <2>1
  <2>4. /\ u.view.refresh
             = RevokePair(ClaimRetry(refresh, u.token, u.at), pair)
        /\ u.view.access = RevokePair(access, pair)
    BY <1>11, <1>14, <2>1, <2>2 DEF claimed
  <2>5. RetryReady(u)
    BY <1>3, <1>14, <1>16, <2>3, <2>4 DEF RetryReady, Retryable
  <2>6. AccessAgrees(u)
    <3> SUFFICES ASSUME NEW k \in Pair
                 PROVE  /\ CanMarkFirstUse(access, k) => AccessDoc(k) \in u.wrote
                        /\ AccessDoc(k) \notin u.wrote =>
                             u.view.access[k] = access[k]
      BY DEF AccessAgrees
    <3>1. CanMarkFirstUse(access, k) => k = pair
      BY <1>4, <2>1 DEF CanMarkFirstUse, PostgresInv, IndInv, OneLivePair
    <3>2. AccessDoc(pair) \in u.wrote
      BY <1>4, <1>12, <1>13, <2>2
    <3>3. k # pair => RevokePair(access, pair)[k] = access[k]
      BY <1>2, <1>4, WithdrawsAccess
    <3> QED BY <2>4, <3>1, <3>2, <3>3
  <2>7. u.step = "issue"
    BY <1>13, <1>17
  <2>8. Standing(u) /\ ~Unlocked(u)
    BY <1>14, <2>5, <2>6, <2>7 DEF Standing, Unlocked
  <2> HIDE DEF t, s
  <2> QED BY <1>1, <1>13, <1>15, <2>8, PgGoes DEF t
<1>18. CASE ~ok
  <2>1. ~HasUnusedSuccessor(refresh, access, u.token)
    BY <1>3, <1>11, <1>14, <1>18 DEF HasUnusedSuccessor
  <2>2. access[pair].firstUsed /\ ~CanMarkFirstUse(access, pair)
    BY <1>16, <2>1 DEF CanMarkFirstUse
  <2>3. NoAccessWritten(u)
    BY <1>5, <1>12, <1>13, <2>2 DEF NoAccessWritten
  <2>4. ReplaysUsed(u)
    BY <1>16, <2>1 DEF ReplaysUsed
  <2>5. RevokeAll(r) = RevokeAll(claimed)
    BY <1>4, <1>7, <1>11, RevokedTwice
  <2>6. EndReady(u)
    BY <1>14, <2>4, <2>5 DEF EndReady, claimed
  <2>7. u.step = "endSession"
    BY <1>13, <1>18
  <2>8. Standing(u) /\ ~Unlocked(u)
    BY <1>14, <2>3, <2>6, <2>7 DEF Standing, Unlocked
  <2> HIDE DEF t, s
  <2> QED BY <1>1, <1>13, <1>15, <2>8, PgGoes DEF t
<1> QED BY <1>17, <1>18

LEMMA PgEndSession ==
  ASSUME NEW w \in Worker, Backend = "postgres", PostgresInv, StoreInv',
         EndSession(w)
  PROVE  PostgresInv'
<1> DEFINE t == tx[w]
           seen == Seen(w)
           db == [seen EXCEPT !.session = "ended"]
           s == IF t.kind = "select" THEN "commit" ELSE "endTokens"
<1>1. t.step = "endSession" /\ ~Unlocked(t)
  BY DEF EndSession, Unlocked
<1>2. /\ t \in UnitOfWork /\ FoundItsRow(t) /\ RefreshAgrees(t) /\ Standing(t)
      /\ t.kind \in Kind
  BY <1>1, PgUnit, UnitFields
<1>3. /\ NoAccessWritten(t) /\ EndReady(t) /\ SessionDoc \notin t.wrote
      /\ t.made = None
  BY <1>1, <1>2 DEF Standing, FoundItsRow
<1>4. /\ seen.refresh = t.view.refresh /\ seen.session = session
      /\ seen \in Family
  BY <1>1, <1>2, <1>3, PgSees, SeenFamily DEF RefreshAgrees, PostgresInv
<1>5. t.kind \in {"signOut", "select"} =>
        session = "live" /\ t.view.refresh = refresh
  BY <1>3 DEF EndReady, MayEnd, Replays, ReplaysUsed, Retries
<1>6. Targets(w) = {SessionDoc}
  BY <1>1, <1>2, <1>4, <1>5 DEF Targets, Kind
<1>7. Write(w, db, s)
  BY <1>6 DEF EndSession
<1>8. db.refresh = t.view.refresh /\ db.session = "ended"
  BY <1>4 DEF Family, Tables
<1> HIDE DEF seen, db
<1>9. PICK u \in UnitOfWork :
         /\ tx' = [tx EXCEPT ![w] = u]
         /\ UNCHANGED vars /\ requests' = requests
         /\ SameRequest(u, t) /\ u.step = s /\ u.view = db
         /\ u.wrote = t.wrote \cup Targets(w)
         /\ u.row = t.row /\ u.locks = t.locks /\ u.proofs = t.proofs
         /\ u.made = t.made
  BY <1>7, PgWrites DEF PostgresInv
<1>10. /\ u.kind = t.kind /\ u.token = t.token /\ u.at = t.at
       /\ ProofId(u) = ProofId(t) /\ SessionDoc \in u.wrote
       /\ u.view.refresh = t.view.refresh /\ u.view.session = "ended"
  BY <1>6, <1>8, <1>9 DEF SameRequest, ProofId
<1>11. RefreshAgrees(u)
  BY <1>2, <1>6, <1>9, <1>10, DocsDiffer DEF RefreshAgrees
<1>12. NoAccessWritten(u)
  BY <1>3, <1>6, <1>9, DocsDiffer DEF NoAccessWritten
<1>13. EndReady(u)
  BY <1>3, <1>9, <1>10 DEF EndReady, MayEnd, Replays, ReplaysUsed, Retries
<1>14. CASE t.kind = "select"
  <2>1. SelectedEnded(u)
    BY <1>5, <1>10, <1>12, <1>14 DEF SelectedEnded
  <2>2. u.step = "commit" /\ u.made = None
    BY <1>3, <1>9, <1>14
  <2>3. Standing(u) /\ ~Unlocked(u)
    BY <2>1, <2>2 DEF Standing, Unlocked
  <2> HIDE DEF t, s
  <2> QED BY <1>1, <1>9, <1>11, <2>3, PgGoes DEF t
<1>15. CASE t.kind # "select"
  <2>1. u.step = "endTokens"
    BY <1>9, <1>15
  <2>2. Standing(u) /\ ~Unlocked(u)
    BY <1>10, <1>12, <1>13, <1>15, <2>1 DEF Standing, Unlocked
  <2> HIDE DEF t, s
  <2> QED BY <1>1, <1>9, <1>11, <2>2, PgGoes DEF t
<1> QED BY <1>14, <1>15

LEMMA PgEndTokens ==
  ASSUME NEW w \in Worker, Backend = "postgres", PostgresInv, StoreInv',
         EndTokens(w)
  PROVE  PostgresInv'
<1> DEFINE t == tx[w]
           seen == Seen(w)
           db == [seen EXCEPT !.refresh = RevokeAll(@), !.access = RevokeAll(@)]
           claimed == ClaimRetry(refresh, t.token, t.at)
<1>1. t.step = "endTokens" /\ ~Unlocked(t) /\ Write(w, db, "commit")
  BY DEF EndTokens, Unlocked
<1>2. /\ t \in UnitOfWork /\ FoundItsRow(t) /\ RefreshAgrees(t) /\ Standing(t)
      /\ WritesItsFamily(t)
      /\ Len(refresh) \in Nat /\ Pair = 1..Len(refresh)
      /\ Len(access) = Len(refresh)
  BY <1>1, PgUnit, UnitFacts DEF PostgresInv
<1>3. /\ NoAccessWritten(t) /\ EndReady(t) /\ SessionDoc \in t.wrote
      /\ t.made = None /\ t.view.session = "ended"
  BY <1>1, <1>2 DEF Standing, FoundItsRow, WritesItsFamily
<1>4. /\ seen.refresh = t.view.refresh /\ seen.session = "ended"
      /\ seen.access = access /\ seen \in Family
  BY <1>1, <1>2, <1>3, PgSees, SeenFamily DEF PostgresInv
<1>5. /\ DOMAIN seen.refresh = Pair /\ DOMAIN seen.access = Pair
      /\ Linked(seen.refresh) /\ Len(seen.refresh) = Len(refresh)
  BY <1>2, <1>4, FamilyTable DEF RefreshAgrees
<1>6. /\ db.refresh = RevokeAll(t.view.refresh) /\ db.access = RevokeAll(access)
      /\ db.session = "ended"
  <2> HIDE DEF seen
  <2>1. seen = [session |-> seen.session, refresh |-> seen.refresh,
                access |-> seen.access]
    BY <1>4, FamilyTable
  <2>2. \A x, y : [seen EXCEPT !.refresh = x, !.access = y]
                   = [session |-> seen.session, refresh |-> x, access |-> y]
    BY ZenonT(60), <2>1, BothTables
  <2>3. db = [session |-> seen.session, refresh |-> RevokeAll(seen.refresh),
              access |-> RevokeAll(seen.access)]
    BY <2>2
  <2> QED BY <1>4, <2>3
<1>7. Targets(w) = {RefreshDoc(k) : k \in Pair} \cup {AccessDoc(k) : k \in Pair}
  BY <1>1, <1>5 DEF Targets, TokenDocs
<1> HIDE DEF seen, db
<1>8. PICK u \in UnitOfWork :
         /\ tx' = [tx EXCEPT ![w] = u]
         /\ UNCHANGED vars /\ requests' = requests
         /\ SameRequest(u, t) /\ u.step = "commit" /\ u.view = db
         /\ u.wrote = t.wrote \cup Targets(w)
         /\ u.row = t.row /\ u.locks = t.locks /\ u.proofs = t.proofs
         /\ u.made = t.made
  BY <1>1, PgWrites DEF PostgresInv
<1>9. /\ u.kind = t.kind /\ u.token = t.token /\ u.at = t.at
      /\ ProofId(u) = ProofId(t) /\ SessionDoc \in u.wrote
      /\ \A k \in Pair : RefreshDoc(k) \in u.wrote /\ AccessDoc(k) \in u.wrote
      /\ u.view.refresh = RevokeAll(t.view.refresh)
      /\ u.view.access = RevokeAll(access) /\ u.view.session = "ended"
  BY <1>3, <1>6, <1>7, <1>8 DEF SameRequest, ProofId
<1>10. Len(u.view.refresh) = Len(refresh)
  BY <1>4, <1>5, <1>9, RevokesAll
<1>11. RefreshAgrees(u) /\ AccessAgrees(u)
  BY <1>9, <1>10 DEF RefreshAgrees, AccessAgrees
<1>12. \E table \in {refresh, claimed} :
         MayEnd(t, table) /\ u.view.refresh = RevokeAll(table)
  BY <1>3, <1>9 DEF EndReady, MayEnd
<1>13. \A table : MayEnd(t, table) => MayEnd(u, table)
  BY <1>8, <1>9 DEF MayEnd, Replays, ReplaysUsed, Retries
<1>14. FamilyEnded(u)
  BY <1>9, <1>11, <1>12, <1>13 DEF FamilyEnded
<1>15. Standing(u) /\ ~Unlocked(u)
  BY <1>3, <1>8, <1>14 DEF Standing, Unlocked
<1> HIDE DEF t
<1> QED BY <1>1, <1>8, <1>11, <1>15, PgGoes DEF t

(* What rotate decides at once is what the token, as found, calls for.     *)
LEMMA PgFind ==
  ASSUME NEW w \in Worker, Backend = "postgres", PostgresInv, StoreInv', Find(w)
  PROVE  PostgresInv'
<1> DEFINE t == tx[w]
           row == IF t.token = None THEN <<>> ELSE refresh[t.token]
           step == CASE t.kind = "refresh" -> AfterFind(t, row)
                     [] t.kind = "revoke" -> IF bound THEN "reserve"
                                             ELSE "endSession"
                     [] OTHER -> IF session = "live" THEN "endSession"
                                 ELSE "leave"
           u == [t EXCEPT !.view = Committed, !.row = row, !.locks = TRUE,
                          !.step = step]
<1>1. t.step = "find" /\ t.step # "idle"
  BY DEF Find
<1>2. /\ t \in UnitOfWork /\ WritesItsFamily(t) /\ FoundItsRow(t)
      /\ tx \in [Worker -> UnitOfWork]
      /\ Committed.refresh = refresh /\ Committed.session = session
      /\ Pair = 1..Len(refresh) /\ t.kind \in Kind
  BY UnitFacts, UnitFields DEF PostgresInv, StoreInv
<1>3. CASE Refuse(w) \/ Leave(w)
  BY <1>1, <1>3, PgRefuses DEF Refuse, Leave
<1>4. CASE ~(Refuse(w) \/ Leave(w))
  <2>1. /\ tx' = [tx EXCEPT ![w] = u] /\ NothingStored /\ step # "leave"
        /\ ~FamilyTaken(w)
    BY <1>4 DEF Find
  <2>2. \A v \in Worker \ {w} : ~tx[v].locks
    BY <2>1 DEF FamilyTaken
  <2>3. u \in UnitOfWork
    <3>1. tx'[w] = u
      BY <1>2, <2>1
    <3>2. tx'[w] \in UnitOfWork
      BY DEF StoreInv
    <3> QED BY <3>1, <3>2
  <2>4. t.wrote = {} /\ t.proofs = {} /\ t.made = None
    BY <1>1, <1>2 DEF WritesItsFamily, FoundItsRow, Unlocked
  <2>5. /\ OfToken(t) => t.token \in Pair /\ row = refresh[t.token]
        /\ ~OfToken(t) => row = <<>>
    BY <1>1, <1>2 DEF FoundItsRow, None
  <2> HIDE DEF row
  <2>6. /\ step \in {"claimRefresh", "reserve", "endSession"}
        /\ step = "claimRefresh" => Rotates(t)
        /\ step = "reserve" =>
             bound /\ (t.kind = "revoke" \/ Rotates(t) \/ Retries(t))
        /\ step = "endSession" => MayEnd(t, refresh)
    <3>1. CASE t.kind = "refresh"
      <4>1. row = refresh[t.token]
        BY <2>5, <3>1 DEF OfToken
      <4>2. step = AfterFind(t, row)
        BY <3>1
      <4> HIDE DEF step
      <4>3. ~row.revoked
        BY <2>1, <4>2 DEF AfterFind
      <4>4. CASE row.spent /\ (~bound \/ ~HasAuthority(t.at))
        <5>1. step = "endSession"
          BY <4>2, <4>3, <4>4 DEF AfterFind
        <5>2. MayEnd(t, refresh)
          BY <3>1, <4>1, <4>3, <4>4 DEF MayEnd, Replays
        <5> QED BY <5>1, <5>2
      <4>5. CASE row.spent /\ bound /\ HasAuthority(t.at)
        <5>1. step = "reserve"
          BY <4>2, <4>3, <4>5 DEF AfterFind
        <5>2. Retries(t)
          BY <3>1, <4>1, <4>3, <4>5 DEF Retries
        <5> QED BY <4>5, <5>1, <5>2
      <4>6. CASE ~row.spent
        <5>1. ~(row.expiresAt <= t.at \/ ~HasAuthority(t.at))
          BY <2>1, <4>2, <4>3, <4>6 DEF AfterFind
        <5>2. step = IF bound THEN "reserve" ELSE "claimRefresh"
          BY <4>2, <4>3, <4>6, <5>1 DEF AfterFind
        <5>3. row \in RefreshRow /\ t.at \in Nat
          <6>1. refresh \in Seq(RefreshRow)
            BY DEF PostgresInv, StoreInv, TypeOK
          <6>2. t.token \in Pair
            BY <2>5, <3>1 DEF OfToken
          <6>3. t.at \in Nat
            BY <1>2, UnitFields
          <6> QED BY <1>2, <4>1, <6>1, <6>2, <6>3
        <5>4. row.expiresAt > t.at
          BY <5>1, <5>3 DEF RefreshRow, Time
        <5>5. Rotates(t)
          BY <3>1, <4>1, <4>3, <4>6, <5>1, <5>4 DEF Rotates
        <5> QED BY <5>2, <5>5
      <4> QED BY <4>4, <4>5, <4>6
    <3>2. CASE t.kind = "revoke"
      BY <3>2 DEF MayEnd
    <3>3. CASE t.kind \notin {"refresh", "revoke"}
      BY <1>2, <2>1, <3>3 DEF MayEnd, Kind
    <3> QED BY <3>1, <3>2, <3>3
  <2> HIDE DEF step
  <2>7. /\ u.step = step /\ u.row = row /\ u.locks
        /\ u.view = Committed /\ u.wrote = t.wrote /\ u.proofs = t.proofs
        /\ u.made = t.made /\ u.kind = t.kind /\ u.token = t.token /\ u.at = t.at
    BY <1>2 DEF UnitOfWork
  <2> HIDE DEF u
  <2>8. RefreshAgrees(u) /\ NothingWritten(u) /\ NoAccessWritten(u)
    BY <1>2, <2>4, <2>7 DEF RefreshAgrees, NothingWritten, NoAccessWritten
  <2>9. /\ Rotates(t) => Rotates(u)
        /\ Retries(t) => Retries(u)
    BY <2>7 DEF Rotates, Retries
  <2>10. ASSUME step = "endSession"
         PROVE  EndReady(u) /\ SessionDoc \notin u.wrote
    <3>1. MayEnd(t, refresh)
      BY <2>6, <2>10
    <3>2. MayEnd(u, refresh)
      BY <2>4, <2>7, <3>1 DEF MayEnd, Replays, ReplaysUsed, Retries, ProofId
    <3> QED BY <1>2, <2>4, <2>7, <3>2 DEF EndReady
  <2>11. Standing(u)
    <3>1. CASE step = "claimRefresh"
      BY <2>6, <2>7, <2>8, <2>9, <3>1 DEF Standing
    <3>2. CASE step = "reserve"
      BY <2>4, <2>6, <2>7, <2>8, <2>9, <3>2 DEF Standing
    <3>3. CASE step = "endSession"
      BY <2>7, <2>8, <2>10, <3>3 DEF Standing
    <3> QED BY <2>6, <3>1, <3>2, <3>3
  <2>12. HasFamily(u)
    BY <2>5, <2>7, <2>8, <2>11 DEF HasFamily, OfToken
  <2>13. UNCHANGED vars /\ requests' = requests
    BY <2>1 DEF NothingStored
  <2> HIDE DEF t
  <2> QED BY <1>1, <2>1, <2>2, <2>3, <2>12, <2>13, PgLocal DEF t
<1> QED BY <1>3, <1>4

LEMMA PgReserve ==
  ASSUME NEW w \in Worker, Backend = "postgres", PostgresInv, StoreInv', Reserve(w)
  PROVE  PostgresInv'
<1> DEFINE t == tx[w]
           step == IF t.kind = "revoke" THEN "endSession"
                   ELSE IF ~t.row.spent THEN "claimRefresh"
                   ELSE IF InsideRetryWindow(t.row, t.at) THEN "successor"
                   ELSE "endSession"
           id == ProofId(t)
           u == [t EXCEPT !.proofs = {id}, !.step = step]
<1>1. t.step = "reserve" /\ t.step # "idle" /\ ~Unlocked(t)
  BY DEF Reserve, Unlocked
<1>2. /\ t \in UnitOfWork /\ FoundItsRow(t) /\ RefreshAgrees(t) /\ Standing(t)
      /\ OfToken(t) => t.token \in Pair /\ t.row = refresh[t.token]
  BY <1>1, PgUnit
<1>3. CASE Refuse(w) \/ Leave(w)
  BY <1>1, <1>3, PgRefuses DEF Refuse, Leave
<1>4. CASE ~(Refuse(w) \/ Leave(w))
  <2>1. tx' = [tx EXCEPT ![w] = u] /\ NothingStored
    BY <1>4 DEF Reserve
  <2>2. u \in UnitOfWork
    <3>1. tx'[w] = u
      BY <2>1 DEF PostgresInv, StoreInv
    <3>2. tx'[w] \in UnitOfWork
      BY DEF StoreInv
    <3> QED BY <3>1, <3>2
  <2>3. /\ NothingWritten(t) /\ bound
        /\ t.kind = "revoke" \/ Rotates(t) \/ Retries(t)
    BY <1>1, <1>2 DEF Standing
  <2>4. t.row = refresh[t.token] /\ t.kind \in {"refresh", "revoke"}
    BY <1>1, <1>2 DEF FoundItsRow, OfToken
  <2>5. /\ step \in {"claimRefresh", "successor", "endSession"}
        /\ step = "claimRefresh" => Rotates(t)
        /\ step = "successor" =>
             Retries(t) /\ InsideRetryWindow(refresh[t.token], t.at)
        /\ step = "endSession" =>
             t.kind = "revoke" \/ (Retries(t) /\ ~Retryable(t.token, t.at))
    BY <2>3, <2>4 DEF Rotates, Retries, Retryable
  <2> HIDE DEF step
  <2>6. ProofId(u) = id
    BY <1>2 DEF ProofId, UnitOfWork
  <2> HIDE DEF id
  <2>7. /\ u.step = step /\ u.proofs = {id}
        /\ SameRequest(u, t) /\ u.row = t.row /\ u.view = t.view
        /\ u.wrote = t.wrote /\ u.made = t.made /\ u.locks = t.locks
    BY <1>2 DEF UnitOfWork, SameRequest
  <2> HIDE DEF u
  <2>8. u.kind = t.kind /\ u.token = t.token /\ u.at = t.at
    BY <2>7 DEF SameRequest
  <2>9. RefreshAgrees(u) /\ NothingWritten(u) /\ NoAccessWritten(u)
    BY <1>2, <2>3, <2>7 DEF RefreshAgrees, NothingWritten, NoAccessWritten
  <2>10. Standing(u)
    <3>1. CASE step = "claimRefresh"
      BY <2>5, <2>7, <2>8, <2>9, <3>1 DEF Standing, Rotates
    <3>2. CASE step = "successor"
      BY <2>5, <2>7, <2>8, <2>9, <3>2 DEF Standing, Retries
    <3>3. CASE step = "endSession"
      <4>1. ProofId(u) \in u.proofs
        BY <2>6, <2>7
      <4>2. MayEnd(u, refresh)
        BY <2>5, <2>8, <3>3, <4>1 DEF MayEnd, Replays, Retries
      <4>3. EndReady(u) /\ SessionDoc \notin u.wrote
        BY <2>9, <4>2 DEF EndReady, NothingWritten
      <4> QED BY <2>7, <2>9, <3>3, <4>3 DEF Standing
    <3> QED BY <2>5, <3>1, <3>2, <3>3
  <2>11. UNCHANGED vars /\ requests' = requests /\ ~Unlocked(u)
    BY <2>1, <2>5, <2>7 DEF NothingStored, Unlocked
  <2> HIDE DEF t
  <2> QED BY <1>1, <2>1, <2>2, <2>7, <2>9, <2>10, <2>11, PgGoes DEF t
<1> QED BY <1>3, <1>4

LEMMA PgStart ==
  ASSUME NEW w \in Worker, NEW kind \in Kind, NEW i \in Nat, NEW n \in Nat,
         PostgresInv, StoreInv', Start(w, kind, i, n)
  PROVE  PostgresInv'
<1> DEFINE u == [Idle EXCEPT !.step = "find", !.kind = kind, !.token = i,
                             !.proof = n, !.at = clock, !.run = 1]
<1>1. /\ tx' = [tx EXCEPT ![w] = u] /\ tx[w].step = "idle"
      /\ requests' = requests + 1 /\ requests < MaxRequests /\ UNCHANGED vars
  BY DEF Start
<1>2. u.step = "find" /\ ~u.locks
  BY DEF Idle
<1> HIDE DEF u
<1>3. /\ tx \in [Worker -> UnitOfWork] /\ requests \in Nat
      /\ Len(refresh) \in Nat
  BY DEF PostgresInv, StoreInv, TypeOK
<1>4. \A v \in Worker : tx'[v] = IF v = w THEN u ELSE tx[v]
  BY <1>1, <1>3
<1>5. UNCHANGED <<clock, code, session, bound, absolute, authority, refresh,
                  access>>
  BY <1>1 DEF vars
<1>6. IndInv'
  BY <1>1, NextIndInv DEF PostgresInv
<1>7. authority' /\ LockOnce'
  BY <1>2, <1>4, <1>5 DEF PostgresInv, LockOnce
<1>8. HasFamily(u)
  BY <1>2 DEF HasFamily, Unlocked
<1>9. (\A t \in UnitsOfWork : HasFamily(t))'
  <2> SUFFICES ASSUME NEW t \in UnitsOfWork' PROVE HasFamily(t)'
    OBVIOUS
  <2>1. HasFamily(t)
    BY <1>4, <1>8 DEF PostgresInv, UnitsOfWork
  <2> QED BY <1>5, <2>1, PgSame
<1>10. PairsRequested'
  <2>1. Open' = Open \cup {w} /\ w \notin Open
    BY <1>1, <1>2, <1>4 DEF Open
  <2>2. /\ IsFiniteSet(Open) /\ Len(refresh) + Cardinality(Open) <= requests + 1
    BY DEF PostgresInv, PairsRequested
  <2>3. /\ IsFiniteSet(Open') /\ Cardinality(Open') = Cardinality(Open) + 1
        /\ Cardinality(Open) \in Nat
    BY <2>1, <2>2, FS_AddElement, FS_CardinalityType
  <2> QED BY <1>1, <1>3, <1>5, <2>2, <2>3, StoresAssumption DEF PairsRequested
<1> QED BY <1>6, <1>7, <1>9, <1>10 DEF PostgresInv

-----------------------------------------------------------------------------
(* PostgreSQL: the steps that commit something. *)

(* Marking a first use is what NativeFamily says, and it finds every token *)
(* it could mark locked once the family is being withdrawn or rotated.     *)
LEMMA PgFirstUse ==
  ASSUME NEW i \in Pair, Backend = "postgres", PostgresInv, StoreInv', FirstUse(i)
  PROVE  PostgresInv' /\ [Next]_vars /\ UNCHANGED <<session, refresh>>
<1>1. /\ UseAccess(i) /\ bound /\ CanMarkFirstUse(access, i)
      /\ access' = MarkFirstUse(access, i)
      /\ \A v \in Worker : AccessDoc(i) \notin tx[v].wrote
      /\ UNCHANGED <<clock, code, session, bound, absolute, authority, refresh,
                     requests>>
  BY DEF FirstUse, UseAccess
<1>2. Next
  BY <1>1 DEF Next
<1>3. IndInv'
  BY <1>2, NextIndInv DEF PostgresInv
<1>4. tx' = tx
  <2>1. tx \in [Worker -> UnitOfWork] /\ tx' = Notify(tx, {AccessDoc(i)})
    BY DEF FirstUse, PostgresInv, StoreInv
  <2> QED BY <2>1 DEF Notify
<1>5. authority' /\ LockOnce' /\ PairsRequested'
  BY <1>1, <1>4 DEF PostgresInv, LockOnce, PairsRequested, Open
<1>6. /\ access \in Seq(AccessRow) /\ DOMAIN access = Pair
      /\ \A k \in Pair : access[k] \in AccessRow
  BY DEF PostgresInv, IndInv, TypeOK, Pair
<1>7. /\ \A k \in Pair \ {i} : access'[k] = access[k]
      /\ access'[i] = [access[i] EXCEPT !.firstUsed = TRUE]
      /\ DOMAIN access' = Pair
  BY <1>1, <1>6 DEF MarkFirstUse
<1>8. \A k \in Pair : /\ access'[k].spent = access[k].spent
                      /\ access'[k].revoked = access[k].revoked
                      /\ access'[k].generation = access[k].generation
                      /\ access'[k].firstUsed = (access[k].firstUsed \/ k = i)
  <2> SUFFICES ASSUME NEW k \in Pair
               PROVE  /\ access'[k].spent = access[k].spent
                      /\ access'[k].revoked = access[k].revoked
                      /\ access'[k].generation = access[k].generation
                      /\ access'[k].firstUsed = (access[k].firstUsed \/ k = i)
    OBVIOUS
  <2> QED BY <1>6, <1>7 DEF AccessRow
<1>9. ASSUME NEW k \in Pair
      PROVE  /\ HasUnusedSuccessor(refresh, access', k)
                  => HasUnusedSuccessor(refresh, access, k)
             /\ HasUnusedSuccessor(refresh, access, k)
                  => \/ HasUnusedSuccessor(refresh, access', k)
                     \/ access'[refresh[k].next].firstUsed
  <2>1. refresh[k].next # None => refresh[k].next \in Pair
    BY SuccessorLater DEF PostgresInv
  <2>2. HasUnusedSuccessor(refresh, access', k)
          => HasUnusedSuccessor(refresh, access, k)
    BY <1>6, <1>7, <1>8, <2>1 DEF HasUnusedSuccessor, CanRevokeSuccessor, Live
  <2>3. ASSUME HasUnusedSuccessor(refresh, access, k)
        PROVE  access'[refresh[k].next].firstUsed
               \/ HasUnusedSuccessor(refresh, access', k)
    <3>1. /\ refresh[k].next \in Pair /\ Live(refresh[refresh[k].next])
      BY <2>1, <2>3 DEF HasUnusedSuccessor, CanRevokeSuccessor
    <3>2. Live(refresh[i])
      BY <1>1 DEF CanMarkFirstUse, PostgresInv, IndInv, OneLivePair
    <3>3. i = refresh[k].next
      BY <3>1, <3>2 DEF PostgresInv, IndInv, OneLivePair
    <3> QED BY <1>8, <3>3
  <2> QED BY <2>2, <2>3
<1>10. ASSUME NEW t \in UnitsOfWork, ~Unlocked(t)
       PROVE  HasFamily(t)'
  <2>1. PICK w \in Worker : t = tx[w]
    BY DEF UnitsOfWork
  <2>2. /\ t \in UnitOfWork /\ FoundItsRow(t)
        /\ RefreshAgrees(t) /\ Standing(t)
        /\ OfToken(t) => t.token \in Pair /\ t.row = refresh[t.token]
    BY <1>10, <2>1, PgUnit
  <2>3. HasFamily(t) /\ AccessDoc(i) \notin t.wrote
    BY <1>1, <2>1 DEF PostgresInv
  <2>4. ~AccessAgrees(t)
    BY <1>1, <2>3 DEF AccessAgrees
  <2>5. RefreshAgrees(t)' /\ (Rotates(t)' <=> Rotates(t))
        /\ (Retries(t)' <=> Retries(t)) /\ (NoAccessWritten(t)' <=> NoAccessWritten(t))
        /\ (NothingWritten(t)' <=> NothingWritten(t))
        /\ (ClaimWritten(t)' <=> ClaimWritten(t))
        /\ (SelectedEnded(t)' <=> SelectedEnded(t))
    BY <1>1, <2>2 DEF RefreshAgrees, Rotates, Retries, NoAccessWritten,
         NothingWritten, ClaimWritten, SelectedEnded, HasAuthority, Pair
  <2>6. t.kind = "refresh" => t.token \in Pair
    BY <2>2 DEF OfToken
  <2>7. SuccessorFound(t) => SuccessorFound(t)'
    <3> SUFFICES ASSUME SuccessorFound(t) PROVE SuccessorFound(t)'
      OBVIOUS
    <3>1. /\ Retries(t)' /\ InsideRetryWindow(refresh'[t.token], t.at)
          /\ t.token \in Pair /\ refresh[t.token].next \in Pair
          /\ refresh'[t.token].next # None
      BY <1>1, <2>5, <2>6, SuccessorLater DEF SuccessorFound, Retries, PostgresInv
    <3>2. CASE HasUnusedSuccessor(refresh, access, t.token)
      BY <1>1, <1>9, <3>1, <3>2 DEF SuccessorFound
    <3>3. CASE /\ access[refresh[t.token].next].firstUsed
               /\ ~HasUnusedSuccessor(refresh, access, t.token)
      <4>1. access'[refresh[t.token].next].firstUsed
        BY <1>8, <3>1, <3>3
      <4> QED BY <1>1, <3>1, <4>1 DEF SuccessorFound
    <3> QED BY <3>2, <3>3 DEF SuccessorFound
  <2>8. RetryWritten(t) => RetryWritten(t)'
    BY <1>1, <2>7 DEF RetryWritten
  <2>9. Replays(t) => Replays(t)'
    <3> SUFFICES ASSUME Replays(t) PROVE Replays(t)'
      OBVIOUS
    <3>1. HasAuthority(t.at)' <=> HasAuthority(t.at)
      BY <1>1 DEF HasAuthority
    <3>2. ~Retryable(t.token, t.at) => ~Retryable(t.token, t.at)'
      BY <1>1, <1>9, <2>6 DEF Retryable, Replays
    <3> QED BY <1>1, <3>1, <3>2 DEF Replays
  <2>10. ReplaysUsed(t) => ReplaysUsed(t)'
    BY <1>1, <1>9, <2>5, <2>6 DEF ReplaysUsed, Retries
  <2>11. EndReady(t) => EndReady(t)'
    <3>1. MayEnd(t, refresh) => MayEnd(t, refresh)'
      BY <1>1, <2>9, <2>10 DEF MayEnd
    <3> QED BY <1>1, <2>10, <3>1 DEF EndReady
  <2>12. ~FamilyEnded(t)
    BY <2>4 DEF FamilyEnded
  <2>13. Standing(t)'
    <3>1. CASE t.step \in {"reserve", "claimRefresh", "successor", "claimRetry"}
      BY <1>1, <2>2, <2>5, <2>7, <3>1 DEF Standing
    <3>2. CASE t.step \in {"retire", "revokeSuccessor"}
      BY <2>2, <2>5, <2>8, <3>2 DEF Standing
    <3>3. CASE t.step = "issue" \/ (t.step = "commit" /\ t.made # None)
      BY <2>2, <2>4, <3>3 DEF Standing
    <3>4. CASE t.step \in {"endSession", "endTokens"}
      BY <2>2, <2>5, <2>11, <3>4 DEF Standing
    <3>5. CASE t.step = "commit" /\ t.made = None
      BY <2>2, <2>5, <2>12, <3>5 DEF Standing
    <3> QED BY <2>2, <3>1, <3>2, <3>3, <3>4, <3>5 DEF Standing
  <2> QED BY <1>1, <2>3, <2>5, <2>13 DEF HasFamily
<1>11. (\A t \in UnitsOfWork : HasFamily(t))'
  <2>1. \A t \in UnitsOfWork : Unlocked(t) => HasFamily(t)'
    BY DEF HasFamily
  <2>2. UnitsOfWork' = UnitsOfWork
    BY <1>4 DEF UnitsOfWork
  <2> QED BY <1>10, <2>1, <2>2
<1> QED BY <1>1, <1>2, <1>3, <1>5, <1>11 DEF PostgresInv

(* A commit is a unit of work of NativeFamily, or it changes nothing.      *)
LEMMA PgRoom ==
  ASSUME NEW w \in Worker, PostgresInv, tx[w].step # "idle"
  PROVE  Len(refresh) < MaxPairs
<1>1. /\ IsFiniteSet(Open) /\ Len(refresh) + Cardinality(Open) <= requests + 1
      /\ requests <= MaxRequests /\ requests \in Nat /\ Len(refresh) \in Nat
  BY DEF PostgresInv, PairsRequested, StoreInv, TypeOK
<1>2. w \in Open
  BY DEF Open
<1>3. Cardinality(Open) \in Nat /\ Cardinality(Open) # 0
  BY <1>1, <1>2, FS_CardinalityType, FS_EmptySet
<1> QED BY <1>1, <1>3, StoresAssumption, BoundAssumption

LEMMA PgCommits ==
  ASSUME NEW w \in Worker, Backend = "postgres", PostgresInv,
         tx[w].step = "commit", Stored(w)
  PROVE  [Next]_vars
<1> DEFINE t == tx[w]
           seen == Seen(w)
<1>1. ~Unlocked(t) /\ t.step = "commit" /\ t.step # "idle"
  BY DEF Unlocked
<1>2. /\ t \in UnitOfWork /\ t.at \in 1..clock
      /\ RefreshAgrees(t) /\ Standing(t) /\ Pair = 1..Len(refresh)
      /\ OfToken(t) => t.token \in Pair
  BY <1>1, PgUnit
<1>3. /\ seen = Overlay(Committed, t.view, t.wrote)
      /\ seen.refresh = t.view.refresh
      /\ seen.session = t.view.session
      /\ NoAccessWritten(t) => seen.access = access
      /\ AccessAgrees(t) => seen.access = t.view.access
  BY <1>1, PgSees
<1> HIDE DEF seen
<1>4. /\ session' = After(w).session /\ refresh' = After(w).refresh
      /\ access' = After(w).access
      /\ UNCHANGED <<clock, code, bound, absolute, authority>>
  BY DEF Stored
<1>5. After(w) =
        IF t.made = None THEN seen
        ELSE [session |-> seen.session,
              refresh |->
                IF bound
                THEN LinkPair(IssuedRefresh(seen.refresh, t.made, absolute,
                                            t.token),
                              t.token, Len(seen.refresh) + 1)
                ELSE IssuedRefresh(seen.refresh, t.made, absolute, t.token),
              access |-> IssuedAccess(seen.access, t.made, t.at, absolute)]
  BY <1>3 DEF After
<1> HIDE DEF t
<1>6. ASSUME t.made = None PROVE [Next]_vars
  <2>1. /\ session' = t.view.session /\ refresh' = t.view.refresh
        /\ access' = seen.access
    BY <1>3, <1>4, <1>5, <1>6
  <2>2. NothingWritten(t) \/ SelectedEnded(t) \/ FamilyEnded(t)
    BY <1>1, <1>2, <1>6 DEF Standing
  <2>3. CASE NothingWritten(t)
    <3>1. NoAccessWritten(t) /\ t.view.session = session /\ t.view.refresh = refresh
      BY <1>2, <2>3 DEF NothingWritten, NoAccessWritten, RefreshAgrees
    <3> QED BY <1>3, <1>4, <2>1, <3>1 DEF vars
  <2>4. CASE SelectedEnded(t)
    <3>1. RevokeSelected
      BY <1>3, <1>4, <2>1, <2>4 DEF SelectedEnded, RevokeSelected
    <3> QED BY <3>1 DEF Next
  <2>5. CASE FamilyEnded(t)
    <3>1. PICK table \in {refresh, ClaimRetry(refresh, t.token, t.at)} :
            MayEnd(t, table) /\ t.view.refresh = RevokeAll(table)
      BY <2>5 DEF FamilyEnded
    <3>2. EndFamily(table)
      BY <1>3, <1>4, <2>1, <2>5, <3>1 DEF FamilyEnded, EndFamily
    <3>3. CASE /\ t.kind \in {"signOut", "select"} /\ session = "live"
               /\ table = refresh
      BY <3>2, <3>3 DEF RevokeNativeSession, Next
    <3>4. CASE t.kind = "revoke" /\ table = refresh
      <4>1. t.token \in Pair
        BY <1>2, <3>4 DEF OfToken
      <4>2. RevokeToken(t.token, "fresh")
        BY <3>2, <3>4, <4>1 DEF RevokeToken
      <4> QED BY <4>1, <4>2 DEF Next, Proof
    <3>5. CASE Replays(t) /\ table = refresh
      <4>1. t.token \in Pair
        BY <1>2, <3>5 DEF OfToken, Replays
      <4>2. Presented(t.token, "fresh")
        BY <3>5, <4>1 DEF Presented, Replays
      <4>3. Replay(t.token, "fresh", t.at)
        BY <3>2, <3>5, <4>2 DEF Replay, Replays
      <4> QED BY <1>2, <4>1, <4>3 DEF Next, Proof
    <3>6. CASE ReplaysUsed(t) /\ table = ClaimRetry(refresh, t.token, t.at)
      <4>1. t.token \in Pair
        BY <1>2, <3>6 DEF OfToken, ReplaysUsed, Retries
      <4>2. Presented(t.token, "fresh")
        BY <3>6, <4>1 DEF Presented, ReplaysUsed, Retries
      <4>3. ReplayUsed(t.token, "fresh", t.at)
        BY <3>2, <3>6, <4>2 DEF ReplayUsed, ReplaysUsed, Retries
      <4> QED BY <1>2, <4>1, <4>3 DEF Next, Proof
    <3> QED BY <3>1, <3>3, <3>4, <3>5, <3>6 DEF MayEnd
  <2> QED BY <2>2, <2>3, <2>4, <2>5
<1>7. ASSUME t.made # None PROVE [Next]_vars
  <2>1. /\ SessionDoc \notin t.wrote /\ AccessAgrees(t)
        /\ RotationReady(t) \/ RetryReady(t)
        /\ t.made = refresh[t.token].generation + 1
    BY <1>1, <1>2, <1>7 DEF Standing
  <2>2. /\ seen.session = session /\ seen.refresh = t.view.refresh
        /\ seen.access = t.view.access
        /\ Len(t.view.refresh) = Len(refresh)
    BY <1>2, <1>3, <2>1 DEF RefreshAgrees
  <2>3. /\ session' = session
        /\ refresh' = (IF bound
                       THEN LinkPair(IssuedRefresh(t.view.refresh, t.made,
                                                   absolute, t.token),
                                     t.token, Len(refresh) + 1)
                       ELSE IssuedRefresh(t.view.refresh, t.made, absolute,
                                          t.token))
        /\ access' = IssuedAccess(t.view.access, t.made, t.at, absolute)
    BY <1>4, <1>5, <1>7, <2>2
  <2>4. Len(refresh) < MaxPairs
    BY <1>1, PgRoom DEF t
  <2>5. t.kind = "refresh" /\ t.token \in Pair /\ ~refresh[t.token].revoked
    BY <1>2, <2>1 DEF RotationReady, RetryReady, ClaimWritten, Rotates, Retries,
                      OfToken
  <2>6. Presented(t.token, "fresh")
    BY <2>5 DEF Presented
  <2>7. CASE RotationReady(t)
    <3>1. Rotates(t) /\ t.view.refresh = ClaimRefresh(refresh, t.token, t.at)
          /\ t.view.access = RetireAccessTokens(access)
      BY <2>7 DEF RotationReady, ClaimWritten
    <3>2. Rotate(t.token, "fresh", t.at)
      BY <1>4, <2>1, <2>3, <2>4, <2>6, <3>1 DEF Rotate, ClaimAndRotate, Rotates
    <3> QED BY <1>2, <2>5, <3>2 DEF Next, Proof
  <2>8. CASE RetryReady(t)
    <3> DEFINE old == refresh[t.token].next
    <3>1. /\ Retries(t) /\ Retryable(t.token, t.at)
          /\ CanClaimRetry(refresh, t.token, t.at)
          /\ t.view.refresh
               = RevokePair(ClaimRetry(refresh, t.token, t.at), old)
          /\ t.view.access = RevokePair(access, old)
      BY <2>8 DEF RetryReady
    <3>2. t.made = refresh[old].generation
      BY <2>1, <3>1 DEF Retryable, HasUnusedSuccessor
    <3>3. Replace(t.token, "fresh", t.at)
      BY <1>4, <2>3, <2>4, <2>6, <3>1, <3>2
         DEF Replace, ClaimAndReplace, Retries
    <3> QED BY <1>2, <2>5, <3>3 DEF Next, Proof
  <2> QED BY <2>1, <2>7, <2>8
<1> QED BY <1>6, <1>7

LEMMA PgStored ==
  ASSUME NEW w \in Worker, Backend = "postgres", PostgresInv, StoreInv',
         tx[w].step = "commit", Stored(w),
         tx' = [Notify(tx, tx[w].wrote) EXCEPT ![w] = Idle]
  PROVE  PostgresInv' /\ [Next]_vars
<1>1. [Next]_vars
  BY PgCommits
<1>2. IndInv'
  BY <1>1, NextIndInv DEF PostgresInv
<1>3. ~Unlocked(tx[w]) /\ tx[w].step # "idle"
  BY DEF Unlocked
<1>4. \A v \in Worker : tx'[v] = IF v = w THEN Idle ELSE tx[v]
  <2>1. Notify(tx, tx[w].wrote) = tx
    BY DEF Notify, PostgresInv, StoreInv
  <2> QED BY <2>1 DEF PostgresInv, StoreInv
<1>5. \A v \in Worker : tx'[v].locks = FALSE /\ Unlocked(tx'[v])
  BY ZenonT(60), <1>3, <1>4, PgAlone, IdleUnit DEF Unlocked, Idle, PostgresInv, StoreInv,
     UnitOfWork
<1>6. authority' /\ LockOnce'
  BY <1>5 DEF Stored, PostgresInv, LockOnce
<1>7. (\A t \in UnitsOfWork : HasFamily(t))'
  BY <1>5 DEF UnitsOfWork, HasFamily
<1>8. PairsRequested'
  <2>1. Open' = Open \ {w} /\ w \in Open
    BY <1>3, <1>4, IdleUnit DEF Open
  <2>2. /\ IsFiniteSet(Open) /\ Len(refresh) + Cardinality(Open) <= requests + 1
        /\ requests <= MaxRequests /\ requests \in Nat /\ Len(refresh) \in Nat
        /\ requests' = requests
    BY DEF PostgresInv, PairsRequested, StoreInv, TypeOK, Stored
  <2>3. /\ IsFiniteSet(Open') /\ Cardinality(Open') = Cardinality(Open) - 1
        /\ Cardinality(Open) \in Nat
    BY <2>1, <2>2, FS_RemoveElement, FS_CardinalityType
  <2>4. Len(refresh') \in Nat /\ Len(refresh') <= Len(refresh) + 1
    <3>1. refresh' = After(w).refresh /\ StoreInv
      BY DEF Stored, PostgresInv
    <3>2. Len(After(w).refresh)
            = IF tx[w].made = None THEN Len(refresh) ELSE Len(refresh) + 1
      BY <1>3, <3>1, AfterFamily
    <3> QED BY <2>2, <3>1, <3>2
  <2> QED BY <2>2, <2>3, <2>4 DEF PairsRequested
<1> QED BY <1>1, <1>2, <1>6, <1>7, <1>8 DEF PostgresInv

LEMMA PgSign ==
  ASSUME NEW withProof \in BOOLEAN, PostgresInv, StoreInv', Sign(withProof)
  PROVE  PostgresInv' /\ Next /\ Open = {}
<1>1. /\ Exchange(withProof, clock) /\ code = "unspent"
      /\ refresh' = IssuedRefresh(refresh, 1, absolute', None)
      /\ UNCHANGED <<clock, authority, tx, requests>>
  BY DEF Sign, Exchange
<1>2. /\ TypeOK /\ session = "none" /\ refresh = <<>> /\ clock \in Nat /\ 1 <= clock
      /\ requests \in Nat
  BY <1>1 DEF PostgresInv, StoreInv, SessionOwnsPairs, TypeOK, Time
<1>3. \A v \in Worker : tx[v].step = "idle"
  BY <1>2, UnitFacts DEF PostgresInv, FoundItsRow
<1>4. Open = {} /\ Open' = {}
  BY <1>1, <1>3 DEF Open
<1>5. Next
  BY <1>1, <1>2 DEF Next
<1>6. IndInv'
  BY <1>5, NextIndInv DEF PostgresInv
<1>7. authority' /\ LockOnce' /\ (\A t \in UnitsOfWork : HasFamily(t))'
  BY <1>1, <1>3 DEF PostgresInv, LockOnce, UnitsOfWork, HasFamily, Unlocked
<1>8. PairsRequested'
  <2>1. Len(refresh') = 1
    BY <1>1, <1>2 DEF IssuedRefresh
  <2>2. IsFiniteSet(Open') /\ Cardinality(Open') = 0
    BY <1>4, FS_EmptySet
  <2>3. requests <= MaxRequests /\ requests' = requests
    BY <1>1 DEF PostgresInv, PairsRequested
  <2> QED BY <1>2, <2>1, <2>2, <2>3 DEF PairsRequested
<1> QED BY <1>4, <1>5, <1>6, <1>7, <1>8 DEF PostgresInv

(* Steps that leave the units of work and the rows as they are.            *)
LEMMA PgStays ==
  ASSUME PostgresInv, StoreInv', [Next]_vars,
         UNCHANGED <<session, bound, absolute, authority, refresh, access, tx,
                     requests>>
  PROVE  PostgresInv'
<1>1. IndInv'
  BY NextIndInv DEF PostgresInv
<1>2. authority' /\ LockOnce' /\ PairsRequested'
  BY DEF PostgresInv, LockOnce, PairsRequested, Open
<1>3. (\A t \in UnitsOfWork : HasFamily(t))'
  <2> SUFFICES ASSUME NEW t \in UnitsOfWork' PROVE HasFamily(t)'
    OBVIOUS
  <2>1. HasFamily(t)
    BY DEF PostgresInv, UnitsOfWork
  <2> QED BY <2>1, PgSame
<1> QED BY <1>1, <1>2, <1>3 DEF PostgresInv

LEMMA PgInit ==
  ASSUME SInit
  PROVE  PostgresInv
<1>1. StoreInv /\ IndInv /\ authority
  BY StoreInit, InitIndInv DEF SInit
<1>2. refresh = <<>> /\ tx = [w \in Worker |-> Idle] /\ requests = 0
  BY DEF SInit, Init
<1>3. \A w \in Worker : tx[w].step = "idle" /\ ~tx[w].locks
  BY <1>2 DEF Idle
<1>4. LockOnce /\ \A t \in UnitsOfWork : HasFamily(t)
  BY <1>3 DEF LockOnce, UnitsOfWork, HasFamily, Unlocked
<1>5. PairsRequested
  <2>1. Open = {} /\ Len(refresh) = 0
    BY <1>2, <1>3 DEF Open
  <2>2. IsFiniteSet(Open) /\ Cardinality(Open) = 0
    BY <2>1, FS_EmptySet
  <2> QED BY <1>2, <2>1, <2>2, StoresAssumption DEF PairsRequested
<1> QED BY <1>1, <1>4, <1>5 DEF PostgresInv

(* A statement that only its own unit of work can see.                     *)
LEMMA PgUnseen ==
  ASSUME NEW w \in Worker, Statement(w), ~Commit(w)
  PROVE  UNCHANGED vars
BY DEF Statement, Find, Reserve, Claim, Retire, Lookup, ClaimTheRetry,
       RevokeSuccessor, Issue, EndSession, EndTokens, Write, Goto, Leave,
       Refuse, NothingStored

LEMMA PgNext ==
  ASSUME Backend = "postgres", PostgresInv, [SNext]_svars
  PROVE  PostgresInv' /\ [Next]_vars /\ OneUnitOfWorkAtATime
<1>0. StoreInv'
  BY StoreNext DEF PostgresInv
<1>1. ASSUME UNCHANGED vars PROVE OneUnitOfWorkAtATime
  BY <1>1 DEF OneUnitOfWorkAtATime, vars
<1>2. CASE UNCHANGED svars
  <2>1. UNCHANGED vars /\ UNCHANGED <<tx, requests>>
    BY <1>2 DEF svars
  <2>2. PostgresInv'
    BY <1>0, <2>1, PgStays DEF vars
  <2> QED BY <1>1, <2>1, <2>2
<1>3. CASE Rest
  BY <1>2, <1>3 DEF Rest
<1>4. CASE Advance
  <2>1. Next /\ UNCHANGED <<session, bound, absolute, authority, refresh, access,
                            tx, requests>>
    BY <1>4 DEF Advance, Tick, Next
  <2>2. PostgresInv'
    BY <1>0, <2>1, PgStays
  <2> QED BY <2>1, <2>2 DEF OneUnitOfWorkAtATime
<1>5. ASSUME NEW withProof \in BOOLEAN, Sign(withProof)
      PROVE  PostgresInv' /\ [Next]_vars /\ OneUnitOfWorkAtATime
  <2>1. PostgresInv' /\ Next /\ Open = {}
    BY <1>0, <1>5, PgSign
  <2>2. \A w \in Worker : tx[w].wrote = {}
    BY <2>1, UnitFacts DEF Open, WritesItsFamily, Unlocked, PostgresInv
  <2> QED BY <2>1, <2>2 DEF OneUnitOfWorkAtATime
<1>6. ASSUME NEW i \in Pair, FirstUse(i)
      PROVE  PostgresInv' /\ [Next]_vars /\ OneUnitOfWorkAtATime
  BY <1>0, <1>6, PgFirstUse DEF OneUnitOfWorkAtATime
<1>7. ASSUME NEW w \in Worker, tx[w].step = "commit", Stored(w),
             tx' = [Notify(tx, tx[w].wrote) EXCEPT ![w] = Idle]
      PROVE  PostgresInv' /\ [Next]_vars /\ OneUnitOfWorkAtATime
  <2>1. PostgresInv' /\ [Next]_vars
    BY <1>0, <1>7, PgStored
  <2>2. \A v \in Worker \ {w} : tx[v].wrote = {}
    BY <1>7, PgAlone DEF Unlocked
  <2>3. tx'[w].wrote = {}
    BY <1>7, IdleUnit DEF Idle, Notify
  <2> QED BY <2>1, <2>2, <2>3 DEF OneUnitOfWorkAtATime
<1>8. ASSUME NEW w \in Worker, Statement(w)
      PROVE  PostgresInv' /\ [Next]_vars /\ OneUnitOfWorkAtATime
  <2>1. CASE Commit(w)
    BY <1>7, <2>1 DEF Commit
  <2>2. CASE ~Commit(w)
    <3>1. UNCHANGED vars
      BY <1>8, <2>2, PgUnseen
    <3>2. PostgresInv'
      BY <1>0, <1>8, <2>2, PgFind, PgReserve, PgClaim, PgRetire, PgLookup,
         PgClaimTheRetry, PgRevokeSuccessor, PgIssue, PgEndSession, PgEndTokens
         DEF Statement
    <3> QED BY <1>1, <3>1, <3>2
  <2> QED BY <2>1, <2>2
<1>9. ASSUME NEW w \in Worker, Failure(w)
      PROVE  PostgresInv' /\ [Next]_vars /\ OneUnitOfWorkAtATime
  <2>1. ASSUME NothingStored,
               \/ tx[w].step # "idle" /\ tx' = [tx EXCEPT ![w] = AfterAbort(@)]
               \/ tx' = [tx EXCEPT ![w] = Idle]
        PROVE  PostgresInv' /\ [Next]_vars /\ OneUnitOfWorkAtATime
    <3>1. PostgresInv'
      BY <1>0, <2>1, PgRefuses
    <3> QED BY <1>1, <2>1, <3>1 DEF NothingStored
  <2>2. CASE CommitAborted(w)
    BY <2>1, <2>2 DEF CommitAborted
  <2>3. CASE CommitUnknown(w)
    BY <1>7, <2>1, <2>3 DEF CommitUnknown, AfterUnknown
  <2>4. CASE Fail(w)
    BY <2>1, <2>4 DEF Fail, Leave
  <2> QED BY <1>9, <2>2, <2>3, <2>4 DEF Failure
<1>10. ASSUME NEW w \in Worker, NEW kind \in Kind, NEW i \in Nat, NEW n \in Nat,
              Start(w, kind, i, n)
       PROVE  PostgresInv' /\ [Next]_vars /\ OneUnitOfWorkAtATime
  <2>1. PostgresInv'
    BY <1>0, <1>10, PgStart
  <2>2. UNCHANGED vars
    BY <1>10 DEF Start
  <2> QED BY <1>1, <2>1, <2>2
<1>11. ASSUME NEW w \in Worker, NEW kind \in {"refresh", "revoke"},
              NEW i \in Pair, NEW n \in 1..MaxRequests, Start(w, kind, i, n)
       PROVE  PostgresInv' /\ [Next]_vars /\ OneUnitOfWorkAtATime
  <2>1. kind \in Kind /\ i \in Nat /\ n \in Nat
    BY DEF Kind, Pair, PostgresInv, StoreInv, TypeOK
  <2> QED BY <1>10, <1>11, <2>1
<1>12. ASSUME NEW w \in Worker, NEW kind \in {"signOut", "select"},
              Start(w, kind, None, requests + 1)
       PROVE  PostgresInv' /\ [Next]_vars /\ OneUnitOfWorkAtATime
  <2>1. kind \in Kind /\ None \in Nat /\ requests + 1 \in Nat
    BY DEF Kind, None, PostgresInv, StoreInv
  <2> QED BY <1>10, <1>12, <2>1
<1> QED BY <1>2, <1>3, <1>4, <1>5, <1>6, <1>8, <1>9, <1>11, <1>12 DEF SNext

-----------------------------------------------------------------------------
(* PostgreSQL: the results. *)

LEMMA PgHolds ==
  ASSUME Backend = "postgres"
  PROVE  SSpec => []PostgresInv
BY PgInit, PgNext, PTL DEF SSpec

(* On PostgreSQL any number of units of work that run at once, statement   *)
(* by statement, with refusals, reruns and commits that are lost, change   *)
(* the family's rows as NativeFamily's atomic units of work do, each at    *)
(* its commit.                                                             *)
THEOREM AtomicUnitsOfWork ==
  ASSUME Backend = "postgres"
  PROVE  SSpec => Spec
<1>1. SInit => Init
  BY DEF SInit
<1>2. PostgresInv /\ [SNext]_svars => [Next]_vars
  BY PgNext
<1> QED BY <1>1, <1>2, PgHolds, PTL DEF SSpec, Spec

(* Once a write of a unit of work to the family has returned, no other     *)
(* unit of work changes the family's session or refresh tokens until this  *)
(* one ends (native-credential.store).                                     *)
THEOREM FamilyIsTaken ==
  ASSUME Backend = "postgres"
  PROVE  SSpec => [][OneUnitOfWorkAtATime]_svars
<1>1. PostgresInv /\ [SNext]_svars => [OneUnitOfWorkAtATime]_svars
  BY PgNext
<1> QED BY <1>1, PgHolds, PTL DEF SSpec

(* No statement of a unit of work waits for a row or a proof id of         *)
(* another one: the family's lock came first, and it is refused at once    *)
(* (findPresentedCredential, NOWAIT).                                      *)
THEOREM NeverWaits ==
  ASSUME Backend = "postgres"
  PROVE  SSpec => []NoStatementWaits
<1>1. PostgresInv => NoStatementWaits
  BY PgNoWait DEF NoStatementWaits, Open
<1> QED BY <1>1, PgHolds, PTL

(* So the promises of the family survive what the stores interleave: at    *)
(* most one live pair, no third answer, a pair in use kept.                *)
THEOREM FamilyPromisesOnPostgres ==
  ASSUME Backend = "postgres"
  PROVE  SSpec => /\ []OneLivePair
                  /\ []AnsweredAtMostTwice
                  /\ []UsedPairKept
                  /\ KeepsPromise
BY AtomicUnitsOfWork, AtMostOneLivePair, NeverAThirdAnswer, PairInUseIsKept,
   Refinement, PTL

(* No unit of work of NativeFamily brings back a token of a family whose   *)
(* tokens are all withdrawn.                                               *)
LEMMA WithdrawnStays ==
  ASSUME IndInv, [Next]_vars, refresh # <<>>,
         \A i \in Pair : refresh[i].revoked
  PROVE  \A i \in DOMAIN refresh' : refresh'[i].revoked
<1>1. refresh \in Seq(RefreshRow) /\ code # "unspent"
  BY DEF IndInv, TypeOK, SessionOwnsPairs
<1>2. ASSUME UNCHANGED refresh PROVE \A i \in DOMAIN refresh' : refresh'[i].revoked
  BY <1>2 DEF Pair
<1>3. ASSUME NEW table \in Seq(RefreshRow), EndFamily(table)
      PROVE  \A i \in DOMAIN refresh' : refresh'[i].revoked
  <2>1. /\ RevokeAll(table) \in Seq(RefreshRow)
        /\ \A k \in DOMAIN table : RevokeAll(table)[k] = Retired(table[k])
    BY <1>3, RevokeAllRefresh
  <2>2. DOMAIN RevokeAll(table) = DOMAIN table
    BY DEF RevokeAll
  <2>3. \A k \in DOMAIN table : Retired(table[k]).revoked
    BY RetiredRefresh
  <2> QED BY <1>3, <2>1, <2>2, <2>3 DEF EndFamily
<1> QED
  BY <1>1, <1>2, <1>3
     DEF Next, vars, Tick, AuthorityMoves, RevokeNativeSession, RevokeSelected,
         SpendCode, Exchange, UseAccess, RevokeToken, Rotate, Replace, Replay,
         ReplayUsed, Presented, Pair

(* Once a family's tokens are all withdrawn, no unit of work that read the *)
(* family before brings a usable one back.                                 *)
LEMMA WithdrawnForGoodOnPostgres ==
  ASSUME Backend = "postgres"
  PROVE  SSpec => WithdrawnForGood
<1> DEFINE Stays == refresh # <<>> /\ (\A i \in Pair : refresh[i].revoked)
                      => \A i \in DOMAIN refresh' : refresh'[i].revoked
<1>1. PostgresInv /\ [SNext]_svars => [Stays]_svars
  <2> SUFFICES ASSUME PostgresInv, [SNext]_svars PROVE Stays
    OBVIOUS
  <2>1. IndInv /\ [Next]_vars
    BY PgNext DEF PostgresInv
  <2> QED BY <2>1, WithdrawnStays
<1> QED BY <1>1, PgHolds, PTL DEF SSpec, WithdrawnForGood

(***************************************************************************)
(* MongoDB.                                                                *)
(***************************************************************************)

(* What the units of work of MongoDB may do to the family at their commit. *)

(* claimAndRotate and retryOrReplay, whatever became of the session since  *)
(* it was found.                                                           *)
LateRotate(i, at) ==
  /\ MayRotate(i) /\ refresh[i].expiresAt > at
  /\ authority /\ absolute > at
  /\ Len(refresh) < MaxPairs
  /\ ClaimAndRotate(i, at)

LateReplace(i, at) ==
  /\ MayReplace(i, at)
  /\ authority /\ absolute > at
  /\ Len(refresh) < MaxPairs
  /\ ClaimAndReplace(i, at)

LateNext ==
  \/ Next
  \/ \E i \in Pair, at \in 1..clock : LateRotate(i, at) \/ LateReplace(i, at)

-----------------------------------------------------------------------------
(* What holds on MongoDB besides, while a unit of work has a snapshot.     *)

(* What it reads is the past of what is committed, but for the documents   *)
(* that it wrote, or that are stale.                                       *)
ReadsThePast(t) ==
  /\ t.wrote \cap t.stale = {}
  /\ \A k \in DOMAIN t.view.refresh :
       /\ RefreshDoc(k) \notin t.stale \cup t.wrote
            => t.view.refresh[k] = refresh[k]
       /\ AccessDoc(k) \notin t.stale \cup t.wrote
            => t.view.access[k] = access[k]
       /\ AccessDoc(k) \notin t.wrote /\ t.view.access[k].spent
            => access[k].spent
  /\ SessionDoc \notin t.stale \cup t.wrote => t.view.session = session
  /\ OfToken(t) /\ RefreshDoc(t.token) \notin t.stale
       => t.row = refresh[t.token]

(* A pair issued since the snapshot left a token of the snapshot stale.    *)
SeesEveryPair(t) ==
  Len(t.view.refresh) < Len(refresh) =>
    \E k \in DOMAIN t.view.refresh : RefreshDoc(k) \in t.stale

Rotating(t) ==
  /\ t.kind = "refresh" /\ ~t.row.revoked /\ ~t.row.spent
  /\ t.row.expiresAt > t.at /\ absolute > t.at
  /\ RefreshDoc(t.token) \notin t.stale => Len(t.view.refresh) = Len(refresh)

Retrying(t) ==
  /\ t.kind = "refresh" /\ bound /\ ~t.row.revoked /\ t.row.spent
  /\ absolute > t.at
  /\ InsideRetryWindow(t.row, t.at)

RetryDocs(t) == {RefreshDoc(t.token), RefreshDoc(t.row.next), AccessDoc(t.row.next)}

(* The successor found unused is so until one of these is written.         *)
Found(t) ==
  /\ Retrying(t) /\ t.row.next # None
  /\ RetryDocs(t) \cap t.stale = {} => HasUnusedSuccessor(refresh, access, t.token)

(* The same of what it has still to look up.                               *)
StillUnused(t) ==
  /\ HasUnusedSuccessor(t.view.refresh, t.view.access, t.token)
  /\ RetryDocs(t) \cap t.stale = {}
  => HasUnusedSuccessor(refresh, access, t.token)

ClaimedToken(t) == [t.row EXCEPT !.spent = TRUE, !.consumedAt = t.at]
RetriedToken(t) == [t.row EXCEPT !.retryClaimUntil = t.at + RetryWindow]

(* The old pair is withdrawn, and a new one may be issued.                 *)
RotationHeld(t) ==
  /\ Rotating(t)
  /\ \A k \in Pair : RefreshDoc(k) \in t.wrote <=> k = t.token
  /\ t.view.refresh[t.token] = ClaimedToken(t)
  /\ SessionDoc \notin t.wrote
  /\ \A k \in Pair : IF access[k].spent THEN AccessDoc(k) \notin t.wrote
                     ELSE /\ AccessDoc(k) \in t.wrote
                          /\ t.view.access[k] = Retired(access[k])

RetryHeld(t) ==
  /\ Found(t) /\ t.row.retryClaimUntil <= t.at
  /\ t.wrote = RetryDocs(t)
  /\ t.view.refresh[t.token] = RetriedToken(t)
  /\ t.view.refresh[t.row.next] = Retired(refresh[t.row.next])
  /\ t.view.access[t.row.next] = Retired(access[t.row.next])

(* The family may be ended, by what s and the tables say.                  *)
EndsBy(t, s, refreshTokens, accessTokens) ==
  \/ t.kind \in {"signOut", "select"} /\ s = "live"
  \/ t.kind = "revoke" /\ (bound => ProofId(t) \in t.proofs)
  \/ /\ t.kind = "refresh" /\ ~t.row.revoked /\ t.row.spent
     /\ \/ ~bound
        \/ ~(s = "live" /\ absolute > t.at)
        \/ /\ ProofId(t) \in t.proofs
           /\ ~InsideRetryWindow(t.row, t.at)
                \/ ~HasUnusedSuccessor(refreshTokens, accessTokens, t.token)

FamilyHeld(t) ==
  /\ t.kind # "select"
  /\ SessionDoc \in t.wrote /\ t.view.session = "ended"
  /\ Len(t.view.refresh) = Len(refresh)
  /\ \A k \in Pair : /\ RefreshDoc(k) \in t.wrote /\ AccessDoc(k) \in t.wrote
                     /\ t.view.refresh[k] = Retired(refresh[k])
                     /\ t.view.access[k] = Retired(access[k])
  /\ EndsBy(t, session, refresh, access)

SnapshotOnly(t) == t.wrote = {} /\ (OfToken(t) => t.view.refresh[t.token] = t.row)

(* Where a unit of work stands that has a snapshot.                        *)
Stands(t) ==
  \/ /\ t.step \in {"reserve", "claimRefresh", "successor", "claimRetry",
                    "endSession"}
     /\ SnapshotOnly(t)
     /\ t.step = "reserve" =>
          /\ bound /\ t.proofs = {}
          /\ \/ t.kind = "revoke" \/ Rotating(t)
             \/ /\ t.kind = "refresh" /\ ~t.row.revoked /\ t.row.spent
                /\ absolute > t.at
     /\ t.step \in {"reserve", "successor"} /\ t.kind = "refresh" => StillUnused(t)
     /\ t.step = "claimRefresh" => Rotating(t)
     /\ t.step = "successor" => Retrying(t)
     /\ t.step = "claimRetry" =>
          /\ Found(t)
          /\ CanRevokeSuccessor(t.view.refresh, t.view.access, t.row.next)
     /\ t.step = "endSession" =>
          EndsBy(t, t.view.session, t.view.refresh, t.view.access)
  \/ /\ t.step = "retire"
     /\ t.wrote = {RefreshDoc(t.token)} /\ Rotating(t)
     /\ t.view.refresh[t.token] = ClaimedToken(t)
  \/ /\ t.step = "revokeSuccessor"
     /\ t.wrote = {RefreshDoc(t.token)} /\ Found(t)
     /\ t.row.retryClaimUntil <= t.at
     /\ t.view.refresh[t.token] = RetriedToken(t)
     /\ CanRevokeSuccessor(t.view.refresh, t.view.access, t.row.next)
  \/ /\ t.step = "issue" \/ (t.step = "commit" /\ t.made # None)
     /\ RotationHeld(t) \/ RetryHeld(t)
     /\ t.step = "commit" => t.made = t.row.generation + 1
  \/ /\ t.step = "endTokens"
     /\ t.kind # "select"
     /\ t.wrote = {SessionDoc} /\ t.view.session = "ended"
     /\ EndsBy(t, session, t.view.refresh, t.view.access)
  \/ /\ t.step = "commit" /\ t.made = None
     /\ \/ t.wrote = {}
        \/ /\ t.kind = "select" /\ t.wrote = {SessionDoc} /\ session = "live"
           /\ t.view.session = "ended"
        \/ FamilyHeld(t)

HasSnapshot(t) ==
  ~Unlocked(t) => ReadsThePast(t) /\ SeesEveryPair(t) /\ Stands(t)

WritesApart ==
  \A v, w \in Worker : v # w => tx[v].wrote \cap tx[w].wrote = {}

MongoInv ==
  /\ StoreInv
  /\ IndInv
  /\ authority
  /\ WritesApart
  /\ \A t \in UnitsOfWork : HasSnapshot(t)
  /\ PairsRequested

-----------------------------------------------------------------------------
(* Statements that only their own unit of work can see. *)

(* Where a unit of work stands depends on the committed rows alone.        *)
LEMMA MgSame ==
  ASSUME NEW t, HasSnapshot(t),
         UNCHANGED <<session, bound, absolute, authority, refresh, access>>
  PROVE  HasSnapshot(t)'
<1>1. /\ ReadsThePast(t)' <=> ReadsThePast(t)
      /\ SeesEveryPair(t)' <=> SeesEveryPair(t)
  BY DEF ReadsThePast, SeesEveryPair
<1>2. /\ Rotating(t)' <=> Rotating(t)
      /\ Retrying(t)' <=> Retrying(t)
      /\ StillUnused(t)' <=> StillUnused(t)
  BY DEF Rotating, Retrying, StillUnused
<1>3. Found(t)' <=> Found(t)
  BY <1>2 DEF Found
<1>4. RotationHeld(t)' <=> RotationHeld(t)
  BY <1>2 DEF RotationHeld, Pair
<1>5. RetryHeld(t)' <=> RetryHeld(t)
  BY <1>3 DEF RetryHeld
<1>6. /\ EndsBy(t, t.view.session, t.view.refresh, t.view.access)'
           <=> EndsBy(t, t.view.session, t.view.refresh, t.view.access)
      /\ EndsBy(t, session, t.view.refresh, t.view.access)'
           <=> EndsBy(t, session, t.view.refresh, t.view.access)
      /\ EndsBy(t, session, refresh, access)'
           <=> EndsBy(t, session, refresh, access)
  BY DEF EndsBy
<1>7. FamilyHeld(t)' <=> FamilyHeld(t)
  BY <1>6 DEF FamilyHeld, Pair
<1>8. Stands(t)' <=> Stands(t)
  BY <1>2, <1>3, <1>4, <1>5, <1>6, <1>7 DEF Stands
<1> QED BY <1>1, <1>8 DEF HasSnapshot

LEMMA MgLocal ==
  ASSUME NEW w \in Worker, NEW u \in UnitOfWork, MongoInv, StoreInv',
         tx' = [tx EXCEPT ![w] = u], UNCHANGED vars, requests' = requests,
         HasSnapshot(u), \A v \in Worker \ {w} : u.wrote \cap tx[v].wrote = {},
         u.step # "idle" => tx[w].step # "idle"
  PROVE  MongoInv'
<1>0. UNCHANGED <<clock, code, session, bound, absolute, authority, refresh,
                  access, requests>>
  BY DEF vars
<1>1. \A v \in Worker : tx'[v] = IF v = w THEN u ELSE tx[v]
  BY DEF MongoInv, StoreInv
<1>2. IndInv' /\ authority'
  BY <1>0, NextIndInv DEF MongoInv
<1>3. WritesApart'
  BY <1>1 DEF MongoInv, WritesApart
<1>4. (\A t \in UnitsOfWork : HasSnapshot(t))'
  <2> SUFFICES ASSUME NEW t \in UnitsOfWork' PROVE HasSnapshot(t)'
    OBVIOUS
  <2>1. HasSnapshot(t)
    BY <1>1 DEF MongoInv, UnitsOfWork
  <2> QED BY <1>0, <2>1, MgSame
<1>5. PairsRequested'
  <2>1. Open' \subseteq Open
    BY <1>1 DEF Open
  <2>2. /\ IsFiniteSet(Open) /\ Len(refresh) + Cardinality(Open) <= requests + 1
        /\ requests <= MaxRequests /\ Len(refresh) \in Nat /\ requests \in Nat
    BY DEF MongoInv, PairsRequested, StoreInv, TypeOK
  <2>3. /\ IsFiniteSet(Open') /\ Cardinality(Open') <= Cardinality(Open)
        /\ Cardinality(Open') \in Nat /\ Cardinality(Open) \in Nat
    BY <2>1, <2>2, FS_Subset, FS_CardinalityType
  <2> QED BY <1>0, <2>2, <2>3 DEF PairsRequested
<1> QED BY <1>2, <1>3, <1>4, <1>5 DEF MongoInv

LEMMA MgUnit ==
  ASSUME NEW w \in Worker, NEW t, Backend = "mongo", MongoInv, t = tx[w],
         ~Unlocked(t)
  PROVE  /\ t \in UnitOfWork /\ FoundItsRow(t) /\ ReservedItsProof(t)
         /\ WritesItsFamily(t)
         /\ t.at \in Nat /\ t.at \in 1..clock
         /\ ReadsThePast(t) /\ SeesEveryPair(t) /\ Stands(t)
         /\ Seen(w) = t.view /\ t.view \in Family
         /\ t.view.refresh \in Seq(RefreshRow) /\ t.view.access \in Seq(AccessRow)
         /\ Len(t.view.refresh) \in Nat /\ Len(t.view.refresh) <= Len(refresh)
         /\ DOMAIN t.view.refresh = 1..Len(t.view.refresh)
         /\ DOMAIN t.view.access = 1..Len(t.view.refresh)
         /\ refresh \in Seq(RefreshRow) /\ access \in Seq(AccessRow)
         /\ Len(refresh) \in Nat /\ Len(access) = Len(refresh)
         /\ Pair = 1..Len(refresh) /\ DOMAIN access = Pair
         /\ OfToken(t) => /\ t.token \in DOMAIN t.view.refresh
                          /\ t.row \in RefreshRow
                          /\ t.row.next \in 0..Len(t.view.refresh)
<1>1. /\ t \in UnitOfWork /\ FoundItsRow(t) /\ ReservedItsProof(t)
      /\ WritesItsFamily(t)
  BY UnitFacts DEF MongoInv
<1>2. t.at \in Nat /\ t.at \in 1..clock
  BY <1>1, UnitFields DEF FoundItsRow, Unlocked
<1>3. ReadsThePast(t) /\ SeesEveryPair(t) /\ Stands(t)
  BY DEF MongoInv, UnitsOfWork, HasSnapshot
<1>4. Seen(w) = t.view /\ t.view \in Family
  BY <1>1, UnitFields DEF Seen
<1>5. /\ t.view.refresh \in Seq(RefreshRow) /\ t.view.access \in Seq(AccessRow)
      /\ Len(t.view.refresh) \in Nat
      /\ DOMAIN t.view.refresh = 1..Len(t.view.refresh)
      /\ DOMAIN t.view.access = 1..Len(t.view.refresh)
  BY <1>4, FamilyTable DEF Linked
<1>6. /\ refresh \in Seq(RefreshRow) /\ access \in Seq(AccessRow)
      /\ Len(access) = Len(refresh)
  BY DEF MongoInv, StoreInv, TypeOK
<1>7. /\ Len(refresh) \in Nat /\ Pair = 1..Len(refresh) /\ DOMAIN access = Pair
  BY <1>6 DEF Pair
<1>8. OfToken(t) => /\ t.token \in DOMAIN t.view.refresh
                    /\ t.row \in RefreshRow
                    /\ t.row.next \in 0..Len(t.view.refresh)
  BY <1>1 DEF FoundItsRow
<1>9. Len(t.view.refresh) <= Len(refresh)
  BY <1>1 DEF WritesItsFamily
<1> QED BY <1>1, <1>2, <1>3, <1>4, <1>5, <1>6, <1>7, <1>8, <1>9

(* A refused unit of work, or one that ends, holds nothing.                *)
LEMMA MgRefuses ==
  ASSUME NEW w \in Worker, MongoInv, StoreInv', NothingStored,
         \/ tx[w].step # "idle" /\ tx' = [tx EXCEPT ![w] = AfterAbort(@)]
         \/ tx' = [tx EXCEPT ![w] = Idle]
  PROVE  MongoInv'
<1> DEFINE t == tx[w]
<1>1. t \in UnitOfWork
  BY DEF MongoInv, StoreInv
<1>2. PICK u \in {Idle, AfterAbort(t)} :
        /\ tx' = [tx EXCEPT ![w] = u]
        /\ u = Idle \/ t.step # "idle"
  OBVIOUS
<1> HIDE DEF t
<1>3. u \in UnitOfWork /\ u.wrote = {} /\ u.step \in {"idle", "find"}
  <2>1. CASE u = Idle
    BY <2>1, IdleUnit DEF Idle
  <2>2. CASE u = AfterAbort(t)
    BY <1>1, <2>2, Reruns
  <2> QED BY <2>1, <2>2
<1>4. HasSnapshot(u)
  BY <1>3 DEF HasSnapshot, Unlocked
<1>5. u.step # "idle" => t.step # "idle"
  BY <1>2, IdleUnit
<1>6. UNCHANGED vars /\ requests' = requests
  BY DEF NothingStored
<1> QED BY <1>2, <1>3, <1>4, <1>5, <1>6, MgLocal DEF t

(* u is t after a statement.                                               *)
GoneOn(u, t, s, view, wrote) ==
  /\ SameRequest(u, t) /\ u.step = s /\ u.view = view /\ u.wrote = wrote
  /\ u.row = t.row /\ u.made = t.made

(* A statement that writes nothing.                                        *)
LEMMA MgGoes ==
  ASSUME NEW w \in Worker, NEW t, NEW u \in UnitOfWork, Backend = "mongo",
         MongoInv, StoreInv', t = tx[w], ~Unlocked(t),
         tx' = [tx EXCEPT ![w] = u], NothingStored,
         SameRequest(u, t), u.row = t.row, u.view = t.view, u.wrote = t.wrote,
         Stands(u)
  PROVE  MongoInv'
<1>1. /\ ReadsThePast(t) /\ SeesEveryPair(t) /\ t \in UnitOfWork
  BY MgUnit
<1>2. ReadsThePast(u) /\ SeesEveryPair(u)
  BY <1>1 DEF ReadsThePast, SeesEveryPair, SameRequest, OfToken
<1>3. HasSnapshot(u)
  BY <1>2 DEF HasSnapshot
<1>4. \A v \in Worker \ {w} : u.wrote \cap tx[v].wrote = {}
  BY DEF MongoInv, WritesApart
<1>5. UNCHANGED vars /\ requests' = requests /\ t.step # "idle"
  BY DEF NothingStored, Unlocked
<1> QED BY <1>3, <1>4, <1>5, MgLocal

(* The statement changes these documents of what it sees, and no others.   *)
Changes(db, view, docs) ==
  /\ DOMAIN db.refresh = DOMAIN view.refresh
  /\ \A k \in DOMAIN view.refresh :
       /\ RefreshDoc(k) \notin docs => db.refresh[k] = view.refresh[k]
       /\ AccessDoc(k) \notin docs => db.access[k] = view.access[k]
  /\ SessionDoc \notin docs => db.session = view.session

(* A statement that writes: it is refused, or what it writes is nobody     *)
(* else's and not stale.                                                   *)
LEMMA MgWrites ==
  ASSUME NEW w \in Worker, NEW t, NEW db \in Family, NEW s, NEW docs,
         Backend = "mongo", MongoInv, StoreInv', t = tx[w], ~Unlocked(t),
         Write(w, db, s), docs = Targets(w), docs \cap t.wrote = {},
         Changes(db, t.view, docs),
         \A u \in UnitOfWork :
           /\ GoneOn(u, t, s, db, t.wrote \cup docs) /\ u.proofs = t.proofs
           /\ docs \cap t.stale = {}
           => Stands(u)
  PROVE  MongoInv'
<1>1. /\ t \in UnitOfWork /\ tx \in [Worker -> UnitOfWork]
      /\ ReadsThePast(t) /\ SeesEveryPair(t) /\ t.step # "idle"
      /\ Len(t.view.refresh) \in Nat
      /\ DOMAIN t.view.refresh = 1..Len(t.view.refresh)
  BY MgUnit DEF MongoInv, StoreInv, Unlocked
<1>2. CASE Conflicts(w) /\ Refuse(w)
  <2>1. NothingStored /\ tx' = [tx EXCEPT ![w] = AfterAbort(@)]
    BY <1>2 DEF Refuse
  <2> QED BY <1>1, <2>1, MgRefuses
<1>3. CASE ~(Conflicts(w) /\ Refuse(w))
  <2> DEFINE u == [t EXCEPT !.view = db, !.wrote = @ \cup docs, !.step = s]
  <2>1. tx' = [tx EXCEPT ![w] = u] /\ NothingStored /\ ~Conflicts(w)
    BY <1>3 DEF Write
  <2>2. u \in UnitOfWork
    <3>1. tx'[w] = u
      BY <1>1, <2>1
    <3>2. tx'[w] \in UnitOfWork
      BY DEF StoreInv
    <3> QED BY <3>1, <3>2
  <2>3. GoneOn(u, t, s, db, t.wrote \cup docs) /\ u.proofs = t.proofs
    BY <1>1 DEF UnitOfWork, GoneOn, SameRequest
  <2> HIDE DEF u
  <2>4. /\ docs \cap t.stale = {}
        /\ \A v \in Worker \ {w} : docs \cap tx[v].wrote = {}
    BY <2>1 DEF Conflicts
  <2>5. Stands(u)
    BY <2>2, <2>3, <2>4
  <2>6. /\ SameRequest(u, t) /\ u.view = db /\ u.wrote = t.wrote \cup docs
        /\ u.row = t.row /\ u.stale = t.stale /\ u.token = t.token
        /\ OfToken(u) <=> OfToken(t)
    BY <2>3 DEF GoneOn, SameRequest, OfToken
  <2>7. Len(db.refresh) = Len(t.view.refresh)
    <3>1. DOMAIN db.refresh = 1..Len(db.refresh) /\ Len(db.refresh) \in Nat
      BY FamilyTable
    <3>2. 1..Len(db.refresh) = 1..Len(t.view.refresh)
      BY <1>1, <3>1 DEF Changes
    <3> QED BY <1>1, <3>1, <3>2
  <2>8. SeesEveryPair(u)
    BY <1>1, <2>6, <2>7 DEF SeesEveryPair, Changes
  <2>9. ReadsThePast(u)
    <3>1. u.wrote \cap u.stale = {}
      BY <1>1, <2>4, <2>6 DEF ReadsThePast
    <3>2. ASSUME NEW k \in DOMAIN u.view.refresh
          PROVE  /\ RefreshDoc(k) \notin u.stale \cup u.wrote
                      => u.view.refresh[k] = refresh[k]
                 /\ AccessDoc(k) \notin u.stale \cup u.wrote
                      => u.view.access[k] = access[k]
                 /\ AccessDoc(k) \notin u.wrote /\ u.view.access[k].spent
                      => access[k].spent
      BY <1>1, <2>6 DEF ReadsThePast, Changes
    <3>3. SessionDoc \notin u.stale \cup u.wrote => u.view.session = session
      BY <1>1, <2>6 DEF ReadsThePast, Changes
    <3>4. OfToken(u) /\ RefreshDoc(u.token) \notin u.stale
            => u.row = refresh[u.token]
      BY <1>1, <2>6 DEF ReadsThePast
    <3> QED BY <3>1, <3>2, <3>3, <3>4 DEF ReadsThePast
  <2>10. HasSnapshot(u)
    BY <2>5, <2>8, <2>9 DEF HasSnapshot
  <2>11. \A v \in Worker \ {w} : u.wrote \cap tx[v].wrote = {}
    BY <2>4, <2>6 DEF MongoInv, WritesApart
  <2>12. UNCHANGED vars /\ requests' = requests
    BY <2>1 DEF NothingStored
  <2> QED BY <1>1, <2>1, <2>2, <2>10, <2>11, <2>12, MgLocal
<1> QED BY <1>2, <1>3

-----------------------------------------------------------------------------
(* Statement by statement. *)

(* A snapshot is what is committed when the family is found, and what      *)
(* rotate decides at once is what the token, as found, calls for.          *)
LEMMA MgFind ==
  ASSUME NEW w \in Worker, Backend = "mongo", MongoInv, StoreInv', Find(w)
  PROVE  MongoInv'
<1> DEFINE t == tx[w]
           row == IF t.token = None THEN <<>> ELSE refresh[t.token]
           step == CASE t.kind = "refresh" -> AfterFind(t, row)
                     [] t.kind = "revoke" -> IF bound THEN "reserve"
                                             ELSE "endSession"
                     [] OTHER -> IF session = "live" THEN "endSession"
                                 ELSE "leave"
           u == [t EXCEPT !.view = Committed, !.row = row, !.locks = FALSE,
                          !.step = step]
<1>1. t.step = "find" /\ t.step # "idle"
  BY DEF Find
<1>2. /\ t \in UnitOfWork /\ WritesItsFamily(t) /\ FoundItsRow(t)
      /\ tx \in [Worker -> UnitOfWork] /\ authority
      /\ Committed.refresh = refresh /\ Committed.session = session
      /\ Committed.access = access
      /\ Pair = 1..Len(refresh) /\ t.kind \in Kind
  BY UnitFacts, UnitFields DEF MongoInv, StoreInv
<1>3. CASE Refuse(w) \/ Leave(w)
  BY <1>1, <1>3, MgRefuses DEF Refuse, Leave
<1>4. CASE ~(Refuse(w) \/ Leave(w))
  <2>1. tx' = [tx EXCEPT ![w] = u] /\ NothingStored /\ step # "leave"
    BY <1>4 DEF Find
  <2>2. u \in UnitOfWork
    <3>1. tx'[w] = u
      BY <1>2, <2>1
    <3>2. tx'[w] \in UnitOfWork
      BY DEF StoreInv
    <3> QED BY <3>1, <3>2
  <2>3. t.wrote = {} /\ t.proofs = {}
    BY <1>1, <1>2 DEF WritesItsFamily, Unlocked
  <2>4. OfToken(t) => t.token \in Pair /\ row = refresh[t.token]
    BY <1>1, <1>2 DEF FoundItsRow, None
  <2> HIDE DEF row, step
  <2>5. /\ u.step = step /\ u.row = row
        /\ u.view = Committed /\ u.wrote = {} /\ u.proofs = {}
        /\ u.kind = t.kind /\ u.token = t.token /\ u.at = t.at
    BY <1>2, <2>3 DEF UnitOfWork
  <2> HIDE DEF u
  <2>6. /\ u.view.refresh = refresh /\ u.view.access = access
        /\ u.view.session = session
    BY <1>2, <2>5
  <2>7. OfToken(u) => u.token \in Pair /\ u.row = refresh[u.token]
    BY <2>4, <2>5 DEF OfToken
  <2>8. ReadsThePast(u)
    BY <2>5, <2>6, <2>7 DEF ReadsThePast
  <2>9. SeesEveryPair(u)
    <3>1. Len(refresh) \in Nat
      BY DEF MongoInv, StoreInv, TypeOK
    <3> QED BY <2>6, <3>1 DEF SeesEveryPair
  <2>10. SnapshotOnly(u) /\ StillUnused(u)
    BY <2>5, <2>6, <2>7 DEF SnapshotOnly, StillUnused
  <2>11. Stands(u)
    <3>1. CASE t.kind = "refresh"
      <4>1. u.row = refresh[t.token] /\ row = u.row /\ u.kind = "refresh"
        BY <2>4, <2>5, <3>1 DEF OfToken
      <4>2. step = AfterFind(t, row)
        BY <3>1 DEF step
      <4>3. ~row.revoked
        BY <2>1, <4>2 DEF AfterFind
      <4>4. CASE row.spent /\ (~bound \/ ~HasAuthority(t.at))
        <5>1. step = "endSession"
          BY <4>2, <4>3, <4>4 DEF AfterFind
        <5>2. EndsBy(u, u.view.session, u.view.refresh, u.view.access)
          BY <1>2, <2>5, <2>6, <4>1, <4>3, <4>4 DEF EndsBy, HasAuthority
        <5> QED BY <2>5, <2>10, <5>1, <5>2 DEF Stands
      <4>5. CASE row.spent /\ bound /\ HasAuthority(t.at)
        <5>1. step = "reserve"
          BY <4>2, <4>3, <4>5 DEF AfterFind
        <5> QED BY <2>5, <2>10, <4>1, <4>3, <4>5, <5>1 DEF Stands, HasAuthority
      <4>6. CASE ~row.spent
        <5>1. ~(row.expiresAt <= t.at \/ ~HasAuthority(t.at))
          BY <2>1, <4>2, <4>3, <4>6 DEF AfterFind
        <5>2. step = IF bound THEN "reserve" ELSE "claimRefresh"
          BY <4>2, <4>3, <4>6, <5>1 DEF AfterFind
        <5>3. row \in RefreshRow /\ t.at \in Nat
          <6>1. refresh \in Seq(RefreshRow)
            BY DEF MongoInv, StoreInv, TypeOK
          <6>2. t.token \in Pair
            BY <2>4, <3>1 DEF OfToken
          <6>3. t.at \in Nat
            BY <1>2, UnitFields
          <6> QED BY <1>2, <4>1, <6>1, <6>2, <6>3
        <5>4. row.expiresAt > t.at
          BY <5>1, <5>3 DEF RefreshRow, Time
        <5>5. Rotating(u)
          BY <2>5, <2>6, <4>1, <4>3, <4>6, <5>1, <5>4 DEF Rotating, HasAuthority
        <5> QED BY <2>5, <2>10, <5>2, <5>5 DEF Stands
      <4> QED BY <4>4, <4>5, <4>6
    <3>2. CASE t.kind = "revoke"
      <4>1. step = IF bound THEN "reserve" ELSE "endSession"
        BY <3>2 DEF step
      <4>2. ~bound => EndsBy(u, u.view.session, u.view.refresh, u.view.access)
        BY <2>5, <3>2 DEF EndsBy
      <4> QED BY <2>5, <2>10, <3>2, <4>1, <4>2 DEF Stands
    <3>3. CASE t.kind \notin {"refresh", "revoke"}
      <4>1. step = "endSession" /\ session = "live"
        BY <2>1, <3>3 DEF step
      <4>2. EndsBy(u, u.view.session, u.view.refresh, u.view.access)
        BY <1>2, <2>5, <2>6, <3>3, <4>1 DEF EndsBy, Kind
      <4> QED BY <2>5, <2>10, <4>1, <4>2 DEF Stands
    <3> QED BY <3>1, <3>2, <3>3
  <2>12. HasSnapshot(u)
    BY <2>8, <2>9, <2>11 DEF HasSnapshot
  <2>13. UNCHANGED vars /\ requests' = requests
         /\ \A v \in Worker \ {w} : u.wrote \cap tx[v].wrote = {}
    BY <2>1, <2>5 DEF NothingStored
  <2> HIDE DEF t
  <2> QED BY <1>1, <2>1, <2>2, <2>12, <2>13, MgLocal DEF t
<1> QED BY <1>3, <1>4

LEMMA MgReserve ==
  ASSUME NEW w \in Worker, Backend = "mongo", MongoInv, StoreInv', Reserve(w)
  PROVE  MongoInv'
<1> DEFINE t == tx[w]
           step == IF t.kind = "revoke" THEN "endSession"
                   ELSE IF ~t.row.spent THEN "claimRefresh"
                   ELSE IF InsideRetryWindow(t.row, t.at) THEN "successor"
                   ELSE "endSession"
           u == [t EXCEPT !.proofs = {ProofId(t)}, !.step = step]
<1>1. t.step = "reserve" /\ ~Unlocked(t) /\ t.step # "idle"
  BY DEF Reserve, Unlocked
<1>2. /\ t \in UnitOfWork /\ Stands(t) /\ FoundItsRow(t)
      /\ tx \in [Worker -> UnitOfWork]
  BY <1>1, MgUnit DEF MongoInv, StoreInv
<1>3. CASE Refuse(w) \/ Leave(w)
  BY <1>1, <1>3, MgRefuses DEF Refuse, Leave
<1>4. CASE ~(Refuse(w) \/ Leave(w))
  <2>1. tx' = [tx EXCEPT ![w] = u] /\ NothingStored
    BY <1>4 DEF Reserve
  <2>2. u \in UnitOfWork
    <3>1. tx'[w] = u
      BY <1>2, <2>1
    <3>2. tx'[w] \in UnitOfWork
      BY DEF StoreInv
    <3> QED BY <3>1, <3>2
  <2> HIDE DEF step
  <2>3. /\ SameRequest(u, t) /\ u.step = step /\ u.view = t.view
        /\ u.wrote = t.wrote /\ u.row = t.row /\ u.proofs = {ProofId(t)}
    BY <1>2 DEF UnitOfWork, SameRequest
  <2> HIDE DEF u
  <2>4. /\ u.kind = t.kind /\ u.token = t.token /\ u.at = t.at
        /\ u.stale = t.stale /\ ProofId(u) \in u.proofs
    BY <2>3 DEF SameRequest, ProofId
  <2>5. /\ SnapshotOnly(t) /\ bound
        /\ t.kind = "refresh" => StillUnused(t)
        /\ \/ t.kind = "revoke" \/ Rotating(t)
           \/ /\ t.kind = "refresh" /\ ~t.row.revoked /\ t.row.spent
              /\ absolute > t.at
    BY <1>1, <1>2 DEF Stands
  <2>6. /\ SnapshotOnly(u)
        /\ t.kind = "refresh" => StillUnused(u)
        /\ Rotating(t) => Rotating(u)
    BY <2>3, <2>4, <2>5
       DEF SnapshotOnly, StillUnused, Rotating, RetryDocs, OfToken
  <2>7. Stands(u)
    <3>1. CASE t.kind = "revoke"
      <4>1. step = "endSession"
        BY <3>1 DEF step
      <4>2. EndsBy(u, u.view.session, u.view.refresh, u.view.access)
        BY <2>4, <3>1 DEF EndsBy
      <4> QED BY <2>3, <2>6, <4>1, <4>2 DEF Stands
    <3>2. CASE t.kind # "revoke" /\ ~t.row.spent
      <4>1. step = "claimRefresh"
        BY <3>2 DEF step
      <4>2. Rotating(u)
        BY <2>5, <2>6, <3>2
      <4> QED BY <2>3, <2>6, <4>1, <4>2 DEF Stands
    <3>3. CASE t.kind # "revoke" /\ t.row.spent
      <4>1. /\ t.kind = "refresh" /\ ~t.row.revoked /\ absolute > t.at
        BY <2>5, <3>3 DEF Rotating
      <4>2. CASE InsideRetryWindow(t.row, t.at)
        <5>1. step = "successor"
          BY <3>3, <4>2 DEF step
        <5>2. Retrying(u)
          BY <2>3, <2>4, <2>5, <3>3, <4>1, <4>2 DEF Retrying
        <5> QED BY <2>3, <2>6, <4>1, <5>1, <5>2 DEF Stands
      <4>3. CASE ~InsideRetryWindow(t.row, t.at)
        <5>1. step = "endSession"
          BY <3>3, <4>3 DEF step
        <5>2. EndsBy(u, u.view.session, u.view.refresh, u.view.access)
          BY <2>3, <2>4, <3>3, <4>1, <4>3 DEF EndsBy
        <5> QED BY <2>3, <2>6, <5>1, <5>2 DEF Stands
      <4> QED BY <4>2, <4>3
    <3> QED BY <3>1, <3>2, <3>3
  <2> HIDE DEF t
  <2> QED BY <1>1, <2>1, <2>2, <2>3, <2>7, MgGoes DEF t
<1> QED BY <1>3, <1>4

LEMMA MgClaim ==
  ASSUME NEW w \in Worker, Backend = "mongo", MongoInv, StoreInv', Claim(w)
  PROVE  MongoInv'
<1> DEFINE t == tx[w]
           view == t.view
           docs == Targets(w)
           db == [view EXCEPT !.refresh = ClaimRefresh(@, t.token, t.at)]
<1>1. t.step = "claimRefresh" /\ ~Unlocked(t)
  BY DEF Claim, Unlocked
<1>2. /\ t \in UnitOfWork /\ FoundItsRow(t) /\ Stands(t) /\ Seen(w) = view
      /\ view \in Family /\ t.at \in Nat
      /\ DOMAIN view.refresh = 1..Len(view.refresh)
      /\ OfToken(t) => t.token \in DOMAIN view.refresh
  BY <1>1, MgUnit
<1>3. t.token \in DOMAIN view.refresh /\ t.kind = "refresh"
  BY <1>1, <1>2 DEF FoundItsRow, RotationStep, OfToken
<1>4. /\ Rotating(t) /\ t.wrote = {} /\ view.refresh[t.token] = t.row
  BY <1>1, <1>2, <1>3 DEF Stands, SnapshotOnly, OfToken
<1>5. ~Seen(w).refresh[t.token].spent
  BY <1>2, <1>4 DEF Rotating
<1>6. Write(w, db, "retire")
  BY <1>2, <1>5 DEF Claim
<1>7. docs = {RefreshDoc(t.token)}
  BY <1>1, <1>5 DEF Targets
<1>8. /\ db = [session |-> view.session, access |-> view.access,
               refresh |-> ClaimRefresh(view.refresh, t.token, t.at)]
      /\ Linked(view.refresh) /\ view.session \in {"none", "live", "ended"}
      /\ view.access \in Seq(AccessRow) /\ Len(view.access) = Len(view.refresh)
  BY <1>2, FamilyTable DEF Family, Tables
<1> HIDE DEF view
<1>9. /\ Linked(ClaimRefresh(view.refresh, t.token, t.at))
      /\ Len(ClaimRefresh(view.refresh, t.token, t.at)) = Len(view.refresh)
  <2> HIDE DEF db, t
  <2>1. Linked(view.refresh) /\ t.at \in Nat /\ t.token \in DOMAIN view.refresh
    BY <1>2, <1>3, <1>8
  <2> QED BY <2>1, Claims
<1>10. db.refresh = ClaimRefresh(view.refresh, t.token, t.at)
       /\ db.access = view.access /\ db.session = view.session
  BY <1>8
<1>11. db \in Family
  BY <1>8, <1>9, TableFamily
<1> HIDE DEF db, docs
<1>12. /\ DOMAIN db.refresh = DOMAIN view.refresh
       /\ db.refresh[t.token] = [view.refresh[t.token] EXCEPT
                                   !.spent = TRUE, !.consumedAt = t.at]
       /\ \A k \in DOMAIN view.refresh \ {t.token} :
            db.refresh[k] = view.refresh[k]
  BY <1>2, <1>3, <1>10 DEF ClaimRefresh
<1>13. Changes(db, view, docs)
  BY <1>7, <1>10, <1>12 DEF Changes
<1>14. ASSUME NEW u \in UnitOfWork, GoneOn(u, t, "retire", db, t.wrote \cup docs)
       PROVE  Stands(u)
  <2>1. /\ u.step = "retire" /\ u.wrote = {RefreshDoc(t.token)}
        /\ u.view = db /\ u.row = t.row /\ u.kind = t.kind
        /\ u.token = t.token /\ u.at = t.at /\ u.stale = t.stale
    BY <1>4, <1>7, <1>14 DEF GoneOn, SameRequest
  <2>2. Len(u.view.refresh) = Len(view.refresh)
    BY <1>9, <1>10, <2>1
  <2>3. Rotating(u)
    BY <1>4, <2>1, <2>2 DEF Rotating, view
  <2>4. u.view.refresh[u.token] = ClaimedToken(u)
    BY <1>4, <1>12, <2>1 DEF ClaimedToken
  <2> QED BY <2>1, <2>3, <2>4 DEF Stands
<1>15. docs \cap t.wrote = {}
  BY <1>4
<1> HIDE DEF t
<1> QED BY <1>1, <1>6, <1>11, <1>13, <1>14, <1>15, MgWrites DEF t, docs, view

LEMMA MgRetire ==
  ASSUME NEW w \in Worker, Backend = "mongo", MongoInv, StoreInv', Retire(w)
  PROVE  MongoInv'
<1> DEFINE t == tx[w]
           view == t.view
           docs == Targets(w)
           db == [view EXCEPT !.access = RetireAccessTokens(@)]
<1>1. t.step = "retire" /\ ~Unlocked(t)
  BY DEF Retire, Unlocked
<1>2. /\ t \in UnitOfWork /\ Stands(t) /\ Seen(w) = view /\ view \in Family
      /\ DOMAIN view.refresh = 1..Len(view.refresh)
      /\ DOMAIN view.access = 1..Len(view.refresh)
      /\ Pair = 1..Len(refresh) /\ ReadsThePast(t)
      /\ view.access \in Seq(AccessRow)
  BY <1>1, MgUnit
<1>3. /\ Rotating(t) /\ t.wrote = {RefreshDoc(t.token)}
      /\ view.refresh[t.token] = ClaimedToken(t)
  BY <1>1, <1>2 DEF Stands
<1>4. Write(w, db, "issue")
  BY <1>2 DEF Retire
<1>5. docs = {AccessDoc(k) : k \in {i \in DOMAIN view.access : ~view.access[i].spent}}
  BY <1>1, <1>2 DEF Targets
<1>6. /\ db = [session |-> view.session, refresh |-> view.refresh,
               access |-> RetireAccessTokens(view.access)]
      /\ Linked(view.refresh) /\ view.session \in {"none", "live", "ended"}
      /\ Len(view.access) = Len(view.refresh)
  BY <1>2, FamilyTable DEF Family, Tables
<1> HIDE DEF view
<1>7. /\ RetireAccessTokens(view.access) \in Seq(AccessRow)
      /\ Len(RetireAccessTokens(view.access)) = Len(view.access)
      /\ \A k \in DOMAIN view.access : RetireAccessTokens(view.access)[k]
           = IF view.access[k].spent THEN view.access[k]
             ELSE Retired(view.access[k])
  BY <1>2, RetireAccessSeq
<1>8. db.access = RetireAccessTokens(view.access)
      /\ db.refresh = view.refresh /\ db.session = view.session
  BY <1>6
<1>9. db \in Family
  BY <1>6, <1>7, TableFamily
<1> HIDE DEF db, docs
<1>10. /\ \A k \in DOMAIN view.access : AccessDoc(k) \in docs <=> ~view.access[k].spent
       /\ \A k : RefreshDoc(k) \notin docs /\ SessionDoc \notin docs
  BY <1>5, DocsDiffer
<1>11. Changes(db, view, docs)
  BY <1>2, <1>7, <1>8, <1>10 DEF Changes
<1>12. ASSUME NEW u \in UnitOfWork, GoneOn(u, t, "issue", db, t.wrote \cup docs),
              docs \cap t.stale = {}
       PROVE  Stands(u)
  <2>1. /\ u.step = "issue" /\ u.wrote = {RefreshDoc(t.token)} \cup docs
        /\ u.view = db /\ u.row = t.row /\ u.kind = t.kind
        /\ u.token = t.token /\ u.at = t.at /\ u.stale = t.stale
    BY <1>3, <1>12 DEF GoneOn, SameRequest
  <2>2. Rotating(u)
    BY <1>3, <1>8, <2>1 DEF Rotating, view
  <2>3. RefreshDoc(t.token) \notin t.stale
    BY <1>2, <1>3 DEF ReadsThePast
  <2>4. Len(view.refresh) = Len(refresh)
    BY <1>3, <2>3 DEF Rotating, view
  <2>5. \A k \in Pair : RefreshDoc(k) \in u.wrote <=> k = u.token
    BY <1>10, <2>1, DocsDiffer
  <2>6. SessionDoc \notin u.wrote
    BY <1>10, <2>1, DocsDiffer
  <2>7. u.view.refresh[u.token] = ClaimedToken(u)
    BY <1>3, <1>8, <2>1 DEF ClaimedToken
  <2>8. ASSUME NEW k \in Pair
        PROVE  IF access[k].spent THEN AccessDoc(k) \notin u.wrote
               ELSE /\ AccessDoc(k) \in u.wrote
                    /\ u.view.access[k] = Retired(access[k])
    <3>1. k \in DOMAIN view.refresh /\ k \in DOMAIN view.access
      BY <1>2, <2>4
    <3>2. AccessDoc(k) \in u.wrote <=> AccessDoc(k) \in docs
      BY <2>1, DocsDiffer
    <3>3. AccessDoc(k) \notin t.wrote
      BY <1>3, DocsDiffer
    <3>4. CASE view.access[k].spent
      <4>1. access[k].spent
        BY <1>2, <3>1, <3>3, <3>4 DEF ReadsThePast, view
      <4> QED BY <1>10, <3>1, <3>2, <3>4, <4>1
    <3>5. CASE ~view.access[k].spent
      <4>1. AccessDoc(k) \in docs /\ AccessDoc(k) \notin t.stale
        BY <1>10, <1>12, <3>1, <3>5
      <4>2. view.access[k] = access[k]
        BY <1>2, <3>1, <3>3, <4>1 DEF ReadsThePast, view
      <4>3. u.view.access[k] = Retired(access[k])
        BY <1>7, <1>8, <2>1, <3>1, <3>5, <4>2
      <4> QED BY <3>2, <3>5, <4>1, <4>2, <4>3
    <3> QED BY <3>4, <3>5
  <2>9. RotationHeld(u)
    BY <2>2, <2>5, <2>6, <2>7, <2>8 DEF RotationHeld
  <2> QED BY <2>1, <2>9 DEF Stands
<1>13. docs \cap t.wrote = {}
  BY <1>3, <1>10
<1> HIDE DEF t
<1> QED BY <1>1, <1>4, <1>9, <1>11, <1>12, <1>13, MgWrites DEF t, docs, view


(* A statement that writes nothing leads to s.                             *)
LEMMA MgGoto ==
  ASSUME NEW w \in Worker, NEW t, NEW s \in Step, Backend = "mongo",
         MongoInv, StoreInv', t = tx[w], ~Unlocked(t), Goto(w, s),
         \A u \in UnitOfWork : GoneOn(u, t, s, t.view, t.wrote)
                               /\ u.proofs = t.proofs => Stands(u)
  PROVE  MongoInv'
<1>1. NothingStored
  BY DEF Goto
<1>2. PICK u \in UnitOfWork :
         /\ tx' = [tx EXCEPT ![w] = u]
         /\ SameRequest(u, t) /\ u.step = s /\ u.view = t.view
         /\ u.wrote = t.wrote /\ u.row = t.row /\ u.proofs = t.proofs
         /\ u.made = t.made
  BY PgGoto DEF MongoInv
<1>3. Stands(u)
  BY <1>2 DEF GoneOn
<1> QED BY <1>1, <1>2, <1>3, MgGoes

LEMMA MgLookup ==
  ASSUME NEW w \in Worker, Backend = "mongo", MongoInv, StoreInv', Lookup(w)
  PROVE  MongoInv'
<1> DEFINE t == tx[w]
           view == t.view
           unused == HasUnusedSuccessor(view.refresh, view.access, t.token)
           s == IF unused THEN "claimRetry" ELSE "endSession"
<1>1. t.step = "successor" /\ ~Unlocked(t)
  BY DEF Lookup, Unlocked
<1>2. /\ t \in UnitOfWork /\ FoundItsRow(t) /\ ReservedItsProof(t)
      /\ Stands(t) /\ Seen(w) = view
      /\ view.refresh \in Seq(RefreshRow)
      /\ OfToken(t) => t.token \in DOMAIN view.refresh
  BY <1>1, MgUnit
<1>3. t.token \in DOMAIN view.refresh /\ t.kind = "refresh" /\ OfToken(t)
  BY <1>1, <1>2 DEF FoundItsRow, RotationStep, OfToken
<1>4. /\ Retrying(t) /\ StillUnused(t) /\ SnapshotOnly(t)
      /\ view.refresh[t.token] = t.row
  BY <1>1, <1>2, <1>3 DEF Stands, SnapshotOnly
<1>5. [view.refresh EXCEPT ![t.token] = t.row] = view.refresh
  BY <1>2, <1>3, <1>4
<1>6. Goto(w, s)
  BY <1>2, <1>5 DEF Lookup
<1>7. s \in Step /\ t.step \in RotationStep
  BY <1>1 DEF Step, RotationStep
<1>8. ASSUME NEW u \in UnitOfWork, GoneOn(u, t, s, t.view, t.wrote),
             u.proofs = t.proofs
      PROVE  Stands(u)
  <2>1. /\ u.kind = t.kind /\ u.token = t.token /\ u.at = t.at
        /\ u.row = t.row /\ u.stale = t.stale /\ u.view = view
        /\ u.wrote = t.wrote /\ u.step = s /\ ProofId(u) = ProofId(t)
    BY <1>8 DEF GoneOn, SameRequest, ProofId
  <2>2. SnapshotOnly(u) /\ Retrying(u) /\ RetryDocs(u) = RetryDocs(t)
    BY <1>4, <2>1 DEF SnapshotOnly, Retrying, RetryDocs, OfToken
  <2>3. CASE unused
    <3>1. s = "claimRetry"
      BY <2>3
    <3>2. t.row.next # None
      BY <1>4, <2>3 DEF HasUnusedSuccessor
    <3>3. CanRevokeSuccessor(view.refresh, view.access, t.row.next)
      BY <1>4, <2>3 DEF HasUnusedSuccessor
    <3>4. Found(u)
      BY <1>4, <2>1, <2>2, <2>3, <3>2 DEF Found, StillUnused
    <3> HIDE DEF s, unused
    <3> QED BY <2>1, <2>2, <3>1, <3>3, <3>4 DEF Stands
  <2>4. CASE ~unused
    <3>1. s = "endSession"
      BY <2>4
    <3>2. ProofId(t) \in t.proofs /\ ~t.row.revoked /\ t.row.spent
      BY <1>2, <1>4, <1>7 DEF ReservedItsProof, Retrying
    <3>3. EndsBy(u, u.view.session, u.view.refresh, u.view.access)
      BY <1>3, <1>8, <2>1, <2>4, <3>2 DEF EndsBy
    <3> HIDE DEF s, unused
    <3> QED BY <2>1, <2>2, <3>1, <3>3 DEF Stands
  <2> QED BY <2>3, <2>4
<1> HIDE DEF t, s
<1> QED BY <1>1, <1>6, <1>7, <1>8, MgGoto DEF t

LEMMA MgClaimTheRetry ==
  ASSUME NEW w \in Worker, Backend = "mongo", MongoInv, StoreInv',
         ClaimTheRetry(w)
  PROVE  MongoInv'
<1> DEFINE t == tx[w]
           view == t.view
           docs == Targets(w)
           db == [view EXCEPT !.refresh = ClaimRetry(@, t.token, t.at)]
           can == CanClaimRetry(view.refresh, t.token, t.at)
<1>1. t.step = "claimRetry" /\ ~Unlocked(t)
  BY DEF ClaimTheRetry, Unlocked
<1>2. /\ t \in UnitOfWork /\ FoundItsRow(t) /\ Stands(t) /\ Seen(w) = view
      /\ view \in Family /\ t.at \in Nat
      /\ DOMAIN view.refresh = 1..Len(view.refresh)
      /\ OfToken(t) => /\ t.token \in DOMAIN view.refresh
                       /\ t.row \in RefreshRow
                       /\ t.row.next \in 0..Len(view.refresh)
  BY <1>1, MgUnit
<1>3. /\ t.token \in DOMAIN view.refresh /\ t.kind = "refresh" /\ OfToken(t)
      /\ t.made = None
  BY <1>1, <1>2 DEF FoundItsRow, RotationStep, OfToken
<1>4. /\ Found(t) /\ t.wrote = {} /\ view.refresh[t.token] = t.row
      /\ CanRevokeSuccessor(view.refresh, view.access, t.row.next)
  BY <1>1, <1>2, <1>3 DEF Stands, SnapshotOnly
<1>5. t.row.next \in DOMAIN view.refresh
  BY <1>2, <1>3, <1>4 DEF Found, None
<1>6. CASE ~can
  <2>1. Goto(w, "commit") /\ "commit" \in Step
    BY <1>2, <1>6 DEF ClaimTheRetry, Step
  <2>2. ASSUME NEW u \in UnitOfWork, GoneOn(u, t, "commit", t.view, t.wrote)
        PROVE  Stands(u)
    BY <1>3, <1>4, <2>2 DEF GoneOn, Stands
  <2> HIDE DEF t
  <2> QED BY <1>1, <2>1, <2>2, MgGoto DEF t
<1>7. CASE can
  <2>1. Write(w, db, "revokeSuccessor")
    BY <1>2, <1>7 DEF ClaimTheRetry
  <2>2. docs = {RefreshDoc(t.token)}
    BY <1>1, <1>2, <1>7 DEF Targets
  <2>3. t.row.retryClaimUntil <= t.at
    BY <1>4, <1>7 DEF CanClaimRetry
  <2> HIDE DEF can
  <2>4. /\ db = [session |-> view.session, access |-> view.access,
                 refresh |-> ClaimRetry(view.refresh, t.token, t.at)]
        /\ Linked(view.refresh) /\ view.session \in {"none", "live", "ended"}
        /\ view.access \in Seq(AccessRow) /\ Len(view.access) = Len(view.refresh)
    BY <1>2, FamilyTable DEF Family, Tables
  <2> HIDE DEF view
  <2>5. /\ Linked(ClaimRetry(view.refresh, t.token, t.at))
        /\ Len(ClaimRetry(view.refresh, t.token, t.at)) = Len(view.refresh)
    <3> HIDE DEF db, t
    <3>1. Linked(view.refresh) /\ t.at \in Nat /\ t.token \in DOMAIN view.refresh
      BY <1>2, <1>3, <2>4
    <3> QED BY <3>1, Claims
  <2>6. db.refresh = ClaimRetry(view.refresh, t.token, t.at)
        /\ db.access = view.access /\ db.session = view.session
    BY <2>4
  <2>7. db \in Family
    BY <2>4, <2>5, TableFamily
  <2> HIDE DEF db, docs
  <2>8. /\ DOMAIN db.refresh = DOMAIN view.refresh
        /\ db.refresh[t.token] = [view.refresh[t.token] EXCEPT
                                    !.retryClaimUntil = t.at + RetryWindow]
        /\ \A k \in DOMAIN view.refresh \ {t.token} :
             db.refresh[k] = view.refresh[k]
    BY <1>2, <1>3, <2>6 DEF ClaimRetry
  <2>9. Changes(db, view, docs)
    BY <2>2, <2>6, <2>8 DEF Changes
  <2>10. t.row.next # t.token
    BY <1>4 DEF Found, Retrying, CanRevokeSuccessor, Live
  <2>11. ASSUME NEW u \in UnitOfWork,
                GoneOn(u, t, "revokeSuccessor", db, t.wrote \cup docs)
         PROVE  Stands(u)
    <3>1. /\ u.step = "revokeSuccessor" /\ u.wrote = {RefreshDoc(t.token)}
          /\ u.view = db /\ u.row = t.row /\ u.kind = t.kind
          /\ u.token = t.token /\ u.at = t.at /\ u.stale = t.stale
      BY <1>4, <2>2, <2>11 DEF GoneOn, SameRequest
    <3>2. Found(u)
      BY <1>4, <3>1 DEF Found, Retrying, RetryDocs
    <3>3. u.view.refresh[u.token] = RetriedToken(u)
      BY <1>4, <2>8, <3>1 DEF RetriedToken
    <3>4. CanRevokeSuccessor(u.view.refresh, u.view.access, u.row.next)
      BY <1>4, <1>5, <2>6, <2>8, <2>10, <3>1 DEF CanRevokeSuccessor
    <3> QED BY <2>3, <3>1, <3>2, <3>3, <3>4 DEF Stands
  <2>12. docs \cap t.wrote = {}
    BY <1>4
  <2> HIDE DEF t
  <2> QED BY <1>1, <2>1, <2>7, <2>9, <2>11, <2>12, MgWrites DEF t, docs, view
<1> QED BY <1>6, <1>7


LEMMA MgRevokeSuccessor ==
  ASSUME NEW w \in Worker, Backend = "mongo", MongoInv, StoreInv',
         RevokeSuccessor(w)
  PROVE  MongoInv'
<1> DEFINE t == tx[w]
           view == t.view
           docs == Targets(w)
           next == t.row.next
           db == [session |-> view.session,
                  refresh |-> RevokePair(view.refresh, next),
                  access |-> RevokePair(view.access, next)]
<1>1. t.step = "revokeSuccessor" /\ ~Unlocked(t)
  BY DEF RevokeSuccessor, Unlocked
<1>2. /\ t \in UnitOfWork /\ FoundItsRow(t) /\ Stands(t) /\ Seen(w) = view
      /\ view \in Family /\ ReadsThePast(t)
      /\ DOMAIN view.refresh = 1..Len(view.refresh)
      /\ DOMAIN view.access = 1..Len(view.refresh)
      /\ OfToken(t) => /\ t.token \in DOMAIN view.refresh
                       /\ t.row \in RefreshRow
                       /\ next \in 0..Len(view.refresh)
  BY <1>1, MgUnit
<1>3. /\ t.token \in DOMAIN view.refresh /\ t.kind = "refresh" /\ OfToken(t)
      /\ t.row \in RefreshRow
  BY <1>1, <1>2 DEF FoundItsRow, RotationStep, OfToken
<1>4. /\ Found(t) /\ t.wrote = {RefreshDoc(t.token)}
      /\ t.row.retryClaimUntil <= t.at
      /\ view.refresh[t.token] = RetriedToken(t)
      /\ CanRevokeSuccessor(view.refresh, view.access, next)
  BY <1>1, <1>2 DEF Stands
<1>5. next \in DOMAIN view.refresh /\ next \in DOMAIN view.access
  BY <1>2, <1>3, <1>4 DEF Found, None
<1>6. /\ Live(view.refresh[next]) /\ CanMarkFirstUse(view.access, next)
  BY <1>4 DEF CanRevokeSuccessor, CanMarkFirstUse
<1>7. next # t.token
  <2>1. RetriedToken(t).spent
    BY <1>3, <1>4 DEF RetriedToken, RefreshRow, Found, Retrying
  <2> QED BY <1>4, <1>6, <2>1 DEF Live
<1>8. docs = {RefreshDoc(next), AccessDoc(next)}
  BY <1>1, <1>2, <1>6 DEF Targets
<1>9. /\ view = [session |-> view.session, refresh |-> view.refresh,
                 access |-> view.access]
      /\ Linked(view.refresh) /\ view.session \in {"none", "live", "ended"}
      /\ view.access \in Seq(AccessRow) /\ Len(view.access) = Len(view.refresh)
  BY <1>2, FamilyTable
<1>10. Write(w, db, "issue")
  <2>1. Write(w, [view EXCEPT
              !.refresh = IF Live(@[next]) THEN RevokePair(@, next) ELSE @,
              !.access = IF CanMarkFirstUse(@, next) THEN RevokePair(@, next)
                         ELSE @], "issue")
    BY <1>2, <1>4 DEF RevokeSuccessor
  <2>2. [view EXCEPT
              !.refresh = IF Live(@[next]) THEN RevokePair(@, next) ELSE @,
              !.access = IF CanMarkFirstUse(@, next) THEN RevokePair(@, next)
                         ELSE @] = db
    <3> HIDE DEF view
    <3>1. \A x, y : [view EXCEPT !.refresh = x, !.access = y]
                     = [session |-> view.session, refresh |-> x, access |-> y]
      <4>1. view = [session |-> view.session, refresh |-> view.refresh,
                    access |-> view.access]
        BY <1>9
      <4> QED BY ZenonT(60), <4>1, BothTables
    <3> QED BY <1>6, <3>1
  <2> QED BY <2>1, <2>2
<1> HIDE DEF view
<1>11. /\ db.session = view.session
       /\ db.refresh = RevokePair(view.refresh, next)
       /\ db.access = RevokePair(view.access, next)
  OBVIOUS
<1>12. /\ Linked(RevokePair(view.refresh, next))
       /\ Len(RevokePair(view.refresh, next)) = Len(view.refresh)
       /\ RevokePair(view.access, next) \in Seq(AccessRow)
       /\ Len(RevokePair(view.access, next)) = Len(view.access)
  <2> HIDE DEF db, next
  <2> QED BY <1>5, <1>9, Withdraws, WithdrawsAccess
<1>13. db \in Family
  BY <1>9, <1>12, TableFamily
<1> HIDE DEF db, docs
<1>14. /\ DOMAIN db.refresh = DOMAIN view.refresh
       /\ db.refresh[next] = Retired(view.refresh[next])
       /\ \A k \in DOMAIN view.refresh \ {next} : db.refresh[k] = view.refresh[k]
       /\ db.access[next] = Retired(view.access[next])
       /\ \A k \in DOMAIN view.access \ {next} : db.access[k] = view.access[k]
  BY <1>5, <1>11 DEF RevokePair
<1>15. Changes(db, view, docs)
  <2>1. SessionDoc \notin docs => db.session = view.session
    BY <1>11
  <2>2. \A k \in DOMAIN view.refresh : /\ RefreshDoc(k) \notin docs => k # next
                                       /\ AccessDoc(k) \notin docs => k # next
    BY <1>8
  <2> QED BY <1>2, <1>14, <2>1, <2>2 DEF Changes, view
<1>16. ASSUME NEW u \in UnitOfWork, GoneOn(u, t, "issue", db, t.wrote \cup docs),
              docs \cap t.stale = {}
       PROVE  Stands(u)
  <2>1. /\ u.step = "issue" /\ u.wrote = {RefreshDoc(t.token)} \cup docs
        /\ u.view = db /\ u.row = t.row /\ u.kind = t.kind
        /\ u.token = t.token /\ u.at = t.at /\ u.stale = t.stale
    BY <1>4, <1>16 DEF GoneOn, SameRequest
  <2>2. Found(u)
    BY <1>4, <2>1 DEF Found, Retrying, RetryDocs
  <2>3. u.wrote = RetryDocs(u)
    BY <1>8, <2>1 DEF RetryDocs
  <2>4. u.view.refresh[u.token] = RetriedToken(u)
    BY <1>3, <1>4, <1>7, <1>14, <2>1 DEF RetriedToken
  <2>5. /\ RefreshDoc(next) \notin t.stale \cup t.wrote
        /\ AccessDoc(next) \notin t.stale \cup t.wrote
    BY <1>4, <1>7, <1>8, <1>16, DocsDiffer
  <2>6. view.refresh[next] = refresh[next] /\ view.access[next] = access[next]
    BY <1>2, <1>5, <2>5 DEF ReadsThePast, view
  <2>7. /\ u.view.refresh[u.row.next] = Retired(refresh[u.row.next])
        /\ u.view.access[u.row.next] = Retired(access[u.row.next])
    BY <1>14, <2>1, <2>6
  <2>8. RetryHeld(u)
    BY <1>4, <2>1, <2>2, <2>3, <2>4, <2>7 DEF RetryHeld
  <2> QED BY <2>1, <2>8 DEF Stands
<1>17. docs \cap t.wrote = {}
  BY <1>4, <1>7, <1>8, DocsDiffer
<1> HIDE DEF t
<1> QED BY <1>1, <1>10, <1>13, <1>15, <1>16, <1>17, MgWrites DEF t, docs, view

LEMMA MgIssue ==
  ASSUME NEW w \in Worker, Backend = "mongo", MongoInv, StoreInv', Issue(w)
  PROVE  MongoInv'
<1> DEFINE t == tx[w]
           g == t.row.generation + 1
           u == [t EXCEPT !.made = g, !.step = "commit"]
<1>1. t.step = "issue" /\ NothingStored /\ tx' = [tx EXCEPT ![w] = u]
      /\ ~Unlocked(t)
  BY DEF Issue, Unlocked
<1>2. /\ t \in UnitOfWork /\ FoundItsRow(t) /\ Stands(t)
      /\ OfToken(t) => t.row \in RefreshRow
  BY <1>1, MgUnit
<1>3. g \in Nat /\ g # None /\ t \in UnitOfWork /\ "commit" \in Step
  BY <1>1, <1>2 DEF FoundItsRow, RotationStep, OfToken, RefreshRow, None, Step
<1> HIDE DEF g
<1>4. /\ u \in UnitOfWork /\ SameRequest(u, t) /\ u.step = "commit"
      /\ u.row = t.row /\ u.view = t.view /\ u.wrote = t.wrote
      /\ u.locks = t.locks /\ u.proofs = t.proofs /\ u.made = g
  BY <1>3, HasMade
<1> HIDE DEF u
<1>5. RotationHeld(t) \/ RetryHeld(t)
  BY <1>1, <1>2 DEF Stands
<1>6. /\ u.kind = t.kind /\ u.token = t.token /\ u.at = t.at /\ u.stale = t.stale
  BY <1>4 DEF SameRequest
<1>7. RotationHeld(t) => RotationHeld(u)
  BY <1>4, <1>6 DEF RotationHeld, Rotating, ClaimedToken
<1>8. RetryHeld(t) => RetryHeld(u)
  BY <1>4, <1>6 DEF RetryHeld, Found, Retrying, RetryDocs, RetriedToken
<1>9. Stands(u)
  BY <1>3, <1>4, <1>5, <1>7, <1>8 DEF Stands, g
<1> HIDE DEF t
<1> QED BY <1>1, <1>4, <1>9, MgGoes DEF t


LEMMA MgEndSession ==
  ASSUME NEW w \in Worker, Backend = "mongo", MongoInv, StoreInv',
         EndSession(w)
  PROVE  MongoInv'
<1> DEFINE t == tx[w]
           view == t.view
           docs == Targets(w)
           db == [session |-> "ended", refresh |-> view.refresh,
                  access |-> view.access]
           s == IF t.kind = "select" THEN "commit" ELSE "endTokens"
<1>1. t.step = "endSession" /\ ~Unlocked(t)
  BY DEF EndSession, Unlocked
<1>2. /\ t \in UnitOfWork /\ FoundItsRow(t) /\ Stands(t) /\ Seen(w) = view
      /\ view \in Family /\ ReadsThePast(t) /\ t.kind \in Kind
  BY <1>1, MgUnit, UnitFields
<1>3. /\ EndsBy(t, view.session, view.refresh, view.access) /\ t.wrote = {}
      /\ t.made = None
  BY <1>1, <1>2 DEF Stands, SnapshotOnly, FoundItsRow
<1>4. docs = {SessionDoc}
  <2>1. t.kind \in {"refresh", "revoke"} \/ view.session = "live"
    BY <1>2, <1>3 DEF EndsBy
  <2> QED BY <1>1, <1>2, <2>1 DEF Targets
<1>5. /\ view = [session |-> view.session, refresh |-> view.refresh,
                 access |-> view.access]
      /\ Linked(view.refresh) /\ view.access \in Seq(AccessRow)
      /\ Len(view.refresh) = Len(view.access)
  BY <1>2, FamilyTable
<1>6. Write(w, db, s)
  <2>1. Write(w, [view EXCEPT !.session = "ended"], s)
    BY <1>2, <1>4 DEF EndSession
  <2>2. [view EXCEPT !.session = "ended"] = db
    BY <1>5
  <2> QED BY <2>1, <2>2
<1>7. db \in Family
  <2> HIDE DEF view
  <2> QED BY <1>5, TableFamily
<1>8. /\ db.session = "ended" /\ db.refresh = view.refresh
      /\ db.access = view.access
  OBVIOUS
<1>9. Changes(db, view, docs)
  BY <1>4, <1>8 DEF Changes
<1> HIDE DEF db, docs
<1>10. ASSUME NEW u \in UnitOfWork, GoneOn(u, t, s, db, t.wrote \cup docs),
              u.proofs = t.proofs, docs \cap t.stale = {}
       PROVE  Stands(u)
  <2>1. /\ u.step = s /\ u.wrote = {SessionDoc}
        /\ u.view = db /\ u.row = t.row /\ u.kind = t.kind /\ u.made = t.made
        /\ u.token = t.token /\ u.at = t.at /\ ProofId(u) = ProofId(t)
        /\ u.proofs = t.proofs
    BY <1>3, <1>4, <1>10 DEF GoneOn, SameRequest, ProofId
  <2>2. view.session = session
    BY <1>2, <1>3, <1>4, <1>10 DEF ReadsThePast
  <2>3. EndsBy(u, session, u.view.refresh, u.view.access)
    BY <1>3, <1>8, <2>1, <2>2 DEF EndsBy
  <2>4. CASE t.kind = "select"
    <3>1. session = "live"
      BY <1>3, <2>2, <2>4 DEF EndsBy
    <3> QED BY <1>3, <1>8, <2>1, <2>4, <3>1 DEF Stands
  <2>5. CASE t.kind # "select"
    BY <1>8, <2>1, <2>3, <2>5 DEF Stands
  <2> QED BY <2>4, <2>5
<1>11. docs \cap t.wrote = {}
  BY <1>3
<1> HIDE DEF t, s
<1> QED BY <1>1, <1>6, <1>7, <1>9, <1>10, <1>11, MgWrites DEF t, docs, view

LEMMA MgEndTokens ==
  ASSUME NEW w \in Worker, Backend = "mongo", MongoInv, StoreInv',
         EndTokens(w)
  PROVE  MongoInv'
<1> DEFINE t == tx[w]
           view == t.view
           docs == Targets(w)
           db == [session |-> view.session, refresh |-> RevokeAll(view.refresh),
                  access |-> RevokeAll(view.access)]
<1>1. t.step = "endTokens" /\ ~Unlocked(t)
  BY DEF EndTokens, Unlocked
<1>2. /\ t \in UnitOfWork /\ FoundItsRow(t) /\ Stands(t) /\ Seen(w) = view
      /\ view \in Family /\ ReadsThePast(t) /\ SeesEveryPair(t)
      /\ Len(view.refresh) \in Nat /\ Len(view.refresh) <= Len(refresh)
      /\ DOMAIN view.refresh = 1..Len(view.refresh)
      /\ DOMAIN view.access = 1..Len(view.refresh)
      /\ view.refresh \in Seq(RefreshRow) /\ view.access \in Seq(AccessRow)
      /\ refresh \in Seq(RefreshRow) /\ access \in Seq(AccessRow)
      /\ Len(refresh) \in Nat /\ Len(access) = Len(refresh)
      /\ Pair = 1..Len(refresh)
  BY <1>1, MgUnit
<1>3. /\ EndsBy(t, session, view.refresh, view.access)
      /\ t.wrote = {SessionDoc} /\ view.session = "ended"
      /\ t.kind # "select" /\ t.made = None
  BY <1>1, <1>2 DEF Stands, FoundItsRow
<1>4. docs = TokenDocs(view)
  BY <1>1, <1>2 DEF Targets
<1>5. /\ view = [session |-> view.session, refresh |-> view.refresh,
                 access |-> view.access]
      /\ Linked(view.refresh) /\ view.session \in {"none", "live", "ended"}
      /\ Len(view.access) = Len(view.refresh)
  BY <1>2, FamilyTable
<1>6. Write(w, db, "commit")
  <2>1. Write(w, [view EXCEPT !.refresh = RevokeAll(@), !.access = RevokeAll(@)],
              "commit")
    BY <1>2 DEF EndTokens
  <2>2. [view EXCEPT !.refresh = RevokeAll(@), !.access = RevokeAll(@)] = db
    <3> HIDE DEF view
    <3>1. view = [session |-> view.session, refresh |-> view.refresh,
                  access |-> view.access]
      BY <1>5
    <3>2. \A x, y : [view EXCEPT !.refresh = x, !.access = y]
                     = [session |-> view.session, refresh |-> x, access |-> y]
      BY ZenonT(60), <3>1, BothTables
    <3> QED BY <3>2
  <2> QED BY <2>1, <2>2
<1> HIDE DEF view
<1>7. /\ Linked(RevokeAll(view.refresh))
      /\ Len(RevokeAll(view.refresh)) = Len(view.refresh)
      /\ RevokeAll(view.access) \in Seq(AccessRow)
      /\ Len(RevokeAll(view.access)) = Len(view.access)
  BY <1>2, <1>5, RevokesAll, RevokeAllAccess
<1>8. db \in Family
  BY <1>5, <1>7, TableFamily
<1>9. /\ db.session = view.session
      /\ db.refresh = RevokeAll(view.refresh)
      /\ db.access = RevokeAll(view.access)
  OBVIOUS
<1> HIDE DEF db, docs
<1>10. /\ DOMAIN db.refresh = DOMAIN view.refresh
       /\ Len(db.refresh) = Len(view.refresh)
       /\ \A k \in DOMAIN view.refresh : db.refresh[k] = Retired(view.refresh[k])
       /\ \A k \in DOMAIN view.access : db.access[k] = Retired(view.access[k])
  BY <1>7, <1>9 DEF RevokeAll
<1>11. /\ \A k \in DOMAIN view.refresh : RefreshDoc(k) \in docs /\ AccessDoc(k) \in docs
       /\ SessionDoc \notin docs
  BY <1>2, <1>4, DocsDiffer DEF TokenDocs
<1>12. Changes(db, view, docs)
  BY <1>9, <1>10, <1>11 DEF Changes
<1>13. ASSUME NEW u \in UnitOfWork, GoneOn(u, t, "commit", db, t.wrote \cup docs),
              u.proofs = t.proofs, docs \cap t.stale = {}
       PROVE  Stands(u)
  <2>1. /\ u.step = "commit" /\ u.wrote = {SessionDoc} \cup docs
        /\ u.view = db /\ u.row = t.row /\ u.kind = t.kind /\ u.made = t.made
        /\ u.token = t.token /\ u.at = t.at /\ ProofId(u) = ProofId(t)
        /\ u.proofs = t.proofs
    BY <1>3, <1>13 DEF GoneOn, SameRequest, ProofId
  <2>2. Len(view.refresh) = Len(refresh)
    <3>1. \A k \in DOMAIN view.refresh : RefreshDoc(k) \notin t.stale
      BY <1>11, <1>13
    <3>2. ~(Len(view.refresh) < Len(refresh))
      BY <1>2, <3>1 DEF SeesEveryPair, view
    <3> QED BY <1>2, <3>2
  <2>3. \A k \in Pair : view.refresh[k] = refresh[k] /\ view.access[k] = access[k]
    <3> SUFFICES ASSUME NEW k \in Pair
                 PROVE  view.refresh[k] = refresh[k] /\ view.access[k] = access[k]
      OBVIOUS
    <3>1. k \in DOMAIN view.refresh
      BY <1>2, <2>2
    <3>2. /\ RefreshDoc(k) \notin t.stale \cup t.wrote
          /\ AccessDoc(k) \notin t.stale \cup t.wrote
      BY <1>3, <1>11, <1>13, <3>1, DocsDiffer
    <3> QED BY <1>2, <3>1, <3>2 DEF ReadsThePast, view
  <2>4. view.refresh = refresh /\ view.access = access
    BY <1>2, <1>5, <2>2, <2>3
  <2>5. EndsBy(u, session, refresh, access)
    BY <1>3, <2>1, <2>4 DEF EndsBy
  <2>6. \A k \in Pair : /\ RefreshDoc(k) \in u.wrote /\ AccessDoc(k) \in u.wrote
                        /\ u.view.refresh[k] = Retired(refresh[k])
                        /\ u.view.access[k] = Retired(access[k])
    BY <1>2, <1>10, <1>11, <2>1, <2>2, <2>4
  <2>7. FamilyHeld(u)
    BY <1>3, <1>9, <1>10, <2>1, <2>2, <2>5, <2>6 DEF FamilyHeld
  <2> QED BY <1>3, <2>1, <2>7 DEF Stands
<1>14. docs \cap t.wrote = {}
  BY <1>3, <1>11
<1> HIDE DEF t
<1> QED BY <1>1, <1>6, <1>8, <1>12, <1>13, <1>14, MgWrites DEF t, docs, view


LEMMA MgStart ==
  ASSUME NEW w \in Worker, NEW kind \in Kind, NEW i \in Nat, NEW n \in Nat,
         MongoInv, StoreInv', Start(w, kind, i, n)
  PROVE  MongoInv'
<1> DEFINE u == [Idle EXCEPT !.step = "find", !.kind = kind, !.token = i,
                             !.proof = n, !.at = clock, !.run = 1]
<1>1. /\ tx' = [tx EXCEPT ![w] = u] /\ tx[w].step = "idle"
      /\ requests' = requests + 1 /\ requests < MaxRequests /\ UNCHANGED vars
  BY DEF Start
<1>2. u.step = "find" /\ u.wrote = {}
  BY DEF Idle
<1> HIDE DEF u
<1>3. /\ tx \in [Worker -> UnitOfWork] /\ requests \in Nat
      /\ Len(refresh) \in Nat
  BY DEF MongoInv, StoreInv, TypeOK
<1>4. \A v \in Worker : tx'[v] = IF v = w THEN u ELSE tx[v]
  BY <1>1, <1>3
<1>5. UNCHANGED <<clock, code, session, bound, absolute, authority, refresh,
                  access>>
  BY <1>1 DEF vars
<1>6. IndInv'
  BY <1>1, NextIndInv DEF MongoInv
<1>7. authority' /\ WritesApart'
  BY <1>2, <1>4, <1>5 DEF MongoInv, WritesApart
<1>8. HasSnapshot(u)
  BY <1>2 DEF HasSnapshot, Unlocked
<1>9. (\A t \in UnitsOfWork : HasSnapshot(t))'
  <2> SUFFICES ASSUME NEW t \in UnitsOfWork' PROVE HasSnapshot(t)'
    OBVIOUS
  <2>1. HasSnapshot(t)
    BY <1>4, <1>8 DEF MongoInv, UnitsOfWork
  <2> QED BY <1>5, <2>1, MgSame
<1>10. PairsRequested'
  <2>1. Open' = Open \cup {w} /\ w \notin Open
    BY <1>1, <1>2, <1>4 DEF Open
  <2>2. /\ IsFiniteSet(Open) /\ Len(refresh) + Cardinality(Open) <= requests + 1
    BY DEF MongoInv, PairsRequested
  <2>3. /\ IsFiniteSet(Open') /\ Cardinality(Open') = Cardinality(Open) + 1
        /\ Cardinality(Open) \in Nat
    BY <2>1, <2>2, FS_AddElement, FS_CardinalityType
  <2> QED BY <1>1, <1>3, <1>5, <2>2, <2>3, StoresAssumption DEF PairsRequested
<1> QED BY <1>6, <1>7, <1>9, <1>10 DEF MongoInv

-----------------------------------------------------------------------------
(* Steps that commit something, as every other unit of work sees them. *)

(* What a commit of the documents docs does to the family: it issues a     *)
(* pair only when it withdraws the live one.                               *)
Overtakes(docs) ==
  /\ UNCHANGED <<bound, absolute, authority>>
  /\ refresh' \in Seq(RefreshRow) /\ access' \in Seq(AccessRow)
  /\ Len(access') = Len(refresh')
  /\ Len(refresh) <= Len(refresh')
  /\ Len(refresh) < Len(refresh') =>
       \E k \in Pair : Live(refresh[k]) /\ RefreshDoc(k) \in docs
  /\ SessionDoc \notin docs => session' = session
  /\ \A k \in Pair :
       /\ RefreshDoc(k) \notin docs => refresh'[k] = refresh[k]
       /\ AccessDoc(k) \notin docs => access'[k] = access[k]
       /\ access[k].spent => access'[k].spent
       /\ access'[k].generation = access[k].generation
       /\ access'[k].firstUsed /\ ~access[k].firstUsed
            => Live(refresh[k]) /\ AccessDoc(k) \in docs
  /\ \A k \in DOMAIN access' \ Pair : ~access'[k].firstUsed

(* An unused successor stays one until it or its token is written.         *)
LEMMA MgUnused ==
  ASSUME NEW i \in Pair, NEW docs, IndInv, Overtakes(docs),
         HasUnusedSuccessor(refresh, access, i),
         {RefreshDoc(i), RefreshDoc(refresh[i].next), AccessDoc(refresh[i].next)}
           \cap docs = {}
  PROVE  HasUnusedSuccessor(refresh', access', i)
<1> DEFINE next == refresh[i].next
<1>1. /\ next \in Pair /\ Live(refresh[next])
      /\ refresh[next].generation = refresh[i].generation + 1
      /\ access[next].generation = refresh[i].generation + 1
      /\ CanRevokeSuccessor(refresh, access, next)
      /\ \A k \in DOMAIN access : access[k].generation = refresh[i].generation + 1
                                    => ~access[k].firstUsed
  BY SuccessorLater DEF HasUnusedSuccessor, CanRevokeSuccessor
<1>2. /\ refresh'[i] = refresh[i] /\ refresh'[next] = refresh[next]
      /\ access'[next] = access[next]
  BY <1>1 DEF Overtakes
<1>3. DOMAIN access = Pair
  BY RowTypes DEF IndInv
<1>4. ASSUME NEW k \in DOMAIN access',
             access'[k].generation = refresh[i].generation + 1
      PROVE  ~access'[k].firstUsed
  <2>1. CASE k \notin Pair
    BY <2>1 DEF Overtakes
  <2>2. CASE k \in Pair
    <3>1. ~access[k].firstUsed
      BY <1>1, <1>3, <1>4, <2>2 DEF Overtakes
    <3>2. access'[k].firstUsed => Live(refresh[k]) /\ AccessDoc(k) \in docs
      BY <2>2, <3>1 DEF Overtakes
    <3>3. Live(refresh[k]) => k = next
      BY <1>1, <2>2 DEF IndInv, OneLivePair
    <3> QED BY <3>2, <3>3
  <2> QED BY <2>1, <2>2
<1>5. next # None
  BY DEF HasUnusedSuccessor
<1> QED BY <1>1, <1>2, <1>4, <1>5 DEF HasUnusedSuccessor, CanRevokeSuccessor

LEMMA MgElsewhere ==
  ASSUME NEW v \in Worker, NEW t, NEW u, NEW docs, Backend = "mongo", MongoInv,
         Overtakes(docs), t = tx[v], ~Unlocked(t), docs \cap t.wrote = {},
         SameWork(u, t), u.stale = t.stale \cup docs
  PROVE  HasSnapshot(u)'
<1>1. /\ t \in UnitOfWork /\ FoundItsRow(t)
      /\ ReadsThePast(t) /\ SeesEveryPair(t) /\ Stands(t)
      /\ t.view.refresh \in Seq(RefreshRow) /\ t.view.access \in Seq(AccessRow)
      /\ Len(t.view.refresh) \in Nat /\ Len(t.view.refresh) <= Len(refresh)
      /\ DOMAIN t.view.refresh = 1..Len(t.view.refresh)
      /\ Len(refresh) \in Nat /\ Pair = 1..Len(refresh)
      /\ OfToken(t) => /\ t.token \in DOMAIN t.view.refresh
                       /\ t.row \in RefreshRow
                       /\ t.row.next \in 0..Len(t.view.refresh)
  BY MgUnit
<1>2. DOMAIN t.view.refresh \subseteq Pair
  BY <1>1
<1>3. /\ Len(refresh') \in Nat /\ Pair' = 1..Len(refresh')
      /\ Len(refresh) <= Len(refresh') /\ Pair \subseteq Pair'
      /\ UNCHANGED <<bound, absolute>>
  BY <1>1 DEF Overtakes, Pair
<1>4. /\ u.step = t.step /\ u.kind = t.kind /\ u.token = t.token
      /\ u.at = t.at /\ u.row = t.row /\ u.view = t.view /\ u.wrote = t.wrote
      /\ u.proofs = t.proofs /\ u.made = t.made
      /\ ProofId(u) = ProofId(t) /\ (OfToken(u) <=> OfToken(t))
  BY DEF SameWork, ProofId, OfToken
<1>5. OneLivePair /\ IndInv
  BY DEF MongoInv, IndInv
<1>6. t.kind = "refresh" => /\ t.token \in DOMAIN t.view.refresh
                            /\ t.token \in Pair /\ OfToken(t)
                            /\ t.row \in RefreshRow
                            /\ t.row.next # None => t.row.next \in Pair
  BY <1>1, <1>2 DEF OfToken, None
<1>7. ReadsThePast(u)'
  <2>1. u.wrote \cap u.stale = {}
    BY <1>1, <1>4 DEF ReadsThePast
  <2>2. ASSUME NEW k \in DOMAIN u.view.refresh
        PROVE  /\ RefreshDoc(k) \notin u.stale \cup u.wrote
                    => u.view.refresh[k] = refresh'[k]
               /\ AccessDoc(k) \notin u.stale \cup u.wrote
                    => u.view.access[k] = access'[k]
               /\ AccessDoc(k) \notin u.wrote /\ u.view.access[k].spent
                    => access'[k].spent
    BY <1>1, <1>2, <1>4 DEF ReadsThePast, Overtakes
  <2>3. SessionDoc \notin u.stale \cup u.wrote => u.view.session = session'
    BY <1>1, <1>4 DEF ReadsThePast, Overtakes
  <2>4. OfToken(u) /\ RefreshDoc(u.token) \notin u.stale
          => u.row = refresh'[u.token]
    BY <1>1, <1>2, <1>4 DEF ReadsThePast, Overtakes
  <2> QED BY <2>1, <2>2, <2>3, <2>4 DEF ReadsThePast
<1>8. SeesEveryPair(u)'
  <2> SUFFICES ASSUME Len(t.view.refresh) < Len(refresh')
               PROVE  \E k \in DOMAIN t.view.refresh : RefreshDoc(k) \in u.stale
    BY <1>4 DEF SeesEveryPair
  <2>1. CASE Len(t.view.refresh) < Len(refresh)
    BY <1>1, <2>1 DEF SeesEveryPair
  <2>2. CASE Len(t.view.refresh) = Len(refresh)
    <3>1. \E k \in Pair : RefreshDoc(k) \in docs
      BY <2>2 DEF Overtakes
    <3> QED BY <1>1, <2>2, <3>1
  <2> QED BY <1>1, <2>1, <2>2
<1>9. Rotating(t) => Rotating(u)'
  <2> SUFFICES ASSUME Rotating(t), RefreshDoc(t.token) \notin u.stale
               PROVE  Len(t.view.refresh) = Len(refresh')
    BY <1>3, <1>4 DEF Rotating
  <2>1. /\ t.token \in Pair /\ t.row = refresh[t.token] /\ Live(refresh[t.token])
        /\ Len(t.view.refresh) = Len(refresh)
    BY <1>1, <1>6 DEF Rotating, ReadsThePast, Live
  <2>2. ~(Len(refresh) < Len(refresh'))
    BY <1>5, <2>1 DEF Overtakes, OneLivePair
  <2> QED BY <1>1, <1>3, <2>1, <2>2
<1>10. Retrying(t) => Retrying(u)'
  BY <1>3, <1>4 DEF Retrying
<1>11. RetryDocs(u) = RetryDocs(t)
  BY <1>4 DEF RetryDocs
<1>12. ASSUME t.kind = "refresh", RetryDocs(t) \cap u.stale = {},
              HasUnusedSuccessor(refresh, access, t.token)
       PROVE  HasUnusedSuccessor(refresh', access', t.token)
  <2>1. t.row = refresh[t.token] /\ t.token \in Pair
    BY <1>1, <1>6, <1>12 DEF ReadsThePast, RetryDocs
  <2>2. {RefreshDoc(t.token), RefreshDoc(refresh[t.token].next),
         AccessDoc(refresh[t.token].next)} \cap docs = {}
    BY <1>12, <2>1 DEF RetryDocs
  <2> QED BY <1>5, <1>12, <2>1, <2>2, MgUnused
<1>13. Found(t) => Found(u)'
  BY <1>4, <1>10, <1>11, <1>12 DEF Found, Retrying
<1>14. t.kind = "refresh" /\ StillUnused(t) => StillUnused(u)'
  BY <1>4, <1>11, <1>12 DEF StillUnused
<1>15. RotationHeld(t) => RotationHeld(u)'
  <2> SUFFICES ASSUME RotationHeld(t) PROVE RotationHeld(u)'
    OBVIOUS
  <2>1. Rotating(t) /\ Rotating(u)' /\ t.token \in Pair
    BY <1>6, <1>9 DEF RotationHeld, Rotating
  <2>2. RefreshDoc(t.token) \in t.wrote /\ RefreshDoc(t.token) \notin u.stale
    BY <1>1, <2>1 DEF RotationHeld, ReadsThePast
  <2>3. Len(refresh') = Len(refresh)
    BY <1>4, <2>1, <2>2 DEF Rotating
  <2>4. Pair' = Pair
    BY <1>1, <1>3, <2>3
  <2>5. ASSUME NEW k \in Pair
        PROVE  IF access'[k].spent THEN AccessDoc(k) \notin t.wrote
               ELSE /\ AccessDoc(k) \in t.wrote
                    /\ t.view.access[k] = Retired(access'[k])
    <3>1. CASE access[k].spent
      BY <2>5, <3>1 DEF RotationHeld, Overtakes
    <3>2. CASE ~access[k].spent
      <4>1. AccessDoc(k) \in t.wrote /\ AccessDoc(k) \notin docs
        BY <2>5, <3>2 DEF RotationHeld
      <4>2. access'[k] = access[k]
        BY <2>5, <4>1 DEF Overtakes
      <4> QED BY <2>5, <3>2, <4>1, <4>2 DEF RotationHeld
    <3> QED BY <3>1, <3>2
  <2> QED BY <1>4, <2>1, <2>4, <2>5 DEF RotationHeld, ClaimedToken
<1>16. RetryHeld(t) => RetryHeld(u)'
  <2> SUFFICES ASSUME RetryHeld(t) PROVE RetryHeld(u)'
    OBVIOUS
  <2>1. Found(t) /\ Found(u)' /\ t.row.next \in Pair
    BY <1>6, <1>13 DEF RetryHeld, Found, Retrying
  <2>2. RefreshDoc(t.row.next) \notin docs /\ AccessDoc(t.row.next) \notin docs
    BY DEF RetryHeld, RetryDocs
  <2>3. /\ refresh'[t.row.next] = refresh[t.row.next]
        /\ access'[t.row.next] = access[t.row.next]
    BY <2>1, <2>2 DEF Overtakes
  <2> QED BY <1>4, <1>11, <2>1, <2>3 DEF RetryHeld, RetriedToken
<1>17. SnapshotOnly(t) => SnapshotOnly(u)
  BY <1>4 DEF SnapshotOnly
<1>18. /\ EndsBy(t, t.view.session, t.view.refresh, t.view.access)
            => EndsBy(u, u.view.session, u.view.refresh, u.view.access)'
       /\ SessionDoc \in t.wrote /\ EndsBy(t, session, t.view.refresh, t.view.access)
            => EndsBy(u, session, u.view.refresh, u.view.access)'
  <2>1. SessionDoc \in t.wrote => session' = session
    BY DEF Overtakes
  <2> QED BY <1>3, <1>4, <2>1 DEF EndsBy
<1>19. FamilyHeld(t) => FamilyHeld(u)'
  <2> SUFFICES ASSUME FamilyHeld(t) PROVE FamilyHeld(u)'
    OBVIOUS
  <2>1. \A k \in Pair : RefreshDoc(k) \notin docs /\ AccessDoc(k) \notin docs
    BY DEF FamilyHeld
  <2>2. SessionDoc \notin docs
    BY DEF FamilyHeld
  <2>3. Len(refresh') = Len(refresh) /\ session' = session
    BY <1>1, <1>3, <2>1, <2>2 DEF Overtakes
  <2>4. \A k \in Pair : refresh'[k] = refresh[k] /\ access'[k] = access[k]
    BY <2>1 DEF Overtakes
  <2>5. /\ refresh \in Seq(RefreshRow) /\ access \in Seq(AccessRow)
        /\ Len(access) = Len(refresh)
        /\ refresh' \in Seq(RefreshRow) /\ access' \in Seq(AccessRow)
        /\ Len(access') = Len(refresh')
    BY <1>5 DEF IndInv, TypeOK, Overtakes
  <2>6. refresh' = refresh /\ access' = access
    <3>1. \A k \in 1..Len(refresh) : refresh'[k] = refresh[k] /\ access'[k] = access[k]
      BY <1>1, <2>4
    <3>2. refresh' = refresh
      BY <2>3, <2>5, <3>1, SeqEqual
    <3>3. access' = access
      BY <2>3, <2>5, <3>1, SeqEqual
    <3> QED BY <3>2, <3>3
  <2>7. EndsBy(t, session, refresh, access) => EndsBy(u, session, refresh, access)'
    BY <1>3, <1>4, <2>3, <2>6 DEF EndsBy
  <2> QED BY <1>4, <2>3, <2>6, <2>7 DEF FamilyHeld, Pair
<1>20. Stands(u)'
  <2>1. CASE t.step \in {"reserve", "claimRefresh", "successor", "claimRetry",
                         "endSession"}
    BY <1>1, <1>3, <1>4, <1>9, <1>10, <1>13, <1>14, <1>17, <1>18, <2>1 DEF Stands
  <2>2. CASE t.step \in {"retire", "revokeSuccessor"}
    BY <1>1, <1>4, <1>9, <1>13, <2>2 DEF Stands, ClaimedToken, RetriedToken
  <2>3. CASE t.step = "issue" \/ (t.step = "commit" /\ t.made # None)
    BY <1>1, <1>4, <1>15, <1>16, <2>3 DEF Stands
  <2>4. CASE t.step = "endTokens"
    BY <1>1, <1>4, <1>18, <2>4 DEF Stands
  <2>5. CASE t.step = "commit" /\ t.made = None
    <3>1. SessionDoc \in t.wrote => session' = session
      BY DEF Overtakes
    <3> QED BY <1>1, <1>4, <1>19, <2>5, <3>1 DEF Stands
  <2> QED BY <1>1, <2>1, <2>2, <2>3, <2>4, <2>5 DEF Stands
<1> QED BY <1>7, <1>8, <1>20 DEF HasSnapshot


-----------------------------------------------------------------------------
(* Steps that commit something, as they change the family. *)

(* The tables a commit leaves.                                             *)
LEMMA MgTables ==
  ASSUME NEW w \in Worker, NEW t, NEW db, Backend = "mongo", MongoInv,
         t = tx[w], t.step = "commit", Stored(w),
         db = Overlay(Committed, t.view, t.wrote)
  PROVE  /\ db.refresh \in Seq(RefreshRow) /\ db.access \in Seq(AccessRow)
         /\ Len(db.refresh) = Len(refresh) /\ Len(db.access) = Len(refresh)
         /\ \A k \in Pair :
              /\ db.refresh[k] = IF RefreshDoc(k) \in t.wrote
                                 THEN t.view.refresh[k] ELSE refresh[k]
              /\ db.access[k] = IF AccessDoc(k) \in t.wrote
                                THEN t.view.access[k] ELSE access[k]
         /\ db.session = IF SessionDoc \in t.wrote THEN t.view.session ELSE session
         /\ UNCHANGED <<clock, code, bound, absolute, authority>>
         /\ session' = db.session
         /\ t.made = None => refresh' = db.refresh /\ access' = db.access
         /\ t.made # None =>
              LET issued == IssuedRefresh(db.refresh, t.made, absolute, t.token)
              IN  /\ refresh' = IF bound
                                THEN LinkPair(issued, t.token, Len(refresh) + 1)
                                ELSE issued
                  /\ access' = IssuedAccess(db.access, t.made, t.at, absolute)
<1>1. /\ t.view \in Family /\ WritesItsFamily(t)
      /\ Pair = 1..Len(refresh) /\ Len(t.view.refresh) <= Len(refresh)
  BY MgUnit DEF Unlocked
<1>2. /\ Committed \in Family /\ Committed.refresh = refresh
      /\ Committed.access = access /\ Committed.session = session
  BY DEF MongoInv, StoreInv, Committed
<1>3. t.wrote \subseteq {SessionDoc} \cup TokenDocs(t.view)
  BY <1>1 DEF WritesItsFamily
<1>4. /\ db \in Family /\ Len(db.refresh) = Len(refresh)
      /\ \A k \in DOMAIN Committed.refresh :
           /\ db.refresh[k] = IF RefreshDoc(k) \in t.wrote THEN t.view.refresh[k]
                              ELSE Committed.refresh[k]
           /\ db.access[k] = IF AccessDoc(k) \in t.wrote THEN t.view.access[k]
                             ELSE Committed.access[k]
      /\ db.session = IF SessionDoc \in t.wrote THEN t.view.session
                      ELSE Committed.session
  BY <1>1, <1>2, <1>3, Overlays
<1>5. /\ Linked(db.refresh) /\ db.access \in Seq(AccessRow)
      /\ Len(db.refresh) = Len(db.access)
  BY <1>4, FamilyTable
<1>6. /\ UNCHANGED <<clock, code, bound, absolute, authority>>
      /\ session' = After(w).session /\ refresh' = After(w).refresh
      /\ access' = After(w).access
  BY DEF Stored
<1>7. After(w) =
        IF t.made = None THEN db
        ELSE LET issued == IssuedRefresh(db.refresh, t.made, absolute, t.token)
             IN  [session |-> db.session,
                  refresh |-> IF bound
                              THEN LinkPair(issued, t.token, Len(db.refresh) + 1)
                              ELSE issued,
                  access |-> IssuedAccess(db.access, t.made, t.at, absolute)]
  BY DEF After
<1>8. session' = db.session /\ (t.made = None => refresh' = db.refresh
                                                 /\ access' = db.access)
  BY <1>6, <1>7
<1>9. t.made # None =>
              LET issued == IssuedRefresh(db.refresh, t.made, absolute, t.token)
              IN  /\ refresh' = IF bound
                                THEN LinkPair(issued, t.token, Len(refresh) + 1)
                                ELSE issued
                  /\ access' = IssuedAccess(db.access, t.made, t.at, absolute)
  BY <1>4, <1>6, <1>7
<1>10. db.refresh \in Seq(RefreshRow) /\ Len(db.access) = Len(refresh)
  BY <1>4, <1>5 DEF Linked
<1>11. \A k \in Pair :
              /\ db.refresh[k] = IF RefreshDoc(k) \in t.wrote
                                 THEN t.view.refresh[k] ELSE refresh[k]
              /\ db.access[k] = IF AccessDoc(k) \in t.wrote
                                THEN t.view.access[k] ELSE access[k]
  BY <1>2, <1>4 DEF Pair
<1> QED BY <1>2, <1>4, <1>5, <1>6, <1>8, <1>9, <1>10, <1>11

LEMMA MgRoom ==
  ASSUME NEW w \in Worker, MongoInv, tx[w].step # "idle"
  PROVE  Len(refresh) < MaxPairs
<1>1. /\ IsFiniteSet(Open) /\ Len(refresh) + Cardinality(Open) <= requests + 1
      /\ requests <= MaxRequests /\ requests \in Nat /\ Len(refresh) \in Nat
  BY DEF MongoInv, PairsRequested, StoreInv, TypeOK
<1>2. w \in Open
  BY DEF Open
<1>3. Cardinality(Open) \in Nat /\ Cardinality(Open) # 0
  BY <1>1, <1>2, FS_CardinalityType, FS_EmptySet
<1> QED BY <1>1, <1>3, StoresAssumption, BoundAssumption

(* A rotation that is committed claimed a token that is still unspent, and *)
(* retired every access token that was not yet.                            *)
LEMMA MgRotates ==
  ASSUME NEW w \in Worker, NEW t, Backend = "mongo", MongoInv,
         t = tx[w], t.step = "commit", Stored(w), t.made # None, RotationHeld(t)
  PROVE  LateRotate(t.token, t.at) /\ t.token \in Pair /\ Overtakes(t.wrote)
<1> DEFINE db == Overlay(Committed, t.view, t.wrote)
           i == t.token
<1>1. /\ t \in UnitOfWork /\ ReadsThePast(t) /\ Stands(t) /\ t.at \in 1..clock
      /\ OfToken(t) => t.token \in DOMAIN t.view.refresh
      /\ DOMAIN t.view.refresh = 1..Len(t.view.refresh)
      /\ Len(t.view.refresh) \in Nat /\ Len(t.view.refresh) <= Len(refresh)
      /\ Len(refresh) \in Nat /\ Pair = 1..Len(refresh)
      /\ t.at \in Nat
  BY MgUnit DEF Unlocked
<1>2. /\ Rotating(t) /\ OfToken(t) /\ i \in Pair
      /\ RefreshDoc(i) \in t.wrote /\ RefreshDoc(i) \notin t.stale
      /\ SessionDoc \notin t.wrote /\ t.made = t.row.generation + 1
  BY <1>1 DEF RotationHeld, Rotating, OfToken, ReadsThePast, Stands,
              RetryHeld, Found, Retrying
<1>3. t.row = refresh[i]
  BY <1>1, <1>2 DEF ReadsThePast
<1>4. /\ MayRotate(i) /\ refresh[i].expiresAt > t.at /\ absolute > t.at
      /\ authority
  BY <1>2, <1>3 DEF Rotating, MayRotate, Live, MongoInv
<1>5. /\ IndInv /\ TypeOK /\ refresh \in Seq(RefreshRow)
      /\ access \in Seq(AccessRow) /\ DOMAIN access = Pair
      /\ Len(access) = Len(refresh)
  BY DEF MongoInv, IndInv, TypeOK, Pair
<1>6. /\ db.refresh \in Seq(RefreshRow) /\ db.access \in Seq(AccessRow)
      /\ Len(db.refresh) = Len(refresh) /\ Len(db.access) = Len(refresh)
      /\ \A k \in Pair :
           /\ db.refresh[k] = IF RefreshDoc(k) \in t.wrote
                              THEN t.view.refresh[k] ELSE refresh[k]
           /\ db.access[k] = IF AccessDoc(k) \in t.wrote
                             THEN t.view.access[k] ELSE access[k]
      /\ db.session = IF SessionDoc \in t.wrote THEN t.view.session ELSE session
      /\ UNCHANGED <<clock, code, bound, absolute, authority>>
      /\ session' = db.session
      /\ LET issued == IssuedRefresh(db.refresh, t.made, absolute, t.token)
         IN  /\ refresh' = IF bound
                           THEN LinkPair(issued, t.token, Len(refresh) + 1)
                           ELSE issued
             /\ access' = IssuedAccess(db.access, t.made, t.at, absolute)
  BY MgTables
<1> HIDE DEF db
<1>7. db.refresh = ClaimRefresh(refresh, i, t.at)
  <2> DEFINE claimed == ClaimRefresh(refresh, i, t.at)
  <2>1. /\ claimed \in Seq(RefreshRow) /\ Len(claimed) = Len(refresh)
        /\ claimed[i] = [refresh[i] EXCEPT !.spent = TRUE, !.consumedAt = t.at]
        /\ \A k \in Pair \ {i} : claimed[k] = refresh[k]
    <3> DEFINE row == [refresh[i] EXCEPT !.spent = TRUE, !.consumedAt = t.at]
    <3>1. refresh[i] \in RefreshRow
      BY <1>1, <1>2, <1>5
    <3>2. row \in RefreshRow
      BY <1>1, <3>1, ClaimedRow
    <3>3. claimed = [refresh EXCEPT ![i] = row]
      BY DEF ClaimRefresh
    <3> HIDE DEF row, claimed
    <3>4. i \in DOMAIN refresh /\ DOMAIN refresh = 1..Len(refresh) /\ i \in Pair
      BY <1>1, <1>2 DEF Pair
    <3> HIDE DEF i
    <3>5. /\ claimed \in Seq(RefreshRow) /\ Len(claimed) = Len(refresh)
          /\ claimed[i] = row
          /\ \A k \in Pair \ {i} : claimed[k] = refresh[k]
      BY <1>5, <3>2, <3>3, <3>4 DEF Pair
    <3> QED BY <3>5 DEF row
  <2> HIDE DEF claimed
  <2>2. \A k \in 1..Len(refresh) : db.refresh[k] = claimed[k]
    BY <1>1, <1>2, <1>3, <1>6, <2>1 DEF RotationHeld, ClaimedToken
  <2>3. db.refresh = claimed
    BY <1>6, <2>1, <2>2, SeqEqual
  <2> QED BY <2>3 DEF claimed
<1>8. db.access = RetireAccessTokens(access)
  <2>1. /\ RetireAccessTokens(access) \in Seq(AccessRow)
        /\ Len(RetireAccessTokens(access)) = Len(access)
        /\ \A k \in DOMAIN access : RetireAccessTokens(access)[k]
             = IF access[k].spent THEN access[k] ELSE Retired(access[k])
    BY <1>5, RetireAccessSeq
  <2>2. \A k \in 1..Len(refresh) : db.access[k] = RetireAccessTokens(access)[k]
    BY <1>1, <1>5, <1>6, <2>1 DEF RotationHeld
  <2>3. /\ db.access \in Seq(AccessRow)
        /\ Len(db.access) = Len(RetireAccessTokens(access))
        /\ \A k \in 1..Len(db.access) : db.access[k] = RetireAccessTokens(access)[k]
    BY <1>5, <1>6, <2>1, <2>2
  <2> QED BY <2>1, <2>3, SeqEqual
<1>9. ClaimAndRotate(i, t.at)
  BY <1>2, <1>3, <1>6, <1>7, <1>8 DEF ClaimAndRotate
<1>10. Len(refresh) < MaxPairs
  BY MgRoom
<1>11. LateRotate(i, t.at)
  BY <1>4, <1>9, <1>10 DEF LateRotate
<1>12. Rotated(i, t.at)
  BY <1>1, <1>2, <1>5, <1>9, RotateRows
<1>13. Overtakes(t.wrote)
  <2>1. /\ refresh' \in Seq(RefreshRow) /\ access' \in Seq(AccessRow)
        /\ Len(refresh') = Len(refresh) + 1 /\ Len(access') = Len(refresh) + 1
        /\ UNCHANGED <<bound, absolute, authority>> /\ session' = session
    BY <1>2, <1>6, <1>12 DEF Rotated
  <2>2. \E k \in Pair : Live(refresh[k]) /\ RefreshDoc(k) \in t.wrote
    BY <1>2, <1>4 DEF MayRotate
  <2>3. \A k \in Pair : RefreshDoc(k) \notin t.wrote => refresh'[k] = refresh[k]
    BY <1>2, <1>12 DEF Rotated
  <2>4. ASSUME NEW k \in Pair
        PROVE  /\ AccessDoc(k) \notin t.wrote => access'[k] = access[k]
               /\ access[k].spent => access'[k].spent
               /\ access'[k].generation = access[k].generation
               /\ access'[k].firstUsed = access[k].firstUsed
    <3>1. access'[k] = IF access[k].spent THEN access[k] ELSE Retired(access[k])
      BY <1>12, <2>4 DEF Rotated
    <3>2. access[k] \in AccessRow
      BY <1>5
    <3>3. ~access[k].spent => AccessDoc(k) \in t.wrote
      BY <2>4 DEF RotationHeld
    <3> QED BY <3>1, <3>2, <3>3, RetiredAccess
  <2>5. \A k \in DOMAIN access' \ Pair : ~access'[k].firstUsed
    <3>1. \A k \in DOMAIN access' \ Pair : k = Len(refresh) + 1
      BY <1>1, <2>1
    <3> QED BY <1>12, <3>1, NewRowFields DEF Rotated
  <2> QED BY <1>1, <2>1, <2>2, <2>3, <2>4, <2>5 DEF Overtakes
<1> QED BY <1>2, <1>11, <1>13


(* A retry that is committed found its successor unused, and the successor *)
(* is unused still.                                                        *)
LEMMA MgReplaces ==
  ASSUME NEW w \in Worker, NEW t, Backend = "mongo", MongoInv,
         t = tx[w], t.step = "commit", Stored(w), t.made # None, RetryHeld(t)
  PROVE  LateReplace(t.token, t.at) /\ t.token \in Pair /\ Overtakes(t.wrote)
<1> DEFINE db == Overlay(Committed, t.view, t.wrote)
           i == t.token
           old == refresh[i].next
<1>1. /\ t \in UnitOfWork /\ ReadsThePast(t) /\ Stands(t) /\ t.at \in 1..clock
      /\ OfToken(t) => t.token \in DOMAIN t.view.refresh
      /\ DOMAIN t.view.refresh = 1..Len(t.view.refresh)
      /\ Len(t.view.refresh) \in Nat /\ Len(t.view.refresh) <= Len(refresh)
      /\ Len(refresh) \in Nat /\ Pair = 1..Len(refresh)
      /\ t.at \in Nat
  BY MgUnit DEF Unlocked
<1>2. /\ IndInv /\ TypeOK /\ refresh \in Seq(RefreshRow) /\ RowsLinked
      /\ access \in Seq(AccessRow) /\ DOMAIN access = Pair
      /\ Len(access) = Len(refresh)
  BY DEF MongoInv, IndInv, TypeOK, Pair
<1>3. /\ Found(t) /\ Retrying(t) /\ OfToken(t) /\ i \in Pair
      /\ t.wrote = RetryDocs(t) /\ RetryDocs(t) \cap t.stale = {}
      /\ t.row.retryClaimUntil <= t.at
  BY <1>1 DEF RetryHeld, Found, Retrying, OfToken, ReadsThePast
<1>4. t.row = refresh[i] /\ t.row.next = old
  BY <1>1, <1>3 DEF ReadsThePast, RetryDocs
<1>5. HasUnusedSuccessor(refresh, access, i)
  BY <1>3 DEF Found
<1>6. /\ old \in Pair /\ old # i /\ Live(refresh[old])
      /\ refresh[old].generation = refresh[i].generation + 1
  BY <1>2, <1>3, <1>5, SuccessorLater DEF HasUnusedSuccessor, CanRevokeSuccessor
<1>7. t.made = refresh[old].generation
  BY <1>1, <1>4, <1>6 DEF Stands
<1>8. MayReplace(i, t.at) /\ authority /\ absolute > t.at /\ bound
  BY <1>3, <1>4, <1>5 DEF Retrying, MayReplace, Retryable, CanClaimRetry, MongoInv
<1>9. t.wrote = {RefreshDoc(i), RefreshDoc(old), AccessDoc(old)}
  BY <1>3, <1>4 DEF RetryDocs
<1>10. /\ \A k \in Pair : RefreshDoc(k) \in t.wrote <=> k \in {i, old}
       /\ \A k \in Pair : AccessDoc(k) \in t.wrote <=> k = old
       /\ SessionDoc \notin t.wrote
  BY <1>9, DocsDiffer
<1>11. /\ t.view.refresh[i] = [refresh[i] EXCEPT
                                 !.retryClaimUntil = t.at + RetryWindow]
       /\ t.view.refresh[old] = Retired(refresh[old])
       /\ t.view.access[old] = Retired(access[old])
  BY <1>4 DEF RetryHeld, RetriedToken
<1>12. /\ db.refresh \in Seq(RefreshRow) /\ db.access \in Seq(AccessRow)
       /\ Len(db.refresh) = Len(refresh) /\ Len(db.access) = Len(refresh)
       /\ \A k \in Pair :
            /\ db.refresh[k] = IF RefreshDoc(k) \in t.wrote
                               THEN t.view.refresh[k] ELSE refresh[k]
            /\ db.access[k] = IF AccessDoc(k) \in t.wrote
                              THEN t.view.access[k] ELSE access[k]
       /\ db.session = IF SessionDoc \in t.wrote THEN t.view.session ELSE session
       /\ UNCHANGED <<clock, code, bound, absolute, authority>>
       /\ session' = db.session
       /\ LET issued == IssuedRefresh(db.refresh, t.made, absolute, t.token)
          IN  /\ refresh' = IF bound
                            THEN LinkPair(issued, t.token, Len(refresh) + 1)
                            ELSE issued
              /\ access' = IssuedAccess(db.access, t.made, t.at, absolute)
  BY MgTables
<1> HIDE DEF db, old
<1>13. db.refresh = RevokePair(ClaimRetry(refresh, i, t.at), old)
  <2> DEFINE row == [refresh[i] EXCEPT !.retryClaimUntil = t.at + RetryWindow]
             claimed == ClaimRetry(refresh, i, t.at)
             revoked == RevokePair(claimed, old)
  <2>1. claimed = [refresh EXCEPT ![i] = row]
    BY DEF ClaimRetry
  <2>2. row \in RefreshRow
    <3>1. refresh[i] \in RefreshRow /\ t.at + RetryWindow \in Nat
      BY <1>1, <1>2, <1>3, LifetimeAssumption
    <3> QED BY <3>1, RetryClaimedRow
  <2> HIDE DEF row, claimed
  <2>3. /\ claimed \in Seq(RefreshRow) /\ Len(claimed) = Len(refresh)
        /\ claimed[i] = row /\ \A k \in Pair \ {i} : claimed[k] = refresh[k]
    <3> HIDE DEF i
    <3>1. i \in DOMAIN refresh /\ DOMAIN refresh = 1..Len(refresh)
      BY <1>1, <1>3 DEF Pair
    <3> QED BY <1>2, <2>1, <2>2, <3>1 DEF Pair
  <2>4. claimed[old] = refresh[old] /\ Retired(refresh[old]) \in RefreshRow
    <3>1. refresh[old] \in RefreshRow
      BY <1>1, <1>2, <1>6
    <3> QED BY <1>6, <2>3, <3>1, RetiredRefresh
  <2>5. revoked = [claimed EXCEPT ![old] = Retired(refresh[old])]
    BY <2>4 DEF RevokePair
  <2> HIDE DEF revoked
  <2>6. /\ revoked \in Seq(RefreshRow) /\ Len(revoked) = Len(refresh)
        /\ revoked[old] = Retired(refresh[old])
        /\ revoked[i] = row /\ \A k \in Pair \ {i, old} : revoked[k] = refresh[k]
    <3>1. DOMAIN claimed = 1..Len(refresh)
      BY <1>1, <2>3
    <3> HIDE DEF i
    <3> QED BY <1>1, <1>3, <1>6, <2>3, <2>4, <2>5, <3>1
  <2>7. \A k \in 1..Len(refresh) : db.refresh[k] = revoked[k]
    BY <1>1, <1>3, <1>6, <1>10, <1>11, <1>12, <2>6 DEF row
  <2>8. db.refresh = revoked
    BY <1>12, <2>6, <2>7, SeqEqual
  <2> QED BY <2>8 DEF revoked, claimed
<1>14. db.access = RevokePair(access, old)
  <2>1. /\ RevokePair(access, old) \in Seq(AccessRow)
        /\ Len(RevokePair(access, old)) = Len(access)
        /\ RevokePair(access, old)[old] = Retired(access[old])
        /\ \A k \in DOMAIN access \ {old} : RevokePair(access, old)[k] = access[k]
    <3>1. old \in DOMAIN access
      BY <1>2, <1>6
    <3> QED BY <1>2, <3>1, WithdrawsAccess
  <2>2. \A k \in 1..Len(refresh) : db.access[k] = RevokePair(access, old)[k]
    BY <1>1, <1>2, <1>10, <1>11, <1>12, <2>1
  <2> DEFINE after == RevokePair(access, old)
  <2>3. /\ after \in Seq(AccessRow) /\ db.access \in Seq(AccessRow)
        /\ Len(db.access) = Len(after)
        /\ \A k \in 1..Len(db.access) : db.access[k] = after[k]
    BY <1>2, <1>12, <2>1, <2>2
  <2> HIDE DEF after
  <2>4. db.access = after
    BY <2>3, SeqEqual
  <2> QED BY <2>4 DEF after
<1>15. ClaimAndReplace(i, t.at)
  BY <1>7, <1>8, <1>10, <1>12, <1>13, <1>14 DEF ClaimAndReplace, old
<1>16. Len(refresh) < MaxPairs
  BY MgRoom
<1>17. LateReplace(i, t.at)
  BY <1>8, <1>15, <1>16 DEF LateReplace
<1>18. Replaced(i, t.at)
  BY <1>1, <1>2, <1>3, <1>8, <1>15, ReplaceRows
<1>19. Overtakes(t.wrote)
  <2>1. /\ refresh' \in Seq(RefreshRow) /\ access' \in Seq(AccessRow)
        /\ Len(refresh') = Len(refresh) + 1 /\ Len(access') = Len(refresh) + 1
        /\ UNCHANGED <<bound, absolute, authority>> /\ session' = session
    BY <1>10, <1>12, <1>18 DEF Replaced
  <2>2. \E k \in Pair : Live(refresh[k]) /\ RefreshDoc(k) \in t.wrote
    BY <1>6, <1>9
  <2>3. \A k \in Pair : RefreshDoc(k) \notin t.wrote => refresh'[k] = refresh[k]
    BY <1>10, <1>18 DEF Replaced, old
  <2>4. ASSUME NEW k \in Pair
        PROVE  /\ AccessDoc(k) \notin t.wrote => access'[k] = access[k]
               /\ access[k].spent => access'[k].spent
               /\ access'[k].generation = access[k].generation
               /\ access'[k].firstUsed = access[k].firstUsed
    <3>1. access'[k] = IF k = old THEN Retired(access[k]) ELSE access[k]
      BY <1>18, <2>4 DEF Replaced, old
    <3>2. access[k] \in AccessRow
      BY <1>2
    <3> QED BY <1>10, <3>1, <3>2, RetiredAccess
  <2>5. \A k \in DOMAIN access' \ Pair : ~access'[k].firstUsed
    <3>1. \A k \in DOMAIN access' \ Pair : k = Len(refresh) + 1
      BY <1>1, <2>1
    <3> QED BY <1>18, <3>1, NewRowFields DEF Replaced
  <2> QED BY <1>1, <2>1, <2>2, <2>3, <2>4, <2>5 DEF Overtakes
<1> QED BY <1>3, <1>17, <1>19


(* The end of a family that is committed withdraws every pair, and the     *)
(* reason for it still stands.                                             *)
LEMMA MgEnds ==
  ASSUME NEW w \in Worker, NEW t, Backend = "mongo", MongoInv,
         t = tx[w], t.step = "commit", Stored(w), t.made = None, FamilyHeld(t)
  PROVE  Next /\ Overtakes(t.wrote)
<1> DEFINE db == Overlay(Committed, t.view, t.wrote)
           i == t.token
<1>1. /\ t \in UnitOfWork /\ ReadsThePast(t) /\ t.at \in 1..clock
      /\ OfToken(t) => t.token \in DOMAIN t.view.refresh
      /\ DOMAIN t.view.refresh = 1..Len(t.view.refresh)
      /\ Len(refresh) \in Nat /\ Pair = 1..Len(refresh) /\ t.kind \in Kind
  BY MgUnit, UnitFields DEF Unlocked
<1>2. /\ IndInv /\ refresh \in Seq(RefreshRow)
      /\ access \in Seq(AccessRow) /\ DOMAIN access = Pair
      /\ Len(access) = Len(refresh)
  BY DEF MongoInv, IndInv, TypeOK, Pair
<1>3. /\ t.kind # "select" /\ SessionDoc \in t.wrote /\ t.view.session = "ended"
      /\ Len(t.view.refresh) = Len(refresh)
      /\ \A k \in Pair : /\ RefreshDoc(k) \in t.wrote /\ AccessDoc(k) \in t.wrote
                         /\ t.view.refresh[k] = Retired(refresh[k])
                         /\ t.view.access[k] = Retired(access[k])
      /\ EndsBy(t, session, refresh, access)
  BY DEF FamilyHeld
<1>4. /\ db.refresh \in Seq(RefreshRow) /\ db.access \in Seq(AccessRow)
      /\ Len(db.refresh) = Len(refresh) /\ Len(db.access) = Len(refresh)
      /\ \A k \in Pair :
           /\ db.refresh[k] = IF RefreshDoc(k) \in t.wrote
                              THEN t.view.refresh[k] ELSE refresh[k]
           /\ db.access[k] = IF AccessDoc(k) \in t.wrote
                             THEN t.view.access[k] ELSE access[k]
      /\ db.session = IF SessionDoc \in t.wrote THEN t.view.session ELSE session
      /\ UNCHANGED <<clock, code, bound, absolute, authority>>
      /\ session' = db.session
      /\ refresh' = db.refresh /\ access' = db.access
  BY MgTables
<1> HIDE DEF db
<1>5. refresh' = RevokeAll(refresh)
  <2>1. /\ RevokeAll(refresh) \in Seq(RefreshRow)
        /\ Len(RevokeAll(refresh)) = Len(refresh)
        /\ \A k \in DOMAIN refresh : RevokeAll(refresh)[k] = Retired(refresh[k])
    BY <1>2, RevokeAllRefresh
  <2>2. \A k \in 1..Len(refresh) : db.refresh[k] = RevokeAll(refresh)[k]
    BY <1>1, <1>3, <1>4, <2>1 DEF Pair
  <2> QED BY <1>4, <2>1, <2>2, SeqEqual
<1>6. access' = RevokeAll(access)
  <2>1. /\ RevokeAll(access) \in Seq(AccessRow)
        /\ Len(RevokeAll(access)) = Len(access)
        /\ \A k \in DOMAIN access : RevokeAll(access)[k] = Retired(access[k])
    BY <1>2, RevokeAllAccess
  <2>2. \A k \in 1..Len(refresh) : db.access[k] = RevokeAll(access)[k]
    BY <1>1, <1>2, <1>3, <1>4, <2>1
  <2>3. /\ access' \in Seq(AccessRow) /\ Len(access') = Len(RevokeAll(access))
        /\ \A k \in 1..Len(access') : access'[k] = RevokeAll(access)[k]
    BY <1>2, <1>4, <2>1, <2>2
  <2> QED BY <2>1, <2>3, SeqEqual
<1>7. EndFamily(refresh)
  BY <1>3, <1>4, <1>5, <1>6 DEF EndFamily
<1>8. Next
  <2>1. CASE t.kind \in {"signOut", "select"} /\ session = "live"
    BY <1>7, <2>1 DEF RevokeNativeSession, Next
  <2>2. CASE t.kind = "revoke"
    <3>1. i \in Pair
      BY <1>1, <1>3, <2>2 DEF OfToken
    <3>2. RevokeToken(i, "fresh")
      BY <1>7, <3>1 DEF RevokeToken
    <3> QED BY <3>1, <3>2 DEF Next, Proof
  <2>3. CASE t.kind = "refresh"
    <3>1. i \in Pair /\ OfToken(t)
      BY <1>1, <1>3, <2>3 DEF OfToken
    <3>2. RefreshDoc(i) \notin t.stale
      BY <1>1, <1>3, <3>1 DEF ReadsThePast
    <3>3. t.row = refresh[i]
      BY <1>1, <3>1, <3>2 DEF ReadsThePast
    <3>4. /\ ~refresh[i].revoked /\ refresh[i].spent
          /\ \/ ~bound
             \/ ~(session = "live" /\ absolute > t.at)
             \/ ~InsideRetryWindow(refresh[i], t.at)
                  \/ ~HasUnusedSuccessor(refresh, access, i)
      BY <1>3, <2>3, <3>3 DEF EndsBy
    <3>5. Presented(i, "fresh")
      BY <3>1, <3>4 DEF Presented
    <3>6. Replay(i, "fresh", t.at)
      BY <1>7, <3>4, <3>5 DEF Replay, HasAuthority, Retryable
    <3> QED BY <1>1, <3>1, <3>6 DEF Next, Proof
  <2> QED BY <1>3, <2>1, <2>2, <2>3 DEF EndsBy
<1>9. Overtakes(t.wrote)
  <2>1. Ended
    BY <1>2, <1>7, EndRows
  <2>2. /\ refresh' \in Seq(RefreshRow) /\ access' \in Seq(AccessRow)
        /\ Len(refresh') = Len(refresh) /\ Len(access') = Len(refresh)
        /\ UNCHANGED <<bound, absolute, authority>>
    BY <1>2, <2>1 DEF Ended
  <2>3. DOMAIN access' = Pair
    BY <1>1, <2>2
  <2>4. ASSUME NEW k \in Pair
        PROVE  /\ access'[k].spent
               /\ access'[k].generation = access[k].generation
               /\ access'[k].firstUsed = access[k].firstUsed
    <3>1. access'[k] = Retired(access[k]) /\ access[k] \in AccessRow
      BY <1>2, <1>3, <1>4, <2>4
    <3> QED BY <3>1, RetiredAccess
  <2> QED BY <1>1, <1>3, <2>2, <2>3, <2>4 DEF Overtakes
<1> QED BY <1>8, <1>9

(* A commit is a unit of work of NativeFamily, or one that comes after its *)
(* session's end; and to the others it is what Overtakes says.             *)
LEMMA MgCommits ==
  ASSUME NEW w \in Worker, Backend = "mongo", MongoInv,
         tx[w].step = "commit", Stored(w)
  PROVE  [LateNext]_vars /\ Overtakes(tx[w].wrote)
<1> DEFINE t == tx[w]
           db == Overlay(Committed, t.view, t.wrote)
<1>1. /\ Stands(t) /\ t.at \in 1..clock /\ t.step = "commit"
      /\ Len(refresh) \in Nat /\ Pair = 1..Len(refresh)
      /\ refresh \in Seq(RefreshRow) /\ access \in Seq(AccessRow)
      /\ Len(access) = Len(refresh) /\ DOMAIN access = Pair
  BY MgUnit DEF Unlocked
<1>2. CASE t.made # None
  <2>1. RotationHeld(t) \/ RetryHeld(t)
    BY <1>1, <1>2 DEF Stands
  <2>2. CASE RotationHeld(t)
    <3>1. LateRotate(t.token, t.at) /\ t.token \in Pair /\ Overtakes(t.wrote)
      BY <1>2, <2>2, MgRotates
    <3> QED BY <1>1, <3>1 DEF LateNext
  <2>3. CASE RetryHeld(t)
    <3>1. LateReplace(t.token, t.at) /\ t.token \in Pair /\ Overtakes(t.wrote)
      BY <1>2, <2>3, MgReplaces
    <3> QED BY <1>1, <3>1 DEF LateNext
  <2> QED BY <2>1, <2>2, <2>3
<1>3. CASE t.made = None /\ FamilyHeld(t)
  <2>1. Next /\ Overtakes(t.wrote)
    BY <1>3, MgEnds
  <2> QED BY <2>1 DEF LateNext
<1>4. CASE t.made = None /\ ~FamilyHeld(t)
  <2>1. \/ t.wrote = {}
        \/ /\ t.kind = "select" /\ t.wrote = {SessionDoc} /\ session = "live"
           /\ t.view.session = "ended"
    BY <1>1, <1>4 DEF Stands
  <2>2. t.wrote \subseteq {SessionDoc}
    BY <2>1
  <2>3. /\ db.refresh \in Seq(RefreshRow) /\ db.access \in Seq(AccessRow)
        /\ Len(db.refresh) = Len(refresh) /\ Len(db.access) = Len(refresh)
        /\ \A k \in Pair :
             /\ db.refresh[k] = IF RefreshDoc(k) \in t.wrote
                                THEN t.view.refresh[k] ELSE refresh[k]
             /\ db.access[k] = IF AccessDoc(k) \in t.wrote
                               THEN t.view.access[k] ELSE access[k]
        /\ db.session = IF SessionDoc \in t.wrote THEN t.view.session ELSE session
        /\ UNCHANGED <<clock, code, bound, absolute, authority>>
        /\ session' = db.session
        /\ refresh' = db.refresh /\ access' = db.access
    BY <1>4, MgTables
  <2> HIDE DEF db
  <2>4. \A k \in 1..Len(refresh) : db.refresh[k] = refresh[k]
                                   /\ db.access[k] = access[k]
    BY <1>1, <2>2, <2>3, DocsDiffer
  <2>5. db.refresh = refresh
    BY <1>1, <2>3, <2>4, SeqEqual
  <2>6. db.access = access
    BY <1>1, <2>3, <2>4, SeqEqual
  <2>7. UNCHANGED <<refresh, access>>
    BY <2>3, <2>5, <2>6
  <2>8. Overtakes(t.wrote)
    <3>1. SessionDoc \notin t.wrote => session' = session
      BY <2>3
    <3> QED BY <1>1, <2>3, <2>7, <3>1 DEF Overtakes
  <2>9. CASE t.wrote = {}
    <3>1. UNCHANGED vars
      BY <2>3, <2>7, <2>9 DEF vars
    <3> QED BY <2>8, <3>1
  <2>10. CASE t.wrote # {}
    <3>1. RevokeSelected
      BY <2>1, <2>3, <2>7, <2>10 DEF RevokeSelected
    <3> QED BY <2>8, <3>1 DEF LateNext, Next
  <2> QED BY <2>9, <2>10
<1> QED BY <1>2, <1>3, <1>4

(* Rotating and retrying late keeps the invariant of NativeFamily, too: it *)
(* never asks for the session.                                             *)
LEMMA LateNextIndInv ==
  ASSUME IndInv, [LateNext]_vars
  PROVE  IndInv'
<1>1. CASE [Next]_vars
  BY <1>1, NextIndInv
<1>2. ASSUME NEW i \in Pair, NEW at \in 1..clock,
             LateRotate(i, at) \/ LateReplace(i, at)
      PROVE  IndInv'
  BY <1>2, RotateKeeps, ReplaceKeeps DEF LateRotate, LateReplace
<1> QED BY <1>1, <1>2 DEF LateNext

(* The others learn which documents were committed.                        *)
LEMMA MgNotified ==
  ASSUME NEW docs \in SUBSET Docs, Backend = "mongo", MongoInv, StoreInv',
         IndInv', PairsRequested', Overtakes(docs),
         \A v \in Worker :
           \/ tx'[v] = Idle
           \/ tx'[v] = Notify(tx, docs)[v] /\ docs \cap tx[v].wrote = {}
  PROVE  MongoInv'
<1>1. authority'
  BY DEF MongoInv, Overtakes
<1>2. tx \in [Worker -> UnitOfWork]
  BY DEF MongoInv, StoreInv
<1>3. ASSUME NEW v \in Worker
      PROVE  tx'[v].wrote = {} \/ tx'[v].wrote = tx[v].wrote
  BY <1>2, NotifiesAll DEF Idle, SameWork
<1>4. WritesApart'
  BY <1>3 DEF MongoInv, WritesApart
<1>5. (\A t \in UnitsOfWork : HasSnapshot(t))'
  <2> SUFFICES ASSUME NEW t \in UnitsOfWork' PROVE HasSnapshot(t)'
    OBVIOUS
  <2>1. PICK v \in Worker : t = tx'[v]
    BY DEF UnitsOfWork
  <2>2. CASE Unlocked(t)
    BY <2>2 DEF HasSnapshot
  <2>3. CASE ~Unlocked(t)
    <3> DEFINE u == tx[v]
    <3>1. t # Idle
      BY <2>3 DEF Idle, Unlocked
    <3>2. t = Notify(tx, docs)[v] /\ docs \cap u.wrote = {}
      BY <2>1, <3>1
    <3>3. ~Unlocked(u) /\ t = [u EXCEPT !.stale = @ \cup docs]
      BY <2>3, <3>2 DEF Notify, Unlocked
    <3>4. SameWork(t, u)
      BY <1>2, <3>3, Notifies
    <3>5. t.stale = u.stale \cup docs
      BY <1>2, <3>3 DEF UnitOfWork
    <3> HIDE DEF u
    <3>6. u = tx[v]
      BY DEF u
    <3> QED BY <3>2, <3>3, <3>4, <3>5, <3>6, MgElsewhere
  <2> QED BY <2>2, <2>3
<1> QED BY <1>1, <1>4, <1>5 DEF MongoInv

LEMMA MgStored ==
  ASSUME NEW w \in Worker, Backend = "mongo", MongoInv, StoreInv',
         tx[w].step = "commit", Stored(w),
         tx' = [Notify(tx, tx[w].wrote) EXCEPT ![w] = Idle]
  PROVE  MongoInv' /\ [LateNext]_vars
<1> DEFINE docs == tx[w].wrote
<1>1. [LateNext]_vars /\ Overtakes(docs)
  BY MgCommits
<1>2. IndInv'
  BY <1>1, LateNextIndInv DEF MongoInv
<1>3. ~Unlocked(tx[w]) /\ tx[w].step # "idle"
  BY DEF Unlocked
<1>4. tx \in [Worker -> UnitOfWork] /\ docs \in SUBSET Docs
  BY UnitFields DEF MongoInv, StoreInv
<1>5. \A v \in Worker : tx'[v] = IF v = w THEN Idle ELSE Notify(tx, docs)[v]
  BY DEF Notify
<1>6. \A v \in Worker \ {w} : docs \cap tx[v].wrote = {}
  BY DEF MongoInv, WritesApart
<1>7. PairsRequested'
  <2>1. \A v \in Worker : v # w => tx'[v].step = tx[v].step
    BY <1>4, <1>5, NotifiesAll DEF SameWork
  <2>2. Open' = Open \ {w} /\ w \in Open
    BY <1>3, <1>5, <2>1, IdleUnit DEF Open
  <2>3. /\ IsFiniteSet(Open) /\ Len(refresh) + Cardinality(Open) <= requests + 1
        /\ requests <= MaxRequests /\ requests \in Nat /\ Len(refresh) \in Nat
        /\ requests' = requests
    BY DEF MongoInv, PairsRequested, StoreInv, TypeOK, Stored
  <2>4. /\ IsFiniteSet(Open') /\ Cardinality(Open') = Cardinality(Open) - 1
        /\ Cardinality(Open) \in Nat
    BY <2>2, <2>3, FS_RemoveElement, FS_CardinalityType
  <2>5. Len(refresh') \in Nat /\ Len(refresh') <= Len(refresh) + 1
    <3>1. refresh' = After(w).refresh /\ StoreInv
      BY DEF Stored, MongoInv
    <3>2. Len(After(w).refresh)
            = IF tx[w].made = None THEN Len(refresh) ELSE Len(refresh) + 1
      BY <1>3, <3>1, AfterFamily
    <3> QED BY <2>3, <3>1, <3>2
  <2> QED BY <2>3, <2>4, <2>5 DEF PairsRequested
<1> HIDE DEF docs
<1>8. \A v \in Worker :
        \/ tx'[v] = Idle
        \/ tx'[v] = Notify(tx, docs)[v] /\ docs \cap tx[v].wrote = {}
  BY <1>5, <1>6
<1>9. MongoInv'
  BY <1>1, <1>2, <1>4, <1>7, <1>8, MgNotified
<1> QED BY <1>1, <1>9

(* Marking a first use is what NativeFamily says, and a unit of work that  *)
(* has a snapshot finds the access token stale.                            *)
LEMMA MgFirstUse ==
  ASSUME NEW i \in Pair, Backend = "mongo", MongoInv, StoreInv', FirstUse(i)
  PROVE  MongoInv' /\ Next
<1> DEFINE docs == {AccessDoc(i)}
<1>1. /\ UseAccess(i) /\ bound /\ CanMarkFirstUse(access, i)
      /\ access' = MarkFirstUse(access, i)
      /\ \A v \in Worker : AccessDoc(i) \notin tx[v].wrote
      /\ tx' = Notify(tx, docs)
      /\ UNCHANGED <<clock, code, session, bound, absolute, authority, refresh,
                     requests>>
  BY DEF FirstUse, UseAccess
<1>2. Next
  BY <1>1 DEF Next
<1>3. IndInv'
  BY <1>2, NextIndInv DEF MongoInv
<1>4. /\ access \in Seq(AccessRow) /\ DOMAIN access = Pair
      /\ refresh \in Seq(RefreshRow) /\ Len(access) = Len(refresh)
      /\ Len(refresh) \in Nat
      /\ \A k \in Pair : access[k] \in AccessRow
  BY DEF MongoInv, IndInv, TypeOK, Pair
<1>5. /\ \A k \in Pair \ {i} : access'[k] = access[k]
      /\ access'[i] = [access[i] EXCEPT !.firstUsed = TRUE]
      /\ DOMAIN access' = Pair
  BY <1>1, <1>4 DEF MarkFirstUse
<1>6. \A k \in Pair : /\ access'[k].spent = access[k].spent
                      /\ access'[k].generation = access[k].generation
                      /\ access'[k].firstUsed = (access[k].firstUsed \/ k = i)
  <2> SUFFICES ASSUME NEW k \in Pair
               PROVE  /\ access'[k].spent = access[k].spent
                      /\ access'[k].generation = access[k].generation
                      /\ access'[k].firstUsed = (access[k].firstUsed \/ k = i)
    OBVIOUS
  <2> QED BY <1>4, <1>5 DEF AccessRow
<1>7. Overtakes(docs)
  <2>1. Live(refresh[i])
    BY <1>1 DEF CanMarkFirstUse, MongoInv, IndInv, OneLivePair
  <2>2. AccessDoc(i) \in docs
    OBVIOUS
  <2>3. access' \in Seq(AccessRow) /\ Len(access') = Len(refresh')
    <3>1. [access[i] EXCEPT !.firstUsed = TRUE] \in AccessRow
      BY <1>4 DEF AccessRow
    <3> DEFINE row == [access[i] EXCEPT !.firstUsed = TRUE]
    <3>2. access' = [access EXCEPT ![i] = row]
      BY <1>1 DEF MarkFirstUse
    <3>3. row \in AccessRow
      BY <3>1
    <3> HIDE DEF row
    <3> QED BY <1>1, <1>4, <3>2, <3>3
  <2>4. \A k \in Pair : AccessDoc(k) \notin docs => k # i
    BY DEF AccessDoc
  <2> QED BY <1>1, <1>4, <1>5, <1>6, <2>1, <2>2, <2>3, <2>4 DEF Overtakes
<1>8. docs \in SUBSET Docs
  BY <1>4 DEF Docs, AccessDoc, Pair
<1>9. tx \in [Worker -> UnitOfWork]
  BY DEF MongoInv, StoreInv
<1> HIDE DEF docs
<1>10. PairsRequested'
  <2>1. \A v \in Worker : tx'[v].step = tx[v].step
    BY <1>1, <1>8, <1>9, NotifiesAll DEF SameWork
  <2>2. Open' = Open
    BY <2>1 DEF Open
  <2> QED BY <1>1, <2>2 DEF MongoInv, PairsRequested
<1>11. \A v \in Worker : docs \cap tx[v].wrote = {}
  BY <1>1 DEF docs
<1>12. MongoInv'
  BY <1>1, <1>3, <1>7, <1>8, <1>10, <1>11, MgNotified
<1> QED BY <1>2, <1>12

LEMMA MgSign ==
  ASSUME NEW withProof \in BOOLEAN, MongoInv, StoreInv', Sign(withProof)
  PROVE  MongoInv' /\ Next
<1>1. /\ Exchange(withProof, clock) /\ code = "unspent"
      /\ refresh' = IssuedRefresh(refresh, 1, absolute', None)
      /\ UNCHANGED <<clock, authority, tx, requests>>
  BY DEF Sign, Exchange
<1>2. /\ TypeOK /\ session = "none" /\ refresh = <<>> /\ clock \in Nat /\ 1 <= clock
      /\ requests \in Nat
  BY <1>1 DEF MongoInv, StoreInv, SessionOwnsPairs, TypeOK, Time
<1>3. \A v \in Worker : tx[v].step = "idle"
  BY <1>2, UnitFacts DEF MongoInv, FoundItsRow
<1>4. Open = {} /\ Open' = {}
  BY <1>1, <1>3 DEF Open
<1>5. Next
  BY <1>1, <1>2 DEF Next
<1>6. IndInv'
  BY <1>5, NextIndInv DEF MongoInv
<1>7. authority' /\ WritesApart' /\ (\A t \in UnitsOfWork : HasSnapshot(t))'
  BY <1>1, <1>3 DEF MongoInv, WritesApart, UnitsOfWork, HasSnapshot, Unlocked
<1>8. PairsRequested'
  <2>1. Len(refresh') = 1
    BY <1>1, <1>2 DEF IssuedRefresh
  <2>2. IsFiniteSet(Open') /\ Cardinality(Open') = 0
    BY <1>4, FS_EmptySet
  <2>3. requests <= MaxRequests /\ requests' = requests
    BY <1>1 DEF MongoInv, PairsRequested
  <2> QED BY <1>2, <2>1, <2>2, <2>3 DEF PairsRequested
<1> QED BY <1>5, <1>6, <1>7, <1>8 DEF MongoInv

(* Steps that leave the units of work and the rows as they are.            *)
LEMMA MgStays ==
  ASSUME MongoInv, StoreInv', [Next]_vars,
         UNCHANGED <<session, bound, absolute, authority, refresh, access, tx,
                     requests>>
  PROVE  MongoInv'
<1>1. IndInv'
  BY NextIndInv DEF MongoInv
<1>2. authority' /\ WritesApart' /\ PairsRequested'
  BY DEF MongoInv, WritesApart, PairsRequested, Open
<1>3. (\A t \in UnitsOfWork : HasSnapshot(t))'
  <2> SUFFICES ASSUME NEW t \in UnitsOfWork' PROVE HasSnapshot(t)'
    OBVIOUS
  <2>1. HasSnapshot(t)
    BY DEF MongoInv, UnitsOfWork
  <2> QED BY <2>1, MgSame
<1> QED BY <1>1, <1>2, <1>3 DEF MongoInv

LEMMA MgInit ==
  ASSUME SInit
  PROVE  MongoInv
<1>1. StoreInv /\ IndInv /\ authority
  BY StoreInit, InitIndInv DEF SInit
<1>2. refresh = <<>> /\ tx = [w \in Worker |-> Idle] /\ requests = 0
  BY DEF SInit, Init
<1>3. \A w \in Worker : tx[w].step = "idle" /\ tx[w].wrote = {}
  BY <1>2 DEF Idle
<1>4. WritesApart /\ \A t \in UnitsOfWork : HasSnapshot(t)
  BY <1>3 DEF WritesApart, UnitsOfWork, HasSnapshot, Unlocked
<1>5. PairsRequested
  <2>1. Open = {} /\ Len(refresh) = 0
    BY <1>2, <1>3 DEF Open
  <2>2. IsFiniteSet(Open) /\ Cardinality(Open) = 0
    BY <2>1, FS_EmptySet
  <2> QED BY <1>2, <2>1, <2>2, StoresAssumption DEF PairsRequested
<1> QED BY <1>1, <1>4, <1>5 DEF MongoInv

LEMMA MgNext ==
  ASSUME Backend = "mongo", MongoInv, [SNext]_svars
  PROVE  MongoInv' /\ [LateNext]_vars
<1>0. StoreInv'
  BY StoreNext DEF MongoInv
<1>1. CASE UNCHANGED svars
  <2>1. UNCHANGED vars /\ UNCHANGED <<tx, requests>>
    BY <1>1 DEF svars
  <2>2. MongoInv'
    BY <1>0, <2>1, MgStays DEF vars
  <2> QED BY <2>1, <2>2
<1>2. CASE Rest
  BY <1>1, <1>2 DEF Rest
<1>3. CASE Advance
  <2>1. Next /\ UNCHANGED <<session, bound, absolute, authority, refresh, access,
                            tx, requests>>
    BY <1>3 DEF Advance, Tick, Next
  <2>2. MongoInv'
    BY <1>0, <2>1, MgStays
  <2> QED BY <2>1, <2>2 DEF LateNext
<1>4. ASSUME NEW withProof \in BOOLEAN, Sign(withProof)
      PROVE  MongoInv' /\ [LateNext]_vars
  BY <1>0, <1>4, MgSign DEF LateNext
<1>5. ASSUME NEW i \in Pair, FirstUse(i)
      PROVE  MongoInv' /\ [LateNext]_vars
  BY <1>0, <1>5, MgFirstUse DEF LateNext
<1>6. ASSUME NEW w \in Worker, tx[w].step = "commit", Stored(w),
             tx' = [Notify(tx, tx[w].wrote) EXCEPT ![w] = Idle]
      PROVE  MongoInv' /\ [LateNext]_vars
  BY <1>0, <1>6, MgStored
<1>7. ASSUME NEW w \in Worker, Statement(w)
      PROVE  MongoInv' /\ [LateNext]_vars
  <2>1. CASE Commit(w)
    BY <1>6, <2>1 DEF Commit
  <2>2. CASE ~Commit(w)
    <3>1. UNCHANGED vars
      BY <1>7, <2>2, PgUnseen
    <3>2. MongoInv'
      BY <1>0, <1>7, <2>2, MgFind, MgReserve, MgClaim, MgRetire, MgLookup,
         MgClaimTheRetry, MgRevokeSuccessor, MgIssue, MgEndSession, MgEndTokens
         DEF Statement
    <3> QED BY <3>1, <3>2
  <2> QED BY <2>1, <2>2
<1>8. ASSUME NEW w \in Worker, Failure(w)
      PROVE  MongoInv' /\ [LateNext]_vars
  <2>1. ASSUME NothingStored,
               \/ tx[w].step # "idle" /\ tx' = [tx EXCEPT ![w] = AfterAbort(@)]
               \/ tx' = [tx EXCEPT ![w] = Idle]
        PROVE  MongoInv' /\ [LateNext]_vars
    <3>1. MongoInv'
      BY <1>0, <2>1, MgRefuses
    <3> QED BY <2>1, <3>1 DEF NothingStored
  <2>2. CASE CommitAborted(w)
    BY <2>1, <2>2 DEF CommitAborted
  <2>3. CASE CommitUnknown(w)
    BY <1>6, <2>1, <2>3 DEF CommitUnknown, AfterUnknown
  <2>4. CASE Fail(w)
    BY <2>1, <2>4 DEF Fail, Leave
  <2> QED BY <1>8, <2>2, <2>3, <2>4 DEF Failure
<1>9. ASSUME NEW w \in Worker, NEW kind \in Kind, NEW i \in Nat, NEW n \in Nat,
             Start(w, kind, i, n)
      PROVE  MongoInv' /\ [LateNext]_vars
  <2>1. MongoInv'
    BY <1>0, <1>9, MgStart
  <2>2. UNCHANGED vars
    BY <1>9 DEF Start
  <2> QED BY <2>1, <2>2
<1>10. ASSUME NEW w \in Worker, NEW kind \in {"refresh", "revoke"},
              NEW i \in Pair, NEW n \in 1..MaxRequests, Start(w, kind, i, n)
       PROVE  MongoInv' /\ [LateNext]_vars
  <2>1. kind \in Kind /\ i \in Nat /\ n \in Nat
    BY DEF Kind, Pair, MongoInv, StoreInv, TypeOK
  <2> QED BY <1>9, <1>10, <2>1
<1>11. ASSUME NEW w \in Worker, NEW kind \in {"signOut", "select"},
              Start(w, kind, None, requests + 1)
       PROVE  MongoInv' /\ [LateNext]_vars
  <2>1. kind \in Kind /\ None \in Nat /\ requests + 1 \in Nat
    BY DEF Kind, None, MongoInv, StoreInv
  <2> QED BY <1>9, <1>11, <2>1
<1> QED BY <1>1, <1>2, <1>3, <1>4, <1>5, <1>7, <1>8, <1>10, <1>11 DEF SNext

-----------------------------------------------------------------------------
(* MongoDB, and both databases: the results. *)

LEMMA MgHolds ==
  ASSUME Backend = "mongo"
  PROVE  SSpec => []MongoInv
BY MgInit, MgNext, PTL DEF SSpec

(* On MongoDB any number of units of work that run at once, statement by   *)
(* statement, with write conflicts, reruns and commits that are lost,      *)
(* change the family's rows as NativeFamily's atomic units of work do, but *)
(* for one thing: a rotation or a retry may be stored after the session    *)
(* was ended, when it found the session live (NativeRefreshService.rotate, *)
(* SessionRevoker.revokeById).                                             *)
THEOREM LateUnitsOfWork ==
  ASSUME Backend = "mongo"
  PROVE  SSpec => Init /\ [][LateNext]_vars
<1>1. SInit => Init
  BY DEF SInit
<1>2. MongoInv /\ [SNext]_svars => [LateNext]_vars
  BY MgNext
<1> QED BY <1>1, <1>2, MgHolds, PTL DEF SSpec

(* The strengthening of NativeFamily holds on whichever database.          *)
LEMMA IndInvHolds == SSpec => []IndInv
<1>1. CASE Backend = "postgres"
  <2>1. PostgresInv => IndInv
    BY DEF PostgresInv
  <2> QED BY <1>1, <2>1, PgHolds, PTL
<1>2. CASE Backend = "mongo"
  <2>1. MongoInv => IndInv
    BY DEF MongoInv
  <2> QED BY <1>2, <2>1, MgHolds, PTL
<1> QED BY <1>1, <1>2, StoresAssumption

(* At most one pair of a family is live, whatever the two databases        *)
(* interleave.                                                             *)
THEOREM OneLivePairInStores == SSpec => []OneLivePair
<1>1. IndInv => OneLivePair
  BY DEF IndInv
<1> QED BY <1>1, IndInvHolds, PTL

(* No refresh token is answered with a third pair, and of two answers the  *)
(* first was withdrawn unused, whatever the two databases interleave.      *)
THEOREM NoThirdAnswerInStores == SSpec => []AnsweredAtMostTwice
<1>1. IndInv => AnsweredAtMostTwice
  BY DEF IndInv
<1> QED BY <1>1, IndInvHolds, PTL

(* A pair in use is withdrawn only with its session, whatever the two      *)
(* databases interleave.                                                   *)
THEOREM PairInUseKeptInStores == SSpec => []UsedPairKept
<1>1. IndInv => UsedPairKept
  BY DEF IndInv
<1> QED BY <1>1, IndInvHolds, PTL

(* What is late still asks for a token that is not withdrawn.              *)
LEMMA WithdrawnStaysLate ==
  ASSUME IndInv, [LateNext]_vars, refresh # <<>>,
         \A i \in Pair : refresh[i].revoked
  PROVE  \A i \in DOMAIN refresh' : refresh'[i].revoked
<1>1. CASE [Next]_vars
  BY <1>1, WithdrawnStays
<1>2. ASSUME NEW i \in Pair, NEW at \in 1..clock,
             LateRotate(i, at) \/ LateReplace(i, at)
      PROVE  FALSE
  BY <1>2 DEF LateRotate, LateReplace, MayRotate, MayReplace, Live
<1> QED BY <1>1, <1>2 DEF LateNext

(* Once sign-out, revocation or a replay has withdrawn a family's tokens,  *)
(* no unit of work that read the family before, on either database, brings *)
(* a usable one back.                                                      *)
THEOREM NothingComesBack == SSpec => WithdrawnForGood
<1> DEFINE Stays == refresh # <<>> /\ (\A i \in Pair : refresh[i].revoked)
                      => \A i \in DOMAIN refresh' : refresh'[i].revoked
<1>1. CASE Backend = "postgres"
  BY <1>1, WithdrawnForGoodOnPostgres
<1>2. CASE Backend = "mongo"
  <2>1. MongoInv /\ [SNext]_svars => [Stays]_svars
    <3> SUFFICES ASSUME MongoInv, [SNext]_svars PROVE Stays
      OBVIOUS
    <3>1. IndInv /\ [LateNext]_vars
      BY <1>2, MgNext DEF MongoInv
    <3> QED BY <3>1, WithdrawnStaysLate
  <2> QED BY <1>2, <2>1, MgHolds, PTL DEF SSpec, WithdrawnForGood
<1> QED BY <1>1, <1>2, StoresAssumption
=============================================================================
