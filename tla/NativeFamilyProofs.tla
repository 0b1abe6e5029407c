------------------------- MODULE NativeFamilyProofs -------------------------
(***************************************************************************)
(* Proofs about NativeFamily, for every lifetime, window and bound.        *)
(***************************************************************************)
EXTENDS NativeFamily, ProofIds, SequenceTheorems, TLAPS

-----------------------------------------------------------------------------
(* What the statements of FamilyTables do to a row and to a table. *)

(* Retired sets two flags and keeps the row's type and its other fields.   *)
LEMMA RetiredRefresh ==
  ASSUME NEW row \in RefreshRow
  PROVE  /\ Retired(row) \in RefreshRow
         /\ Retired(row).spent /\ Retired(row).revoked
         /\ Retired(row).generation = row.generation
         /\ Retired(row).expiresAt = row.expiresAt
         /\ Retired(row).consumedAt = row.consumedAt
         /\ Retired(row).next = row.next
         /\ Retired(row).retryClaimUntil = row.retryClaimUntil
         /\ Retired(row).from = row.from
  BY DEF Retired, RefreshRow

LEMMA RetiredAccess ==
  ASSUME NEW row \in AccessRow
  PROVE  /\ Retired(row) \in AccessRow
         /\ Retired(row).spent /\ Retired(row).revoked
         /\ Retired(row).generation = row.generation
         /\ Retired(row).firstUsed = row.firstUsed
  BY DEF Retired, AccessRow

(* RevokeAll changes a table row by row: it adds and drops none.           *)
LEMMA RevokeAllRefresh ==
  ASSUME NEW table \in Seq(RefreshRow)
  PROVE  /\ RevokeAll(table) \in Seq(RefreshRow)
         /\ Len(RevokeAll(table)) = Len(table)
         /\ \A k \in DOMAIN table : RevokeAll(table)[k] = Retired(table[k])
<1>1. DOMAIN table = 1..Len(table) /\ Len(table) \in Nat
  OBVIOUS
<1>2. \A k \in 1..Len(table) : Retired(table[k]) \in RefreshRow
  BY <1>1, RetiredRefresh
<1>3. [k \in 1..Len(table) |-> Retired(table[k])] \in Seq(RefreshRow)
  BY <1>1, <1>2, IsASeq
<1> QED BY <1>1, <1>2, <1>3, LenProperties DEF RevokeAll

LEMMA RevokeAllAccess ==
  ASSUME NEW table \in Seq(AccessRow)
  PROVE  /\ RevokeAll(table) \in Seq(AccessRow)
         /\ Len(RevokeAll(table)) = Len(table)
         /\ \A k \in DOMAIN table : RevokeAll(table)[k] = Retired(table[k])
<1>1. DOMAIN table = 1..Len(table) /\ Len(table) \in Nat
  OBVIOUS
<1>2. \A k \in 1..Len(table) : Retired(table[k]) \in AccessRow
  BY <1>1, RetiredAccess
<1>3. [k \in 1..Len(table) |-> Retired(table[k])] \in Seq(AccessRow)
  BY <1>1, <1>2, IsASeq
<1> QED BY <1>1, <1>2, <1>3, LenProperties DEF RevokeAll

LEMMA RetireAccessSeq ==
  ASSUME NEW table \in Seq(AccessRow)
  PROVE  /\ RetireAccessTokens(table) \in Seq(AccessRow)
         /\ Len(RetireAccessTokens(table)) = Len(table)
         /\ \A k \in DOMAIN table :
              RetireAccessTokens(table)[k] = IF table[k].spent THEN table[k]
                                             ELSE Retired(table[k])
<1> DEFINE row(k) == IF table[k].spent THEN table[k] ELSE Retired(table[k])
<1>1. DOMAIN table = 1..Len(table) /\ Len(table) \in Nat
  OBVIOUS
<1>2. \A k \in 1..Len(table) : row(k) \in AccessRow
  BY <1>1, RetiredAccess
<1>3. [k \in 1..Len(table) |-> row(k)] \in Seq(AccessRow)
  <2> HIDE DEF row
  <2> QED BY <1>1, <1>2, IsASeq
<1> QED BY <1>1, <1>2, <1>3, LenProperties DEF RetireAccessTokens

(* The rows a new pair starts with.                                        *)
LEMMA NewRows ==
  ASSUME NEW g \in Nat, NEW now \in Nat, NEW e \in Nat, NEW p \in Nat
  PROVE  /\ NewRefresh(g, e, p) \in RefreshRow
         /\ NewAccess(g, now, e) \in AccessRow
  BY LifetimeAssumption DEF NewRefresh, NewAccess, RefreshRow, AccessRow, Time, None

(* The row of a token that was claimed, linked to a successor or claimed   *)
(* for a retry: each statement writes its own field.                       *)
LEMMA ClaimedRow ==
  ASSUME NEW row \in RefreshRow, NEW at \in Nat
  PROVE  LET new == [row EXCEPT !.spent = TRUE, !.consumedAt = at]
         IN  /\ new \in RefreshRow
             /\ new.spent = TRUE /\ new.consumedAt = at
             /\ new.revoked = row.revoked
             /\ new.generation = row.generation
             /\ new.expiresAt = row.expiresAt /\ new.next = row.next
             /\ new.retryClaimUntil = row.retryClaimUntil
             /\ new.from = row.from
  BY DEF RefreshRow, Time

LEMMA LinkedRow ==
  ASSUME NEW row \in RefreshRow, NEW pair \in Nat
  PROVE  LET new == [row EXCEPT !.next = pair]
         IN  /\ new \in RefreshRow
             /\ new.next = pair
             /\ new.spent = row.spent /\ new.consumedAt = row.consumedAt
             /\ new.revoked = row.revoked
             /\ new.generation = row.generation
             /\ new.expiresAt = row.expiresAt
             /\ new.retryClaimUntil = row.retryClaimUntil
             /\ new.from = row.from
  BY DEF RefreshRow

LEMMA RetryClaimedRow ==
  ASSUME NEW row \in RefreshRow, NEW until \in Nat
  PROVE  LET new == [row EXCEPT !.retryClaimUntil = until]
         IN  /\ new \in RefreshRow
             /\ new.retryClaimUntil = until
             /\ new.spent = row.spent /\ new.consumedAt = row.consumedAt
             /\ new.revoked = row.revoked
             /\ new.generation = row.generation
             /\ new.expiresAt = row.expiresAt
             /\ new.next = row.next
             /\ new.from = row.from
  BY DEF RefreshRow, Time

-----------------------------------------------------------------------------
(* What one rotation does to the rows. *)

(* The fields two versions of a refresh row agree on whatever happens.     *)
SameOrigin(new, old) ==
  /\ new.generation = old.generation
  /\ new.expiresAt = old.expiresAt
  /\ new.from = old.from

(* A rotation adds one pair, spends i, and retires every access token.     *)
Rotated(i, at) ==
  LET n == Len(refresh) + 1
      g == refresh[i].generation + 1
  IN  /\ refresh' \in Seq(RefreshRow) /\ Len(refresh') = n
      /\ access' \in Seq(AccessRow) /\ Len(access') = n
      /\ refresh'[n] = NewRefresh(g, absolute, i)
      /\ access'[n] = NewAccess(g, at, absolute)
      /\ \A k \in Pair \ {i} : refresh'[k] = refresh[k]
      /\ refresh'[i].spent /\ refresh'[i].consumedAt = at
      /\ refresh'[i].next = IF bound THEN n ELSE refresh[i].next
      /\ refresh'[i].revoked = refresh[i].revoked
      /\ refresh'[i].retryClaimUntil = refresh[i].retryClaimUntil
      /\ SameOrigin(refresh'[i], refresh[i])
      /\ \A k \in Pair : access'[k] = IF access[k].spent THEN access[k]
                                      ELSE Retired(access[k])

LEMMA RotateRows ==
  ASSUME TypeOK, NEW i \in Pair, NEW at \in 1..clock, ClaimAndRotate(i, at)
  PROVE  Rotated(i, at)
<1> DEFINE n == Len(refresh) + 1
           g == refresh[i].generation + 1
           claimedRow == [refresh[i] EXCEPT !.spent = TRUE, !.consumedAt = at]
           linkedRow == [claimedRow EXCEPT !.next = n]
           claimed == ClaimRefresh(refresh, i, at)
           issued == IssuedRefresh(claimed, g, absolute, i)
           retired == RetireAccessTokens(access)
<1>1. /\ DOMAIN refresh = 1..Len(refresh) /\ Len(refresh) \in Nat
      /\ i \in 1..Len(refresh) /\ refresh[i] \in RefreshRow
      /\ absolute \in Nat /\ at \in Nat /\ bound \in BOOLEAN
  BY DEF TypeOK, Pair, Time
<1>2. g \in Nat /\ n \in Nat /\ n \notin Pair
  BY <1>1 DEF RefreshRow, Pair
<1>3. /\ NewRefresh(g, absolute, i) \in RefreshRow
      /\ NewAccess(g, at, absolute) \in AccessRow
  BY <1>1, <1>2, NewRows
<1>a. /\ claimedRow \in RefreshRow
      /\ claimedRow.spent /\ claimedRow.consumedAt = at
      /\ claimedRow.revoked = refresh[i].revoked
      /\ claimedRow.next = refresh[i].next
      /\ claimedRow.retryClaimUntil = refresh[i].retryClaimUntil
      /\ SameOrigin(claimedRow, refresh[i])
  BY <1>1, ClaimedRow DEF SameOrigin
<1>4. claimed = [refresh EXCEPT ![i] = claimedRow]
  BY DEF ClaimRefresh
<1> HIDE DEF claimedRow, claimed, issued, g, retired
<1>b. /\ linkedRow \in RefreshRow
      /\ linkedRow.spent /\ linkedRow.consumedAt = at
      /\ linkedRow.revoked = refresh[i].revoked
      /\ linkedRow.next = n
      /\ linkedRow.retryClaimUntil = refresh[i].retryClaimUntil
      /\ SameOrigin(linkedRow, refresh[i])
  <2>1. /\ linkedRow \in RefreshRow
        /\ linkedRow.next = n
        /\ linkedRow.spent = claimedRow.spent
        /\ linkedRow.consumedAt = claimedRow.consumedAt
        /\ linkedRow.revoked = claimedRow.revoked
        /\ linkedRow.retryClaimUntil = claimedRow.retryClaimUntil
        /\ linkedRow.generation = claimedRow.generation
        /\ linkedRow.expiresAt = claimedRow.expiresAt
        /\ linkedRow.from = claimedRow.from
    BY <1>2, <1>a, LinkedRow
  <2> HIDE DEF linkedRow
  <2> QED BY <1>a, <2>1 DEF SameOrigin
<1> HIDE DEF linkedRow
<1>5. /\ claimed \in Seq(RefreshRow) /\ Len(claimed) = Len(refresh)
      /\ claimed[i] = claimedRow
      /\ \A k \in Pair \ {i} : claimed[k] = refresh[k]
  BY <1>1, <1>a, <1>4 DEF TypeOK, Pair
<1>6. /\ issued \in Seq(RefreshRow) /\ Len(issued) = n
      /\ issued[n] = NewRefresh(g, absolute, i)
      /\ \A k \in Pair : issued[k] = claimed[k]
  BY <1>1, <1>2, <1>3, <1>5 DEF IssuedRefresh, Pair, issued
<1>7. /\ refresh' \in Seq(RefreshRow) /\ Len(refresh') = n
      /\ refresh'[n] = NewRefresh(g, absolute, i)
      /\ \A k \in Pair \ {i} : refresh'[k] = refresh[k]
      /\ refresh'[i] = IF bound THEN linkedRow ELSE claimedRow
  <2>1. CASE bound
    <3>1. refresh' = LinkPair(issued, i, n)
      BY <2>1 DEF ClaimAndRotate, issued, claimed, g
    <3>2. issued[i] = claimedRow
      BY <1>5, <1>6
    <3>3. refresh' = [issued EXCEPT ![i] = linkedRow]
      BY <3>1, <3>2 DEF LinkPair, linkedRow
    <3> QED BY <1>1, <1>2, <1>b, <1>5, <1>6, <2>1, <3>3 DEF Pair
  <2>2. CASE ~bound
    <3>1. refresh' = issued
      BY <2>2 DEF ClaimAndRotate, issued, claimed, g
    <3> QED BY <1>1, <1>5, <1>6, <2>2, <3>1
  <2> QED BY <2>1, <2>2
<1>8. /\ access' \in Seq(AccessRow) /\ Len(access') = n
      /\ access'[n] = NewAccess(g, at, absolute)
      /\ \A k \in Pair : access'[k] = IF access[k].spent THEN access[k]
                                      ELSE Retired(access[k])
  <2>1. access' = Append(retired, NewAccess(g, at, absolute))
    BY DEF ClaimAndRotate, IssuedAccess, retired, g
  <2>2. /\ retired \in Seq(AccessRow) /\ Len(retired) = Len(access)
        /\ \A k \in DOMAIN access :
             retired[k] = IF access[k].spent THEN access[k]
                          ELSE Retired(access[k])
    BY RetireAccessSeq DEF TypeOK, retired
  <2>3. Len(access) = Len(refresh) /\ DOMAIN access = 1..Len(refresh)
    BY DEF TypeOK
  <2> QED BY <1>1, <1>3, <2>1, <2>2, <2>3 DEF Pair
<1> QED BY <1>7, <1>8, <1>a, <1>b DEF Rotated, g

(* What the guards of a rotation and of a retry come to for the rows.      *)
MayRotate(i) == Live(refresh[i])
MayReplace(i, at) == /\ bound /\ ~refresh[i].revoked /\ refresh[i].spent
                     /\ Retryable(i, at) /\ CanClaimRetry(refresh, i, at)

LEMMA Guards ==
  ASSUME NEW i \in Pair, NEW proof \in Proof, NEW at \in 1..clock
  PROVE  /\ Rotate(i, proof, at) => MayRotate(i) /\ ClaimAndRotate(i, at)
         /\ Replace(i, proof, at) => MayReplace(i, at) /\ ClaimAndReplace(i, at)
BY DEF Rotate, Replace, Presented, MayRotate, MayReplace, Live

(* A retry withdraws the unused pair and adds one in its place.            *)
Replaced(i, at) ==
  LET old == refresh[i].next
      n == Len(refresh) + 1
      g == refresh[old].generation
  IN  /\ old \in Pair \ {i}
      /\ refresh' \in Seq(RefreshRow) /\ Len(refresh') = n
      /\ access' \in Seq(AccessRow) /\ Len(access') = n
      /\ refresh'[n] = NewRefresh(g, absolute, i)
      /\ access'[n] = NewAccess(g, at, absolute)
      /\ \A k \in Pair \ {i, old} : refresh'[k] = refresh[k]
      /\ refresh'[old] = Retired(refresh[old])
      /\ refresh'[i].retryClaimUntil = at + RetryWindow
      /\ refresh'[i].next = n
      /\ refresh'[i].spent /\ refresh'[i].consumedAt = refresh[i].consumedAt
      /\ refresh'[i].revoked = refresh[i].revoked
      /\ SameOrigin(refresh'[i], refresh[i])
      /\ \A k \in Pair \ {old} : access'[k] = access[k]
      /\ access'[old] = Retired(access[old])

LEMMA ReplaceRows ==
  ASSUME TypeOK, RowsLinked, NEW i \in Pair, NEW at \in 1..clock,
         MayReplace(i, at), ClaimAndReplace(i, at)
  PROVE  Replaced(i, at)
<1> DEFINE old == refresh[i].next
           n == Len(refresh) + 1
           g == refresh[old].generation
           claimedRow == [refresh[i] EXCEPT !.retryClaimUntil = at + RetryWindow]
           linkedRow == [claimedRow EXCEPT !.next = n]
           claimed == ClaimRetry(refresh, i, at)
           withdrawn == RevokePair(claimed, old)
           issued == IssuedRefresh(withdrawn, g, absolute, i)
<1>1. /\ DOMAIN refresh = 1..Len(refresh) /\ Len(refresh) \in Nat
      /\ i \in 1..Len(refresh) /\ refresh[i] \in RefreshRow
      /\ absolute \in Nat /\ at \in Nat /\ at + RetryWindow \in Nat
  BY LifetimeAssumption DEF TypeOK, Pair, Time
<1>2. refresh[i].spent /\ old # None /\ ~refresh[old].spent
  BY DEF MayReplace, Retryable, HasUnusedSuccessor, CanRevokeSuccessor, Live
<1>3. old \in Pair \ {i} /\ n \in Nat /\ n \notin Pair
  BY <1>1, <1>2 DEF RowsLinked, Pair, None
<1>4. refresh[old] \in RefreshRow /\ g \in Nat
  <2>1. refresh[old] \in RefreshRow
    BY <1>1, <1>3 DEF TypeOK, Pair
  <2> HIDE DEF old
  <2> QED BY <2>1 DEF RefreshRow
<1>5. /\ NewRefresh(g, absolute, i) \in RefreshRow
      /\ NewAccess(g, at, absolute) \in AccessRow
  <2>1. i \in Nat
    BY <1>1
  <2>2. g \in Nat /\ at \in Nat /\ absolute \in Nat
    BY <1>1, <1>4
  <2> QED BY <2>1, <2>2, NewRows
<1>6. /\ claimedRow \in RefreshRow
      /\ claimedRow.spent = refresh[i].spent
      /\ claimedRow.consumedAt = refresh[i].consumedAt
      /\ claimedRow.revoked = refresh[i].revoked
      /\ claimedRow.retryClaimUntil = at + RetryWindow
      /\ SameOrigin(claimedRow, refresh[i])
  BY <1>1, RetryClaimedRow DEF SameOrigin
<1>7. claimed = [refresh EXCEPT ![i] = claimedRow]
  BY DEF ClaimRetry
<1> HIDE DEF claimedRow, claimed, withdrawn, issued, g, old
<1>8. /\ linkedRow \in RefreshRow
      /\ linkedRow.spent /\ linkedRow.consumedAt = refresh[i].consumedAt
      /\ linkedRow.revoked = refresh[i].revoked
      /\ linkedRow.next = n
      /\ linkedRow.retryClaimUntil = at + RetryWindow
      /\ SameOrigin(linkedRow, refresh[i])
  BY <1>2, <1>3, <1>6, LinkedRow DEF SameOrigin
<1> HIDE DEF linkedRow
<1>9. /\ claimed \in Seq(RefreshRow) /\ Len(claimed) = Len(refresh)
      /\ claimed[i] = claimedRow
      /\ \A k \in Pair \ {i} : claimed[k] = refresh[k]
  BY <1>1, <1>6, <1>7 DEF TypeOK, Pair
<1>10. Retired(refresh[old]) \in RefreshRow
  BY <1>4, RetiredRefresh
<1>11. /\ withdrawn \in Seq(RefreshRow) /\ Len(withdrawn) = Len(refresh)
       /\ withdrawn[i] = claimedRow
       /\ withdrawn[old] = Retired(refresh[old])
       /\ \A k \in Pair \ {i, old} : withdrawn[k] = refresh[k]
  <2>1. withdrawn = [claimed EXCEPT ![old] = Retired(refresh[old])]
    BY <1>3, <1>9 DEF RevokePair, withdrawn
  <2> QED BY <1>1, <1>3, <1>9, <1>10, <2>1 DEF Pair
<1>12. /\ issued \in Seq(RefreshRow) /\ Len(issued) = n
       /\ issued[n] = NewRefresh(g, absolute, i)
       /\ \A k \in Pair : issued[k] = withdrawn[k]
  BY <1>1, <1>3, <1>5, <1>11 DEF IssuedRefresh, Pair, issued
<1>13. refresh' = [issued EXCEPT ![i] = linkedRow]
  <2>1. refresh' = LinkPair(issued, i, n)
    BY DEF ClaimAndReplace, issued, withdrawn, claimed, g, old
  <2>2. issued[i] = claimedRow
    BY <1>11, <1>12
  <2> QED BY <2>1, <2>2 DEF LinkPair, linkedRow
<1>14. /\ refresh' \in Seq(RefreshRow) /\ Len(refresh') = n
       /\ refresh'[n] = NewRefresh(g, absolute, i)
       /\ \A k \in Pair \ {i, old} : refresh'[k] = refresh[k]
       /\ refresh'[old] = Retired(refresh[old])
       /\ refresh'[i] = linkedRow
  BY <1>1, <1>3, <1>8, <1>11, <1>12, <1>13 DEF Pair
<1>15. /\ access' \in Seq(AccessRow) /\ Len(access') = n
       /\ access'[n] = NewAccess(g, at, absolute)
       /\ \A k \in Pair \ {old} : access'[k] = access[k]
       /\ access'[old] = Retired(access[old])
  <2> DEFINE kept == RevokePair(access, old)
  <2>1. access' = Append(kept, NewAccess(g, at, absolute))
    BY DEF ClaimAndReplace, IssuedAccess, g, old
  <2>2. Len(access) = Len(refresh) /\ DOMAIN access = 1..Len(refresh)
    BY DEF TypeOK
  <2>3. access[old] \in AccessRow /\ Retired(access[old]) \in AccessRow
    BY <1>1, <1>3, <2>2, RetiredAccess DEF TypeOK, Pair
  <2>4. /\ kept \in Seq(AccessRow) /\ Len(kept) = Len(refresh)
        /\ kept[old] = Retired(access[old])
        /\ \A k \in Pair \ {old} : kept[k] = access[k]
    BY <1>1, <1>3, <2>2, <2>3 DEF TypeOK, Pair, RevokePair
  <2> HIDE DEF kept
  <2> QED BY <1>1, <1>3, <1>5, <2>1, <2>4 DEF Pair
<1> QED BY <1>3, <1>8, <1>14, <1>15 DEF Replaced, g, old

(* The fields of new rows, for the provers. *)
LEMMA NewRowFields ==
  ASSUME NEW g, NEW now, NEW e, NEW p
  PROVE  /\ NewRefresh(g, e, p).generation = g
         /\ NewRefresh(g, e, p).expiresAt = e
         /\ ~NewRefresh(g, e, p).spent /\ ~NewRefresh(g, e, p).revoked
         /\ NewRefresh(g, e, p).consumedAt = None
         /\ NewRefresh(g, e, p).next = None
         /\ NewRefresh(g, e, p).retryClaimUntil = None
         /\ NewRefresh(g, e, p).from = p
         /\ ~NewAccess(g, now, e).spent /\ ~NewAccess(g, now, e).revoked
         /\ ~NewAccess(g, now, e).firstUsed
         /\ NewAccess(g, now, e).generation = g
  BY DEF NewRefresh, NewAccess

(* The types of a row and of the fields the invariant compares.            *)
LEMMA RowTypes ==
  ASSUME TypeOK
  PROVE  /\ Pair = 1..Len(refresh) /\ Len(refresh) \in Nat
         /\ DOMAIN access = Pair
         /\ \A k \in Pair :
              /\ refresh[k] \in RefreshRow /\ access[k] \in AccessRow
              /\ refresh[k].generation \in Nat /\ refresh[k].from \in Nat
              /\ refresh[k].next \in Nat /\ refresh[k].consumedAt \in Nat
              /\ refresh[k].retryClaimUntil \in Nat
<1>1. /\ Pair = 1..Len(refresh) /\ Len(refresh) \in Nat
      /\ DOMAIN access = Pair
      /\ \A k \in Pair : refresh[k] \in RefreshRow /\ access[k] \in AccessRow
  BY DEF TypeOK, Pair
<1>2. ASSUME NEW row \in RefreshRow
      PROVE  /\ row.generation \in Nat /\ row.from \in Nat
             /\ row.next \in Nat /\ row.consumedAt \in Nat
             /\ row.retryClaimUntil \in Nat
  BY DEF RefreshRow, Time
<1> QED BY <1>1, <1>2

-----------------------------------------------------------------------------
(* The invariant is kept by a rotation. *)

LEMMA RotateKeeps ==
  ASSUME IndInv, NEW i \in Pair, NEW at \in 1..clock,
         MayRotate(i), ClaimAndRotate(i, at)
  PROVE  IndInv'
<1> DEFINE n == Len(refresh) + 1
           g == refresh[i].generation + 1
<1>1. /\ Pair = 1..Len(refresh) /\ Len(refresh) \in Nat
      /\ \A k \in Pair :
           /\ refresh[k] \in RefreshRow /\ access[k] \in AccessRow
           /\ refresh[k].generation \in Nat /\ refresh[k].from \in Nat
           /\ refresh[k].next \in Nat /\ refresh[k].consumedAt \in Nat
           /\ refresh[k].retryClaimUntil \in Nat
  BY RowTypes DEF IndInv
<1>2. Rotated(i, at)
  BY RotateRows DEF IndInv
<1>3. /\ Live(refresh[i]) /\ session # "none" /\ session' = session
      /\ UNCHANGED <<clock, code, bound, absolute, authority>>
  BY DEF MayRotate, ClaimAndRotate, IndInv, SessionOwnsPairs, Pair
<1>4. /\ Len(refresh') = n /\ n \in Nat
      /\ \A k \in Pair \ {i} : refresh'[k] = refresh[k]
      /\ refresh'[i].spent /\ ~refresh'[i].revoked
      /\ refresh'[i].consumedAt = at
      /\ refresh'[i].next = IF bound THEN n ELSE refresh[i].next
      /\ refresh'[i].retryClaimUntil = refresh[i].retryClaimUntil
      /\ refresh'[i].generation = refresh[i].generation
      /\ refresh'[i].from = refresh[i].from
  BY <1>1, <1>2, <1>3 DEF Rotated, SameOrigin, Live
<1>5. /\ refresh'[n].generation = g /\ refresh'[n].from = i
      /\ ~refresh'[n].spent /\ ~refresh'[n].revoked
      /\ refresh'[n].next = None /\ refresh'[n].retryClaimUntil = None
      /\ ~access'[n].spent /\ ~access'[n].revoked /\ ~access'[n].firstUsed
  BY <1>2, NewRowFields DEF Rotated
<1>6. \A k \in Pair : /\ access'[k].spent
                      /\ access'[k].firstUsed = access[k].firstUsed
  BY <1>1, <1>2, RetiredAccess DEF Rotated
<1>7. Pair' = 1..n /\ Pair' = Pair \cup {n} /\ n \notin Pair
  BY <1>1, <1>2, <1>4 DEF Rotated, Pair
<1>8. TypeOK'
  BY <1>2, <1>3 DEF IndInv, TypeOK, Rotated
<1>9. \A k \in Pair : Live(refresh[k]) => k = i
  BY <1>3 DEF IndInv, OneLivePair
<1>10. OneLivePair'
  BY <1>4, <1>5, <1>6, <1>7, <1>9 DEF OneLivePair, Live
<1>11. \A k \in Pair : refresh[k].from # i
  BY <1>1, <1>3 DEF IndInv, RowsLinked, Live, None
<1>12. \A k \in Pair : refresh'[k].from = refresh[k].from
                       /\ refresh'[k].revoked = refresh[k].revoked
  BY <1>2, <1>4 DEF Rotated
<1>13. AnsweredAtMostTwice'
  <2> SUFFICES ASSUME NEW j \in Pair', NEW k \in Pair', j < k,
                      refresh'[j].from = refresh'[k].from
               PROVE  /\ bound'
                      /\ refresh'[j].revoked /\ ~access'[j].firstUsed
                      /\ \A m \in Pair' : refresh'[m].from = refresh'[j].from
                                             => m \in {j, k}
    BY DEF AnsweredAtMostTwice
  <2>1. j \in Pair
    BY <1>7, <1>1
  <2>2. k \in Pair
    BY <1>5, <1>7, <1>11, <1>12, <2>1
  <2>3. /\ bound /\ refresh[j].revoked /\ ~access[j].firstUsed
        /\ \A m \in Pair : refresh[m].from = refresh[j].from => m \in {j, k}
    BY <1>12, <2>1, <2>2 DEF IndInv, AnsweredAtMostTwice
  <2> QED BY <1>3, <1>5, <1>6, <1>7, <1>11, <1>12, <2>1, <2>2, <2>3
<1>14. UsedPairKept'
  BY <1>3, <1>5, <1>6, <1>7, <1>12 DEF IndInv, UsedPairKept
<1>15. \A k \in Pair : ~refresh[k].revoked /\ k # i =>
                         refresh[i].generation > refresh[k].generation
  BY <1>3 DEF IndInv, OneChain, Live
<1>16. \A k \in Pair : refresh'[k].generation = refresh[k].generation
  BY <1>4
<1>17. OneChain'
  <2> SUFFICES ASSUME NEW j \in Pair', NEW k \in Pair', j # k,
                      ~refresh'[j].revoked, ~refresh'[k].revoked
               PROVE  /\ refresh'[j].generation # refresh'[k].generation
                      /\ Live(refresh'[j]) =>
                           refresh'[j].generation > refresh'[k].generation
    BY DEF OneChain
  <2>1. CASE j = n
    <3>1. k \in Pair /\ ~refresh[k].revoked
      BY <1>7, <1>12, <2>1
    <3>2. refresh[i].generation >= refresh[k].generation
      BY <1>1, <1>15, <3>1
    <3> QED BY <1>1, <1>5, <1>16, <2>1, <3>1, <3>2
  <2>2. CASE k = n /\ j # n
    <3>1. j \in Pair /\ ~Live(refresh'[j])
      BY <1>4, <1>7, <1>9, <2>2 DEF Live
    <3> QED BY <1>1, <1>5, <1>12, <1>15, <1>16, <2>2, <3>1
  <2>3. CASE j \in Pair /\ k \in Pair
    <3>1. ~Live(refresh'[j])
      BY <1>4, <1>9, <2>3 DEF Live
    <3> QED BY <1>12, <1>16, <2>3, <3>1 DEF IndInv, OneChain
  <2> QED BY <1>7, <2>1, <2>2, <2>3
<1>18. RowsLinked'
  <2> SUFFICES ASSUME NEW k \in Pair'
               PROVE  /\ refresh'[k].from \in 0..(k - 1)
                      /\ refresh'[k].from = None => k = 1
                      /\ refresh'[k].from # None =>
                           refresh'[refresh'[k].from].spent
                      /\ refresh'[k].next \in 0..Len(refresh')
                      /\ refresh'[k].next # None =>
                           refresh'[refresh'[k].next].from = k
                      /\ access'[k].firstUsed => bound'
    BY DEF RowsLinked
  <2>1. CASE k = n
    BY <1>1, <1>4, <1>5, <2>1 DEF None
  <2>2. CASE k \in Pair
    <3>1. /\ refresh[k].from \in 0..(k - 1)
          /\ refresh[k].from = None => k = 1
          /\ refresh[k].from # None => refresh[refresh[k].from].spent
          /\ refresh[k].next \in 0..Len(refresh)
          /\ refresh[k].next # None => refresh[refresh[k].next].from = k
          /\ access[k].firstUsed => bound
      BY <2>2 DEF IndInv, RowsLinked
    <3>2. refresh[k].from # None => refresh[k].from \in Pair
      BY <1>1, <2>2, <3>1 DEF None
    <3>3. refresh'[k].from # None => refresh'[refresh'[k].from].spent
      BY <1>4, <1>12, <2>2, <3>1, <3>2
    <3>4. refresh[k].next # None => refresh[k].next \in Pair
      BY <1>1, <3>1 DEF None
    <3>5. /\ refresh'[k].next \in 0..Len(refresh')
          /\ refresh'[k].next # None => refresh'[refresh'[k].next].from = k
      <4>1. CASE refresh'[k].next = refresh[k].next
        BY <1>1, <1>4, <1>12, <2>2, <3>1, <3>4, <4>1
      <4>2. CASE k = i /\ refresh'[k].next = n
        BY <1>1, <1>4, <1>5, <4>2
      <4> QED BY <1>4, <2>2, <4>1, <4>2
    <3> QED BY <1>3, <1>6, <1>12, <2>2, <3>1, <3>3, <3>5
  <2> QED BY <1>7, <2>1, <2>2
<1>19. ClaimOutlastsWindow'
  <2>1. refresh[i].retryClaimUntil = None
    BY <1>3 DEF IndInv, ClaimOutlastsWindow, Live
  <2>2. \A k \in Pair' : refresh'[k].retryClaimUntil # None =>
          /\ refresh'[k].spent
          /\ refresh'[k].retryClaimUntil >= refresh'[k].consumedAt + RetryWindow
    BY <1>4, <1>5, <1>7, <2>1 DEF IndInv, ClaimOutlastsWindow
  <2>3. ASSUME NEW j \in Pair', NEW k \in Pair', j < k,
               refresh'[j].from = refresh'[k].from
        PROVE  refresh'[refresh'[j].from].retryClaimUntil # None
    <3>1. j \in Pair
      BY <1>1, <1>7, <2>3
    <3>2. k \in Pair
      BY <1>5, <1>7, <1>11, <1>12, <2>3, <3>1
    <3>3. refresh[refresh[j].from].retryClaimUntil # None
      BY <1>12, <2>3, <3>1, <3>2 DEF IndInv, ClaimOutlastsWindow
    <3>4. refresh[j].from \in Pair
      BY <1>1, <1>12, <2>3, <3>1, <3>2 DEF IndInv, RowsLinked, None
    <3> QED BY <1>4, <1>12, <3>1, <3>3, <3>4
  <2> QED BY <2>2, <2>3 DEF ClaimOutlastsWindow
<1>20. SessionOwnsPairs'
  BY <1>1, <1>3, <1>4, <1>8 DEF IndInv, SessionOwnsPairs, TypeOK
<1> QED BY <1>8, <1>10, <1>13, <1>14, <1>17, <1>18, <1>19, <1>20 DEF IndInv

-----------------------------------------------------------------------------
(* The invariant is kept by a bound retry. *)

LEMMA ReplaceKeeps ==
  ASSUME IndInv, NEW i \in Pair, NEW at \in 1..clock,
         MayReplace(i, at), ClaimAndReplace(i, at)
  PROVE  IndInv'
<1> DEFINE n == Len(refresh) + 1
           old == refresh[i].next
           g == refresh[old].generation
<1>1. /\ Pair = 1..Len(refresh) /\ Len(refresh) \in Nat
      /\ \A k \in Pair :
           /\ refresh[k] \in RefreshRow /\ access[k] \in AccessRow
           /\ refresh[k].generation \in Nat /\ refresh[k].from \in Nat
           /\ refresh[k].next \in Nat /\ refresh[k].consumedAt \in Nat
           /\ refresh[k].retryClaimUntil \in Nat
      /\ at \in Nat /\ at > 0 /\ RetryWindow \in Nat /\ RetryWindow > 0
  BY RowTypes, LifetimeAssumption DEF IndInv, TypeOK, Time
<1>2. Replaced(i, at)
  BY ReplaceRows DEF IndInv
<1>3. /\ session # "none" /\ session' = session /\ bound
      /\ UNCHANGED <<clock, code, bound, absolute, authority>>
      /\ refresh[i].spent /\ ~refresh[i].revoked
      /\ refresh[i].consumedAt <= at
      /\ at - refresh[i].consumedAt < RetryWindow
      /\ refresh[i].retryClaimUntil <= at
  BY DEF MayReplace, ClaimAndReplace, Retryable, InsideRetryWindow,
         CanClaimRetry, IndInv, SessionOwnsPairs, Pair
<1>4. Live(refresh[old]) /\ ~access[old].firstUsed /\ old # None
  BY DEF MayReplace, Retryable, HasUnusedSuccessor, CanRevokeSuccessor
<1>5. old \in Pair /\ old # i
  BY <1>2 DEF Replaced
<1> HIDE DEF old
<1>6. refresh[old].from = i
  BY <1>4 DEF IndInv, RowsLinked, old
<1>7. /\ Len(refresh') = n /\ n \in Nat
      /\ \A k \in Pair \ {i, old} : refresh'[k] = refresh[k]
      /\ refresh'[i].spent /\ refresh'[i].revoked = refresh[i].revoked
      /\ refresh'[i].consumedAt = refresh[i].consumedAt
      /\ refresh'[i].next = n
      /\ refresh'[i].retryClaimUntil = at + RetryWindow
      /\ refresh'[i].generation = refresh[i].generation
      /\ refresh'[i].from = refresh[i].from
  BY <1>1, <1>2 DEF Replaced, SameOrigin, old
<1>8. /\ refresh'[old].spent /\ refresh'[old].revoked
      /\ refresh'[old].generation = refresh[old].generation
      /\ refresh'[old].consumedAt = refresh[old].consumedAt
      /\ refresh'[old].next = refresh[old].next
      /\ refresh'[old].retryClaimUntil = refresh[old].retryClaimUntil
      /\ refresh'[old].from = i
      /\ access'[old].spent
      /\ access'[old].firstUsed = access[old].firstUsed
  BY SMTT(60), <1>1, <1>2, <1>5, <1>6, RetiredRefresh, RetiredAccess DEF Replaced, old
<1>9. /\ refresh'[n].generation = g /\ refresh'[n].from = i
      /\ ~refresh'[n].spent /\ ~refresh'[n].revoked
      /\ refresh'[n].next = None /\ refresh'[n].retryClaimUntil = None
      /\ ~access'[n].spent /\ ~access'[n].revoked /\ ~access'[n].firstUsed
  BY <1>2, NewRowFields DEF Replaced, old
<1>10. \A k \in Pair \ {old} : access'[k] = access[k]
  BY <1>2 DEF Replaced, old
<1>11. Pair' = 1..n /\ Pair' = Pair \cup {n} /\ n \notin Pair
  BY <1>1, <1>2, <1>7 DEF Replaced, Pair
<1>12. TypeOK'
  BY <1>2, <1>3 DEF IndInv, TypeOK, Replaced
<1>13. \A k \in Pair : Live(refresh[k]) => k = old
  BY <1>4, <1>5 DEF IndInv, OneLivePair
<1>14. OneLivePair'
  <2>1. \A k \in Pair : ~Live(refresh'[k]) /\ ~Live(access'[k])
    <3> SUFFICES ASSUME NEW k \in Pair
                 PROVE  ~Live(refresh'[k]) /\ ~Live(access'[k])
      OBVIOUS
    <3>1. CASE k = old
      BY <1>8, <3>1 DEF Live
    <3>2. CASE k # old
      <4>1. ~Live(refresh[k]) /\ ~Live(access[k])
        BY <1>13, <3>2 DEF IndInv, OneLivePair
      <4>2. ~Live(refresh'[k])
        BY <1>7, <3>2, <4>1 DEF Live
      <4> QED BY <1>10, <3>2, <4>1, <4>2
    <3> QED BY <3>1, <3>2
  <2>2. Live(refresh'[n])
    BY <1>9 DEF Live
  <2> QED BY <1>11, <2>1, <2>2 DEF OneLivePair
<1>15. /\ \A k \in Pair : /\ refresh'[k].from = refresh[k].from
                          /\ refresh'[k].generation = refresh[k].generation
                          /\ access'[k].firstUsed = access[k].firstUsed
                          /\ refresh[k].spent => refresh'[k].spent
       /\ \A k \in Pair \ {old} : refresh'[k].revoked = refresh[k].revoked
  BY <1>6, <1>7, <1>8, <1>10
(* The token was answered only once so far: its claim would still stand. *)
<1>16. refresh[i].retryClaimUntil = None
  BY <1>1, <1>3 DEF IndInv, ClaimOutlastsWindow
<1>17. \A k \in Pair : refresh[k].from = i => k = old
  <2> SUFFICES ASSUME NEW k \in Pair, refresh[k].from = i, k # old
               PROVE  FALSE
    OBVIOUS
  <2>1. k < old \/ old < k
    BY <1>1, <1>5
  <2> QED BY <1>5, <1>6, <1>16, <2>1 DEF IndInv, ClaimOutlastsWindow
<1>18. AnsweredAtMostTwice'
  <2> SUFFICES ASSUME NEW j \in Pair', NEW k \in Pair', j < k,
                      refresh'[j].from = refresh'[k].from
               PROVE  /\ bound'
                      /\ refresh'[j].revoked /\ ~access'[j].firstUsed
                      /\ \A m \in Pair' : refresh'[m].from = refresh'[j].from
                                             => m \in {j, k}
    BY DEF AnsweredAtMostTwice
  <2>1. j \in Pair
    BY <1>1, <1>11
  <2>2. CASE k = n
    <3>1. j = old
      BY <1>9, <1>15, <1>17, <2>1, <2>2
    <3> QED BY <1>3, <1>4, <1>8, <1>11, <1>15, <1>17, <2>2, <3>1
  <2>3. CASE k \in Pair
    <3>1. refresh[j].from = refresh[k].from
      BY <1>15, <2>1, <2>3
    <3>2. refresh[j].from # i
      <4> SUFFICES ASSUME refresh[j].from = i PROVE FALSE
        OBVIOUS
      <4>1. j = old /\ k = old
        BY <1>17, <2>1, <2>3, <3>1
      <4> QED BY <1>1, <2>1, <4>1
    <3>3. /\ bound /\ refresh[j].revoked /\ ~access[j].firstUsed
          /\ \A m \in Pair : refresh[m].from = refresh[j].from => m \in {j, k}
      BY <2>1, <2>3, <3>1 DEF IndInv, AnsweredAtMostTwice
    <3>4. j # old
      BY <1>6, <3>2
    <3> QED BY <1>3, <1>9, <1>11, <1>15, <2>1, <2>3, <3>2, <3>3, <3>4
  <2> QED BY <1>11, <2>2, <2>3
<1>19. UsedPairKept'
  BY <1>3, <1>4, <1>9, <1>11, <1>15 DEF IndInv, UsedPairKept
<1>20. OneChain'
  <2>1. \A k \in Pair : ~refresh[k].revoked /\ k # old =>
                         refresh[old].generation > refresh[k].generation
    BY <1>4, <1>5 DEF IndInv, OneChain, Live
  <2> SUFFICES ASSUME NEW j \in Pair', NEW k \in Pair', j # k,
                      ~refresh'[j].revoked, ~refresh'[k].revoked
               PROVE  /\ refresh'[j].generation # refresh'[k].generation
                      /\ Live(refresh'[j]) =>
                           refresh'[j].generation > refresh'[k].generation
    BY DEF OneChain
  <2>2. j # old /\ k # old
    BY <1>8
  <2>3. CASE j = n
    <3>1. k \in Pair /\ ~refresh[k].revoked
      BY <1>11, <1>15, <2>2, <2>3
    <3> QED BY <1>1, <1>5, <1>9, <1>15, <2>1, <2>2, <2>3, <3>1
  <2>4. CASE k = n
    <3>1. j \in Pair /\ ~refresh[j].revoked
      BY <1>11, <1>15, <2>2, <2>4
    <3>2. ~Live(refresh'[j])
      BY <1>7, <1>13, <2>2, <3>1 DEF Live
    <3> QED BY <1>1, <1>5, <1>9, <1>15, <2>1, <2>2, <2>4, <3>1, <3>2
  <2>5. CASE j \in Pair /\ k \in Pair
    <3>1. ~Live(refresh'[j])
      BY <1>7, <1>13, <2>2, <2>5 DEF Live
    <3> QED BY <1>15, <2>2, <2>5, <3>1 DEF IndInv, OneChain
  <2> QED BY <1>11, <2>3, <2>4, <2>5
<1>21. RowsLinked'
  <2> SUFFICES ASSUME NEW k \in Pair'
               PROVE  /\ refresh'[k].from \in 0..(k - 1)
                      /\ refresh'[k].from = None => k = 1
                      /\ refresh'[k].from # None =>
                           refresh'[refresh'[k].from].spent
                      /\ refresh'[k].next \in 0..Len(refresh')
                      /\ refresh'[k].next # None =>
                           refresh'[refresh'[k].next].from = k
                      /\ access'[k].firstUsed => bound'
    BY DEF RowsLinked
  <2>1. CASE k = n
    BY <1>1, <1>7, <1>9, <2>1 DEF None
  <2>2. CASE k \in Pair
    <3>1. /\ refresh[k].from \in 0..(k - 1)
          /\ refresh[k].from = None => k = 1
          /\ refresh[k].from # None => refresh[refresh[k].from].spent
          /\ refresh[k].next \in 0..Len(refresh)
          /\ refresh[k].next # None => refresh[refresh[k].next].from = k
      BY <2>2 DEF IndInv, RowsLinked
    <3>2. refresh[k].from # None => refresh[k].from \in Pair
      BY <1>1, <2>2, <3>1 DEF None
    <3>3. refresh[k].next # None => refresh[k].next \in Pair
      BY <1>1, <3>1 DEF None
    <3>4. /\ refresh'[k].next \in 0..Len(refresh')
          /\ refresh'[k].next # None => refresh'[refresh'[k].next].from = k
      <4>1. CASE k = i
        BY <1>1, <1>7, <1>9, <4>1
      <4>2. CASE k # i
        <5>1. refresh'[k].next = refresh[k].next
          BY <1>7, <1>8, <2>2, <4>2
        <5> QED BY <1>1, <1>7, <1>15, <3>1, <3>3, <5>1
      <4> QED BY <4>1, <4>2
    <3> QED BY <1>3, <1>15, <2>2, <3>1, <3>2, <3>4
  <2> QED BY <1>11, <2>1, <2>2
<1>22. ClaimOutlastsWindow'
  <2>1. \A k \in Pair' : refresh'[k].retryClaimUntil # None =>
          /\ refresh'[k].spent
          /\ refresh'[k].retryClaimUntil >= refresh'[k].consumedAt + RetryWindow
    <3> SUFFICES ASSUME NEW k \in Pair', refresh'[k].retryClaimUntil # None
                 PROVE  /\ refresh'[k].spent
                        /\ refresh'[k].retryClaimUntil
                             >= refresh'[k].consumedAt + RetryWindow
      OBVIOUS
    <3>1. CASE k = i
      BY <1>1, <1>3, <1>7, <3>1
    <3>2. CASE k = old
      BY <1>5, <1>8, <3>2 DEF IndInv, ClaimOutlastsWindow
    <3>3. CASE k \in Pair \ {i, old}
      BY <1>7, <3>3 DEF IndInv, ClaimOutlastsWindow
    <3> QED BY <1>9, <1>11, <3>1, <3>2, <3>3
  <2>2. ASSUME NEW j \in Pair', NEW k \in Pair', j < k,
               refresh'[j].from = refresh'[k].from
        PROVE  refresh'[refresh'[j].from].retryClaimUntil # None
    <3>1. j \in Pair
      BY <1>1, <1>11, <2>2
    <3>2. CASE refresh'[j].from = i
      BY <1>1, <1>7, <3>2 DEF None
    <3>3. CASE refresh'[j].from # i
      <4>1. k \in Pair
        BY <1>9, <1>11, <2>2, <3>3
      <4>2. refresh[refresh[j].from].retryClaimUntil # None
        BY <1>15, <2>2, <3>1, <4>1 DEF IndInv, ClaimOutlastsWindow
      <4>3. refresh[j].from \in Pair
        <5>1. j < k /\ refresh[k].from = refresh[j].from
          BY <1>15, <2>2, <3>1, <4>1
        <5>2. /\ refresh[k].from = None => k = 1
              /\ refresh[j].from \in 0..(j - 1)
          BY <3>1, <4>1 DEF IndInv, RowsLinked
        <5>3. j \in 1..Len(refresh) /\ k \in 1..Len(refresh) /\ Len(refresh) \in Nat
          BY <1>1, <3>1, <4>1 DEF Pair
        <5>4. refresh[j].from # None
          BY <5>1, <5>2, <5>3
        <5> QED BY <5>2, <5>3, <5>4 DEF Pair, None
      <4>4. refresh'[j].from = refresh[j].from /\ refresh[j].from # i
        BY <1>15, <3>1, <3>3
      <4>5. \A m \in Pair \ {i} : refresh'[m].retryClaimUntil = refresh[m].retryClaimUntil
        <5> SUFFICES ASSUME NEW m \in Pair, m # i
                     PROVE  refresh'[m].retryClaimUntil = refresh[m].retryClaimUntil
          OBVIOUS
        <5>1. CASE m = old
          BY <1>8, <5>1
        <5>2. CASE m # old
          <6>1. refresh'[m] = refresh[m]
            BY <1>7, <5>2
          <6> QED BY <6>1
        <5> QED BY <5>1, <5>2
      <4> QED BY <4>2, <4>3, <4>4, <4>5
    <3> QED BY <3>2, <3>3
  <2> QED BY <2>1, <2>2 DEF ClaimOutlastsWindow
<1>23. SessionOwnsPairs'
  BY <1>1, <1>3, <1>7, <1>12 DEF IndInv, SessionOwnsPairs, TypeOK
<1> QED BY <1>12, <1>14, <1>18, <1>19, <1>20, <1>21, <1>22, <1>23 DEF IndInv

-----------------------------------------------------------------------------
(* The invariant is kept by every other step. *)

(***************************************************************************)
(* Ending the family (replay, revoke, sign-out) marks every row, whatever  *)
(* state it was in.  A retry that found the successor used has claimed its *)
(* token before.                                                           *)
(***************************************************************************)
Ended ==
  /\ session' = "ended"
  /\ UNCHANGED <<clock, code, bound, absolute, authority>>
  /\ refresh' \in Seq(RefreshRow) /\ Len(refresh') = Len(refresh)
  /\ access' \in Seq(AccessRow) /\ Len(access') = Len(access)
  /\ \A k \in Pair :
       /\ refresh'[k].spent /\ refresh'[k].revoked
       /\ refresh'[k].from = refresh[k].from
       /\ refresh'[k].next = refresh[k].next
       /\ refresh'[k].consumedAt = refresh[k].consumedAt
       /\ \/ refresh'[k].retryClaimUntil = refresh[k].retryClaimUntil
          \/ /\ refresh'[k].retryClaimUntil # None
             /\ refresh'[k].retryClaimUntil
                  >= refresh[k].consumedAt + RetryWindow
       /\ access'[k].spent
       /\ access'[k].firstUsed = access[k].firstUsed

LEMMA EndRows ==
  ASSUME IndInv, EndFamily(refresh)
  PROVE  Ended
<1>1. /\ Pair = 1..Len(refresh) /\ Len(refresh) \in Nat
      /\ DOMAIN access = Pair
      /\ \A k \in Pair : refresh[k] \in RefreshRow /\ access[k] \in AccessRow
  BY RowTypes DEF IndInv
<1>2. /\ refresh' \in Seq(RefreshRow) /\ Len(refresh') = Len(refresh)
      /\ access' \in Seq(AccessRow) /\ Len(access') = Len(access)
      /\ \A k \in Pair : /\ refresh'[k] = Retired(refresh[k])
                         /\ access'[k] = Retired(access[k])
  BY <1>1, RevokeAllRefresh, RevokeAllAccess DEF EndFamily, IndInv, TypeOK, Pair
<1> QED BY <1>1, <1>2, RetiredRefresh, RetiredAccess DEF Ended, EndFamily

LEMMA ReplayUsedRows ==
  ASSUME IndInv, NEW i \in Pair, NEW proof \in Proof, NEW at \in 1..clock,
         ReplayUsed(i, proof, at)
  PROVE  Ended
<1> DEFINE until == at + RetryWindow
           claimed == ClaimRetry(refresh, i, at)
<1>1. /\ Pair = 1..Len(refresh) /\ Len(refresh) \in Nat
      /\ DOMAIN access = Pair
      /\ \A k \in Pair : refresh[k] \in RefreshRow /\ access[k] \in AccessRow
  BY RowTypes DEF IndInv
<1>2. /\ until \in Nat /\ until # None
      /\ refresh[i].consumedAt <= at /\ refresh[i].consumedAt \in Nat
      /\ until >= refresh[i].consumedAt + RetryWindow
  <2>1. at \in Nat /\ at # 0 /\ RetryWindow \in Nat
    BY LifetimeAssumption DEF IndInv, TypeOK, Time
  <2>2. refresh[i].consumedAt \in Nat
    BY <1>1 DEF RefreshRow, Time
  <2>3. refresh[i].consumedAt <= at
    BY DEF ReplayUsed, InsideRetryWindow
  <2> QED BY <2>1, <2>2, <2>3 DEF None
<1>3. /\ claimed \in Seq(RefreshRow) /\ Len(claimed) = Len(refresh)
      /\ claimed[i] = [refresh[i] EXCEPT !.retryClaimUntil = until]
      /\ \A k \in Pair \ {i} : claimed[k] = refresh[k]
  <2>1. [refresh[i] EXCEPT !.retryClaimUntil = until] \in RefreshRow
    BY <1>1, <1>2, RetryClaimedRow
  <2> QED BY <1>1, <2>1 DEF ClaimRetry, IndInv, TypeOK, Pair
<1>4. /\ claimed[i].from = refresh[i].from
      /\ claimed[i].next = refresh[i].next
      /\ claimed[i].consumedAt = refresh[i].consumedAt
      /\ claimed[i].retryClaimUntil = until
  BY <1>1, <1>2, <1>3, RetryClaimedRow
<1>5. /\ refresh' = RevokeAll(claimed) /\ access' = RevokeAll(access)
      /\ session' = "ended"
      /\ UNCHANGED <<clock, code, bound, absolute, authority>>
  BY DEF ReplayUsed, EndFamily
<1> HIDE DEF claimed, until
<1>6. DOMAIN claimed = Pair /\ \A k \in Pair : claimed[k] \in RefreshRow
  BY <1>1, <1>3
<1>7. /\ refresh' \in Seq(RefreshRow) /\ Len(refresh') = Len(refresh)
      /\ access' \in Seq(AccessRow) /\ Len(access') = Len(access)
      /\ \A k \in Pair : /\ refresh'[k] = Retired(claimed[k])
                         /\ access'[k] = Retired(access[k])
  BY <1>1, <1>3, <1>5, <1>6, RevokeAllRefresh, RevokeAllAccess
     DEF IndInv, TypeOK
<1>8. \A k \in Pair :
        /\ refresh'[k].spent /\ refresh'[k].revoked
        /\ refresh'[k].from = claimed[k].from
        /\ refresh'[k].next = claimed[k].next
        /\ refresh'[k].consumedAt = claimed[k].consumedAt
        /\ refresh'[k].retryClaimUntil = claimed[k].retryClaimUntil
        /\ access'[k].spent
        /\ access'[k].firstUsed = access[k].firstUsed
  BY <1>1, <1>6, <1>7, RetiredRefresh, RetiredAccess
<1>9. \A k \in Pair :
        /\ claimed[k].from = refresh[k].from
        /\ claimed[k].next = refresh[k].next
        /\ claimed[k].consumedAt = refresh[k].consumedAt
        /\ \/ claimed[k].retryClaimUntil = refresh[k].retryClaimUntil
           \/ /\ claimed[k].retryClaimUntil # None
              /\ claimed[k].retryClaimUntil
                   >= refresh[k].consumedAt + RetryWindow
  BY <1>2, <1>3, <1>4
<1> QED BY <1>5, <1>7, <1>8, <1>9 DEF Ended

LEMMA EndKeeps ==
  ASSUME IndInv, session # "none", Ended
  PROVE  IndInv'
<1>1. /\ Pair = 1..Len(refresh) /\ Len(refresh) \in Nat
      /\ DOMAIN access = Pair
      /\ \A k \in Pair : refresh[k] \in RefreshRow /\ access[k] \in AccessRow
  BY RowTypes DEF IndInv
<1>2. /\ refresh' \in Seq(RefreshRow) /\ Len(refresh') = Len(refresh)
      /\ access' \in Seq(AccessRow) /\ Len(access') = Len(access)
  BY DEF Ended
<1>3. Pair' = Pair
  BY <1>1, <1>2 DEF Pair
<1>4. \A k \in Pair :
        /\ refresh'[k].spent /\ refresh'[k].revoked
        /\ refresh'[k].from = refresh[k].from
        /\ refresh'[k].next = refresh[k].next
        /\ refresh'[k].consumedAt = refresh[k].consumedAt
        /\ \/ refresh'[k].retryClaimUntil = refresh[k].retryClaimUntil
           \/ /\ refresh'[k].retryClaimUntil # None
              /\ refresh'[k].retryClaimUntil
                   >= refresh[k].consumedAt + RetryWindow
        /\ access'[k].spent
        /\ access'[k].firstUsed = access[k].firstUsed
  BY DEF Ended
<1>5. /\ session' = "ended"
      /\ UNCHANGED <<clock, code, bound, absolute, authority>>
  BY DEF Ended
<1>6. TypeOK'
  BY <1>2, <1>5 DEF IndInv, TypeOK
<1>7. OneLivePair' /\ UsedPairKept' /\ OneChain'
  BY <1>3, <1>4, <1>5 DEF OneLivePair, UsedPairKept, OneChain, Live
<1>8. AnsweredAtMostTwice'
  BY <1>3, <1>4, <1>5 DEF IndInv, AnsweredAtMostTwice
<1>9. RowsLinked'
  <2> SUFFICES ASSUME NEW k \in Pair
               PROVE  /\ refresh'[k].from \in 0..(k - 1)
                      /\ refresh'[k].from = None => k = 1
                      /\ refresh'[k].from # None =>
                           refresh'[refresh'[k].from].spent
                      /\ refresh'[k].next \in 0..Len(refresh')
                      /\ refresh'[k].next # None =>
                           refresh'[refresh'[k].next].from = k
                      /\ access'[k].firstUsed => bound'
    BY <1>3 DEF RowsLinked
  <2>1. /\ refresh[k].from \in 0..(k - 1)
        /\ refresh[k].from = None => k = 1
        /\ refresh[k].next \in 0..Len(refresh)
        /\ refresh[k].next # None => refresh[refresh[k].next].from = k
        /\ access[k].firstUsed => bound
    BY DEF IndInv, RowsLinked
  <2>2. /\ refresh[k].from # None => refresh[k].from \in Pair
        /\ refresh[k].next # None => refresh[k].next \in Pair
    BY <1>1, <2>1 DEF None
  <2> QED BY <1>2, <1>4, <1>5, <2>1, <2>2
<1>10. ClaimOutlastsWindow'
  <2>1. \A j, k \in Pair : j < k /\ refresh[j].from = refresh[k].from =>
          refresh[j].from \in Pair
    <3> SUFFICES ASSUME NEW j \in Pair, NEW k \in Pair, j < k,
                        refresh[j].from = refresh[k].from
                 PROVE  refresh[j].from \in Pair
      OBVIOUS
    <3>1. /\ refresh[j].from \in 0..(j - 1)
          /\ refresh[k].from = None => k = 1
      BY DEF IndInv, RowsLinked
    <3> QED BY <1>1, <3>1 DEF None
  <2> QED BY <1>3, <1>4, <2>1 DEF IndInv, ClaimOutlastsWindow
<1>11. SessionOwnsPairs'
  BY <1>1, <1>2, <1>5 DEF IndInv, SessionOwnsPairs, TypeOK
<1> QED BY <1>6, <1>7, <1>8, <1>9, <1>10, <1>11 DEF IndInv

(* The first pair of a family. *)
LEMMA ExchangeKeeps ==
  ASSUME IndInv, NEW withProof \in BOOLEAN, NEW at \in 1..clock,
         Exchange(withProof, at)
  PROVE  IndInv'
<1> DEFINE e == at + AbsoluteLifetime
<1>1. refresh = <<>> /\ access = <<>>
  BY DEF Exchange, IndInv, SessionOwnsPairs, TypeOK
<1>2. at \in Nat /\ e \in Nat /\ 1 \in Nat /\ None \in Nat
  BY LifetimeAssumption DEF IndInv, TypeOK, Time, None
<1>3. /\ NewRefresh(1, e, None) \in RefreshRow
      /\ NewAccess(1, at, e) \in AccessRow
  BY <1>2, NewRows
<1>4. /\ refresh' = <<NewRefresh(1, e, None)>>
      /\ access' = <<NewAccess(1, at, e)>>
      /\ session' = "live" /\ bound' = withProof /\ absolute' = e
      /\ code' = "spent" /\ UNCHANGED <<clock, authority>>
  BY <1>1 DEF Exchange, IssuedRefresh, IssuedAccess
<1> HIDE DEF e
<1>5. /\ refresh' \in Seq(RefreshRow) /\ Len(refresh') = 1
      /\ access' \in Seq(AccessRow) /\ Len(access') = 1
      /\ Pair' = {1}
      /\ refresh'[1] = NewRefresh(1, e, None)
      /\ access'[1] = NewAccess(1, at, e)
  BY <1>3, <1>4 DEF Pair
<1>6. TypeOK'
  BY <1>2, <1>4, <1>5 DEF IndInv, TypeOK, Time
<1>7. /\ ~refresh'[1].spent /\ ~refresh'[1].revoked
      /\ refresh'[1].from = None /\ refresh'[1].next = None
      /\ refresh'[1].retryClaimUntil = None
      /\ ~access'[1].firstUsed
  BY <1>5, NewRowFields
<1>8. OneLivePair' /\ UsedPairKept' /\ OneChain' /\ AnsweredAtMostTwice'
  BY <1>5, <1>7 DEF OneLivePair, UsedPairKept, OneChain, AnsweredAtMostTwice,
                    Live
<1>9. RowsLinked' /\ ClaimOutlastsWindow'
  BY <1>5, <1>7 DEF RowsLinked, ClaimOutlastsWindow, None
<1>10. SessionOwnsPairs'
  BY <1>4, <1>5 DEF SessionOwnsPairs
<1> QED BY <1>6, <1>8, <1>9, <1>10 DEF IndInv

(* A first use concerns a live access token, so its pair is not withdrawn. *)
LEMMA UseKeeps ==
  ASSUME IndInv, NEW i \in Pair, UseAccess(i)
  PROVE  IndInv'
<1> DEFINE used == [access[i] EXCEPT !.firstUsed = TRUE]
<1>1. /\ Pair = 1..Len(refresh) /\ DOMAIN access = Pair
      /\ Len(refresh) \in Nat /\ access[i] \in AccessRow
  BY RowTypes DEF IndInv
<1>2. /\ used \in AccessRow /\ used.firstUsed
      /\ used.spent = access[i].spent /\ used.revoked = access[i].revoked
  BY <1>1 DEF AccessRow
<1>3. /\ access' = [access EXCEPT ![i] = used] /\ bound /\ Live(access[i])
      /\ UNCHANGED <<clock, code, session, bound, absolute, authority, refresh>>
  BY DEF UseAccess, MarkFirstUse, CanMarkFirstUse
<1> HIDE DEF used
<1>4. /\ access' \in Seq(AccessRow) /\ Len(access') = Len(access)
      /\ access'[i] = used
      /\ \A k \in Pair \ {i} : access'[k] = access[k]
      /\ Pair' = Pair
  BY <1>1, <1>2, <1>3 DEF IndInv, TypeOK, Pair
<1>5. Live(refresh[i])
  BY <1>3 DEF IndInv, OneLivePair
<1>6. TypeOK'
  BY <1>3, <1>4 DEF IndInv, TypeOK
<1>7. OneLivePair'
  BY <1>2, <1>3, <1>4 DEF IndInv, OneLivePair, Live
<1>8. AnsweredAtMostTwice'
  BY <1>3, <1>4, <1>5 DEF IndInv, AnsweredAtMostTwice, Live
<1>9. UsedPairKept'
  BY <1>3, <1>4, <1>5 DEF IndInv, UsedPairKept, Live
<1>10. RowsLinked'
  BY <1>3, <1>4 DEF IndInv, RowsLinked
<1>11. OneChain' /\ ClaimOutlastsWindow' /\ SessionOwnsPairs'
  BY <1>3, <1>4 DEF IndInv, OneChain, ClaimOutlastsWindow, SessionOwnsPairs
<1> QED BY <1>6, <1>7, <1>8, <1>9, <1>10, <1>11 DEF IndInv

(* Steps that leave the rows alone.                                        *)
LEMMA OtherKeeps ==
  ASSUME IndInv, Tick \/ AuthorityMoves \/ RevokeSelected \/ SpendCode
                 \/ UNCHANGED vars
  PROVE  IndInv'
<1>1. UNCHANGED <<bound, absolute, refresh, access>> /\ Pair' = Pair
  BY DEF Tick, AuthorityMoves, RevokeSelected, SpendCode, vars, Pair
<1>2. session' = session \/ (session = "live" /\ session' = "ended")
  BY DEF Tick, AuthorityMoves, RevokeSelected, SpendCode, vars
<1>3. code' = code \/ code' = "spent"
  BY DEF Tick, AuthorityMoves, RevokeSelected, SpendCode, vars
<1>4. clock' \in Time /\ authority' \in BOOLEAN
  <2>1. clock' \in Time
    BY DEF Tick, AuthorityMoves, RevokeSelected, SpendCode, vars, IndInv,
           TypeOK, Time
  <2>2. authority' = authority \/ authority' = ~authority
    BY DEF Tick, AuthorityMoves, RevokeSelected, SpendCode, vars
  <2>3. authority' \in BOOLEAN
    BY <2>2, Zenon DEF IndInv, TypeOK
  <2> QED BY <2>1, <2>3
<1>5. TypeOK'
  BY <1>1, <1>2, <1>3, <1>4 DEF IndInv, TypeOK
<1>6. OneLivePair' /\ AnsweredAtMostTwice' /\ OneChain' /\ RowsLinked'
      /\ ClaimOutlastsWindow'
  BY <1>1 DEF IndInv, OneLivePair, AnsweredAtMostTwice, OneChain, RowsLinked,
              ClaimOutlastsWindow
<1>7. UsedPairKept'
  BY <1>1, <1>2 DEF IndInv, UsedPairKept
<1>8. SessionOwnsPairs'
  BY <1>1, <1>2, <1>3 DEF IndInv, SessionOwnsPairs
<1> QED BY <1>5, <1>6, <1>7, <1>8 DEF IndInv

-----------------------------------------------------------------------------
(* The theorems. *)

LEMMA InitIndInv == Init => IndInv
<1> SUFFICES ASSUME Init PROVE IndInv
  OBVIOUS
<1>1. refresh = <<>> /\ access = <<>> /\ Pair = {}
  BY DEF Init, Pair
<1>2. TypeOK
  <2>1. refresh \in Seq(RefreshRow) /\ access \in Seq(AccessRow)
    BY <1>1
  <2>2. clock \in Time /\ absolute \in Time /\ Len(refresh) = Len(access)
    BY <1>1 DEF Init, Time, None
  <2> QED BY <2>1, <2>2, Zenon DEF Init, TypeOK
<1>3. SessionOwnsPairs
  BY DEF Init, SessionOwnsPairs
<1> QED BY <1>1, <1>2, <1>3 DEF IndInv, OneLivePair, AnsweredAtMostTwice,
           UsedPairKept, OneChain, RowsLinked, ClaimOutlastsWindow

(* No unit of work of the token, refresh, retry and revoke services breaks *)
(* the invariant.                                                          *)
LEMMA NextIndInv == IndInv /\ [Next]_vars => IndInv'
<1> SUFFICES ASSUME IndInv, [Next]_vars PROVE IndInv'
  OBVIOUS
<1>1. \A i \in Pair : session # "none"
  BY DEF IndInv, SessionOwnsPairs, Pair
<1>2. CASE Tick \/ AuthorityMoves \/ RevokeSelected \/ SpendCode
           \/ UNCHANGED vars
  BY <1>2, OtherKeeps
<1>3. CASE RevokeNativeSession
  BY <1>3, EndRows, EndKeeps DEF RevokeNativeSession
<1>4. CASE \E withProof \in BOOLEAN, at \in 1..clock : Exchange(withProof, at)
  BY <1>4, ExchangeKeeps
<1>5. CASE \E i \in Pair : UseAccess(i)
  BY <1>5, UseKeeps
<1>6. ASSUME NEW i \in Pair, NEW proof \in Proof, RevokeToken(i, proof)
      PROVE  IndInv'
  BY <1>1, <1>6, EndRows, EndKeeps DEF RevokeToken
<1>7. ASSUME NEW i \in Pair, NEW proof \in Proof, NEW at \in 1..clock,
             Rotate(i, proof, at) \/ Replace(i, proof, at)
             \/ Replay(i, proof, at) \/ ReplayUsed(i, proof, at)
      PROVE  IndInv'
  <2>1. CASE Rotate(i, proof, at)
    BY <2>1, Guards, RotateKeeps
  <2>2. CASE Replace(i, proof, at)
    BY <2>2, Guards, ReplaceKeeps
  <2>3. CASE Replay(i, proof, at)
    BY <1>1, <2>3, EndRows, EndKeeps DEF Replay
  <2>4. CASE ReplayUsed(i, proof, at)
    BY <1>1, <2>4, ReplayUsedRows, EndKeeps
  <2> QED BY <1>7, <2>1, <2>2, <2>3, <2>4
<1> QED BY <1>2, <1>3, <1>4, <1>5, <1>6, <1>7 DEF Next

(* Every reachable state of a token family satisfies the invariant.        *)
THEOREM Invariance == Spec => []IndInv
BY InitIndInv, NextIndInv, PTL DEF Spec

(* The types of the rows, the session and the clock.                       *)
THEOREM TypeCorrect == Spec => []TypeOK
<1>1. IndInv => TypeOK
  BY DEF IndInv
<1> QED BY <1>1, Invariance, PTL

(* At most one pair of a family is live, for every window and lifetime and *)
(* for any number of rotations, retries and replays.                       *)
THEOREM AtMostOneLivePair == Spec => []OneLivePair
<1>1. IndInv => OneLivePair
  BY DEF IndInv
<1> QED BY <1>1, Invariance, PTL

(* No refresh token is answered with a third pair, and of two answers the  *)
(* first was withdrawn unused.                                             *)
THEOREM NeverAThirdAnswer == Spec => []AnsweredAtMostTwice
<1>1. IndInv => AnsweredAtMostTwice
  BY DEF IndInv
<1> QED BY <1>1, Invariance, PTL

(* A pair in use is withdrawn only with its session.                       *)
THEOREM PairInUseIsKept == Spec => []UsedPairKept
<1>1. IndInv => UsedPairKept
  BY DEF IndInv
<1> QED BY <1>1, Invariance, PTL

(* Tokens that are not withdrawn form one chain of generations.            *)
THEOREM GenerationsFormAChain == Spec => []OneChain
<1>1. IndInv => OneChain
  BY DEF IndInv
<1> QED BY <1>1, Invariance, PTL

(* An ended session issues nothing and revives nothing.                    *)
THEOREM EndIsFinal == Spec => EndedForGood
<1> DEFINE Step == session = "ended" =>
             /\ session' = "ended"
             /\ Len(refresh') = Len(refresh)
             /\ \A i \in Pair : Live(refresh'[i]) => Live(refresh[i])
<1>1. ASSUME Ended PROVE Step
  BY <1>1 DEF Ended, Live
<1>2. IndInv /\ [Next]_vars => [Step]_vars
  <2> SUFFICES ASSUME IndInv, Next, session = "ended" PROVE Step
    BY DEF vars
  <2>1. \A at : ~HasAuthority(at)
    BY DEF HasAuthority
  <2>2. code # "unspent"
    BY DEF IndInv, SessionOwnsPairs
  <2>3. CASE UNCHANGED <<session, refresh>>
    BY <2>3
  <2>4. CASE EndFamily(refresh)
    BY <1>1, <2>4, EndRows
  <2>5. UNCHANGED <<session, refresh>> \/ EndFamily(refresh)
    BY <2>1, <2>2 DEF Next, Tick, AuthorityMoves, RevokeNativeSession,
       RevokeSelected, SpendCode, Exchange, UseAccess, RevokeToken, Rotate,
       Replace, Replay, ReplayUsed
  <2> QED BY <2>3, <2>4, <2>5
<1>3. Spec => [][Step]_vars
  BY <1>2, Invariance, PTL DEF Spec
<1> QED BY <1>3 DEF EndedForGood

-----------------------------------------------------------------------------
(* The refinement: rows keep the promise of TokenFamily. *)

(* A sequence one longer that agrees with s is s with an element appended. *)
LEMMA AppendIs ==
  ASSUME NEW S, NEW s \in Seq(S), NEW t \in Seq(S),
         Len(t) = Len(s) + 1, \A k \in 1..Len(s) : t[k] = s[k]
  PROVE  t = Append(s, t[Len(s) + 1])
  OBVIOUS

Status == {"held", "exchanged", "withdrawn"}

(* The mapped state is well formed.                                        *)
LEMMA MappedTable ==
  ASSUME NEW table \in Seq(RefreshRow)
  PROVE  LET status == [k \in DOMAIN table |-> StatusOf(table[k])]
             parent == [k \in DOMAIN table |-> table[k].from]
         IN  /\ status \in Seq(Status) /\ Len(status) = Len(table)
             /\ parent \in Seq(Nat) /\ Len(parent) = Len(table)
             /\ DOMAIN status = DOMAIN table
<1>1. DOMAIN table = 1..Len(table) /\ Len(table) \in Nat
  OBVIOUS
<1>2. \A k \in 1..Len(table) : StatusOf(table[k]) \in Status
  BY DEF StatusOf, Status
<1>3. [k \in 1..Len(table) |-> StatusOf(table[k])] \in Seq(Status)
  BY <1>1, <1>2, IsASeq
<1>4. \A k \in 1..Len(table) : table[k].from \in Nat
  <2>1. \A k \in 1..Len(table) : table[k] \in RefreshRow
    BY <1>1
  <2> QED BY <2>1 DEF RefreshRow
<1>5. [k \in 1..Len(table) |-> table[k].from] \in Seq(Nat)
  BY <1>1, <1>4, IsASeq
<1> QED BY <1>1, <1>3, <1>5

LEMMA RotateExchanges ==
  ASSUME IndInv, IndInv', NEW i \in Pair, NEW proof \in Proof,
         NEW at \in 1..clock, Rotate(i, proof, at)
  PROVE  Promise!AExchange(i)
<1> DEFINE n == Len(refresh) + 1
           before == [PairStatus EXCEPT ![i] = "exchanged"]
<1>1. /\ Pair = 1..Len(refresh) /\ Len(refresh) \in Nat
      /\ \A k \in Pair : access[k] \in AccessRow
  BY RowTypes DEF IndInv
<1>2. Rotated(i, at)
  BY Guards, RotateRows DEF IndInv
<1>3. /\ Live(refresh[i]) /\ session = "live" /\ session' = session
  BY DEF Rotate, ClaimAndRotate, Presented, HasAuthority, Live
<1>4. /\ PairStatus \in Seq(Status) /\ Len(PairStatus) = Len(refresh)
      /\ PairParent \in Seq(Nat) /\ Len(PairParent) = Len(refresh)
      /\ Promise!Pairs = Pair
      /\ \A k \in Pair : /\ PairStatus[k] = StatusOf(refresh[k])
                         /\ PairParent[k] = refresh[k].from
  BY MappedTable DEF IndInv, TypeOK, PairStatus, PairParent, Pair,
                     Promise!Pairs
<1>5. /\ PairStatus' \in Seq(Status) /\ Len(PairStatus') = Len(refresh')
      /\ PairParent' \in Seq(Nat) /\ Len(PairParent') = Len(refresh')
      /\ \A k \in Pair' : /\ PairStatus'[k] = StatusOf(refresh'[k])
                          /\ PairParent'[k] = refresh'[k].from
  BY MappedTable DEF IndInv, TypeOK, PairStatus, PairParent, Pair
<1>6. Pair' = Pair \cup {n} /\ n \notin Pair /\ Len(refresh') = n
  BY <1>1, <1>2 DEF Rotated, Pair
<1>7. /\ StatusOf(refresh[i]) = "held" /\ StatusOf(refresh'[i]) = "exchanged"
      /\ StatusOf(refresh'[n]) = "held" /\ refresh'[n].from = i
      /\ \A k \in Pair \ {i} : refresh'[k] = refresh[k]
      /\ refresh'[i].from = refresh[i].from
  BY <1>2, <1>3, NewRowFields DEF Rotated, SameOrigin, StatusOf, Live
<1>8. PairStatus' = Append(before, "held")
  <2>1. before \in Seq(Status) /\ Len(before) = Len(refresh)
    BY <1>1, <1>4 DEF Status
  <2>2. \A k \in 1..Len(refresh) : PairStatus'[k] = before[k]
    BY <1>1, <1>4, <1>5, <1>6, <1>7
  <2> HIDE DEF before
  <2> QED BY <1>5, <1>6, <1>7, <2>1, <2>2, AppendIs
<1>9. PairParent' = Append(PairParent, i)
  <2>1. \A k \in Pair : refresh'[k].from = refresh[k].from
    BY <1>7
  <2>2. \A k \in 1..Len(PairParent) : PairParent'[k] = PairParent[k]
    BY <1>1, <1>4, <1>5, <1>6, <2>1
  <2>3. Len(PairParent') = Len(PairParent) + 1 /\ PairParent'[n] = i
    BY <1>4, <1>5, <1>6, <1>7
  <2> QED BY <1>4, <1>5, <2>2, <2>3, AppendIs
<1>10. PairsUsed' = PairsUsed
  <2>1. \A k \in Pair : access'[k].firstUsed = access[k].firstUsed
    BY <1>1, <1>2, RetiredAccess DEF Rotated
  <2>2. ~access'[n].firstUsed
    BY <1>2, NewRowFields DEF Rotated
  <2> QED BY <1>6, <2>1, <2>2 DEF PairsUsed
<1>11. FamilyOpen = "yes" /\ FamilyOpen' = FamilyOpen
  BY <1>3 DEF FamilyOpen
<1> QED BY <1>4, <1>7, <1>8, <1>9, <1>10, <1>11 DEF Promise!AExchange

LEMMA ReplaceReissues ==
  ASSUME IndInv, IndInv', NEW i \in Pair, NEW proof \in Proof,
         NEW at \in 1..clock, Replace(i, proof, at)
  PROVE  Promise!AReissue(i)
<1> DEFINE n == Len(refresh) + 1
           old == refresh[i].next
           before == [PairStatus EXCEPT ![old] = "withdrawn"]
<1>1. /\ Pair = 1..Len(refresh) /\ Len(refresh) \in Nat
      /\ \A k \in Pair : refresh[k] \in RefreshRow /\ access[k] \in AccessRow
      /\ refresh[i].retryClaimUntil \in Nat /\ refresh[i].consumedAt \in Nat
      /\ at \in Nat
  BY RowTypes DEF IndInv, TypeOK, Time
<1>2. Replaced(i, at)
  BY Guards, ReplaceRows DEF IndInv
<1>3. /\ session = "live" /\ session' = session
      /\ refresh[i].spent /\ ~refresh[i].revoked
      /\ at - refresh[i].consumedAt < RetryWindow
      /\ refresh[i].retryClaimUntil <= at
  BY DEF Replace, ClaimAndReplace, Presented, HasAuthority, Retryable, InsideRetryWindow,
         CanClaimRetry
<1>4. Live(refresh[old]) /\ ~access[old].firstUsed /\ old # None
  BY DEF Replace, Retryable, HasUnusedSuccessor, CanRevokeSuccessor
<1>5. old \in Pair /\ old # i
  BY <1>2 DEF Replaced
<1> HIDE DEF old
<1>6. refresh[old].from = i
  BY <1>4 DEF IndInv, RowsLinked, old
<1>7. refresh[i].retryClaimUntil = None
  BY <1>1, <1>3, LifetimeAssumption DEF IndInv, ClaimOutlastsWindow
<1>8. \A k \in Pair : refresh[k].from = i => k = old
  <2> SUFFICES ASSUME NEW k \in Pair, refresh[k].from = i, k # old
               PROVE  FALSE
    OBVIOUS
  <2>1. k < old \/ old < k
    BY <1>1, <1>5
  <2> QED BY <1>5, <1>6, <1>7, <2>1 DEF IndInv, ClaimOutlastsWindow
<1>9. /\ PairStatus \in Seq(Status) /\ Len(PairStatus) = Len(refresh)
      /\ PairParent \in Seq(Nat) /\ Len(PairParent) = Len(refresh)
      /\ Promise!Pairs = Pair
      /\ \A k \in Pair : /\ PairStatus[k] = StatusOf(refresh[k])
                         /\ PairParent[k] = refresh[k].from
  BY MappedTable DEF IndInv, TypeOK, PairStatus, PairParent, Pair,
                     Promise!Pairs
<1>10. /\ PairStatus' \in Seq(Status) /\ Len(PairStatus') = Len(refresh')
       /\ PairParent' \in Seq(Nat) /\ Len(PairParent') = Len(refresh')
       /\ \A k \in Pair' : /\ PairStatus'[k] = StatusOf(refresh'[k])
                           /\ PairParent'[k] = refresh'[k].from
  BY MappedTable DEF IndInv, TypeOK, PairStatus, PairParent, Pair
<1>11. Pair' = Pair \cup {n} /\ n \notin Pair /\ Len(refresh') = n
  BY <1>1, <1>2 DEF Replaced, Pair
<1>12. /\ refresh'[old].revoked /\ refresh'[old].from = refresh[old].from
       /\ access'[old].firstUsed = access[old].firstUsed
  BY <1>1, <1>2, <1>5, RetiredRefresh, RetiredAccess DEF Replaced, old
<1>13. /\ refresh'[i].spent /\ refresh'[i].revoked = refresh[i].revoked
       /\ refresh'[i].from = refresh[i].from
       /\ \A k \in Pair \ {i, old} : refresh'[k] = refresh[k]
       /\ \A k \in Pair \ {old} : access'[k] = access[k]
  BY <1>2 DEF Replaced, SameOrigin, old
<1>14. /\ ~refresh'[n].spent /\ ~refresh'[n].revoked /\ refresh'[n].from = i
       /\ ~access'[n].firstUsed
  BY <1>2, NewRowFields DEF Replaced, old
<1>15. /\ StatusOf(refresh[i]) = "exchanged" /\ StatusOf(refresh[old]) = "held"
       /\ StatusOf(refresh'[i]) = "exchanged"
       /\ StatusOf(refresh'[old]) = "withdrawn"
       /\ StatusOf(refresh'[n]) = "held"
  BY <1>3, <1>4, <1>12, <1>13, <1>14 DEF StatusOf, Live
<1>16. PairStatus' = Append(before, "held")
  <2>1. before \in Seq(Status) /\ Len(before) = Len(refresh)
    BY <1>1, <1>5, <1>9 DEF Status
  <2>2. \A k \in 1..Len(refresh) : PairStatus'[k] = before[k]
    <3> SUFFICES ASSUME NEW k \in Pair PROVE PairStatus'[k] = before[k]
      BY <1>1
    <3>1. PairStatus'[k] = StatusOf(refresh'[k])
      BY <1>10, <1>11
    <3>2. before[k] = IF k = old THEN "withdrawn" ELSE StatusOf(refresh[k])
      BY <1>1, <1>5, <1>9
    <3>3. CASE k = old
      BY <1>15, <3>1, <3>2, <3>3
    <3>4. CASE k = i
      BY <1>5, <1>15, <3>1, <3>2, <3>4
    <3>5. CASE k \notin {i, old}
      BY <1>13, <3>1, <3>2, <3>5
    <3> QED BY <3>3, <3>4, <3>5
  <2>3. Len(PairStatus') = Len(before) + 1 /\ PairStatus'[n] = "held"
    BY <1>10, <1>11, <1>15, <2>1
  <2> HIDE DEF before
  <2> QED BY <1>10, <1>11, <2>1, <2>2, <2>3, AppendIs
<1>17. PairParent' = Append(PairParent, i)
  <2>1. \A k \in Pair : refresh'[k].from = refresh[k].from
    BY <1>12, <1>13
  <2>2. \A k \in 1..Len(PairParent) : PairParent'[k] = PairParent[k]
    BY <1>1, <1>9, <1>10, <1>11, <2>1
  <2>3. Len(PairParent') = Len(PairParent) + 1 /\ PairParent'[n] = i
    BY <1>9, <1>10, <1>11, <1>14
  <2> QED BY <1>9, <1>10, <2>2, <2>3, AppendIs
<1>18. PairsUsed' = PairsUsed
  BY <1>11, <1>12, <1>13, <1>14 DEF PairsUsed
<1>19. FamilyOpen = "yes" /\ FamilyOpen' = FamilyOpen
  BY <1>3 DEF FamilyOpen
<1>20. Promise!Children(i) = {old}
  BY <1>5, <1>6, <1>8, <1>9 DEF Promise!Children
<1>21. old \notin PairsUsed
  BY <1>4 DEF PairsUsed
<1> QED BY <1>5, <1>9, <1>15, <1>16, <1>17, <1>18, <1>19, <1>20, <1>21
        DEF Promise!AReissue

(* Ending the family withdraws every pair.                                 *)
LEMMA EndWithdraws ==
  ASSUME IndInv, session # "none", Ended
  PROVE  Promise!AEnd
<1>1. Pair = 1..Len(refresh) /\ Len(refresh) \in Nat
  BY RowTypes DEF IndInv
<1>2. refresh' \in Seq(RefreshRow) /\ Len(refresh') = Len(refresh)
  BY DEF Ended
<1>3. Pair' = Pair
  BY <1>1, <1>2 DEF Pair
<1>4. \A k \in Pair : /\ StatusOf(refresh'[k]) = "withdrawn"
                      /\ refresh'[k].from = refresh[k].from
                      /\ access'[k].firstUsed = access[k].firstUsed
  BY DEF StatusOf, Ended
<1>5. Promise!Pairs = Pair
  BY DEF Promise!Pairs, PairStatus
<1>6. PairStatus' = [p \in Promise!Pairs |-> "withdrawn"]
  BY <1>3, <1>4, <1>5 DEF PairStatus
<1>7. PairParent' = PairParent
  BY <1>3, <1>4 DEF PairParent
<1>8. PairsUsed' = PairsUsed
  BY <1>3, <1>4 DEF PairsUsed
<1>9. FamilyOpen # "no" /\ FamilyOpen' = "ended"
  BY DEF FamilyOpen, Ended
<1> QED BY <1>6, <1>7, <1>8, <1>9 DEF Promise!AEnd

(* The rows of a family, whatever units of work run on them, behave as the *)
(* token family of TokenFamily: this is what a client may rely on.         *)
THEOREM Refinement == Spec => KeepsPromise
<1>1. Init => Promise!AInit
  BY DEF Init, Promise!AInit, FamilyOpen, PairStatus, PairParent, PairsUsed,
         Pair
<1>2. IndInv /\ IndInv' /\ [Next]_vars => [Promise!ANext]_(Promise!afVars)
  <2> SUFFICES ASSUME IndInv, IndInv', [Next]_vars
               PROVE  Promise!ANext \/ UNCHANGED Promise!afVars
    OBVIOUS
  <2>1. \A i \in Pair : session # "none"
    BY DEF IndInv, SessionOwnsPairs, Pair
  <2>2. Promise!Pairs = Pair
    BY DEF Promise!Pairs, PairStatus
  <2>3. CASE UNCHANGED <<session, refresh, access>>
    BY <2>3 DEF Promise!afVars, FamilyOpen, PairStatus, PairParent, PairsUsed,
                Pair
  <2>4. CASE EndFamily(refresh) /\ session # "none"
    BY <2>4, EndRows, EndWithdraws DEF Promise!ANext
  <2>5. CASE RevokeSelected
    <3>1. /\ PairStatus' = PairStatus /\ PairParent' = PairParent
          /\ PairsUsed' = PairsUsed
      BY <2>5 DEF RevokeSelected, PairStatus, PairParent, PairsUsed, Pair
    <3>2. FamilyOpen # "no" /\ FamilyOpen' = "ended"
      BY <2>5 DEF RevokeSelected, FamilyOpen
    <3> QED BY <3>1, <3>2 DEF Promise!ANext, Promise!AEnd
  <2>6. ASSUME NEW withProof \in BOOLEAN, NEW at \in 1..clock,
               Exchange(withProof, at)
        PROVE  Promise!ANext
    <3> DEFINE first == NewRefresh(1, absolute', None)
    <3>1. refresh = <<>> /\ access = <<>> /\ session = "none" /\ Pair = {}
      BY <2>6 DEF Exchange, IndInv, SessionOwnsPairs, TypeOK, Pair
    <3>2. /\ refresh' = <<first>> /\ session' = "live"
          /\ access' = <<NewAccess(1, at, absolute')>>
      BY <2>6, <3>1 DEF Exchange, IssuedRefresh, IssuedAccess
    <3>3. /\ ~first.spent /\ ~first.revoked /\ first.from = 0
          /\ ~access'[1].firstUsed
      BY <3>2, NewRowFields DEF None
    <3> HIDE DEF first
    <3>4. Pair' = {1} /\ refresh'[1] = first
      BY <3>2 DEF Pair
    <3>5. PairStatus' = <<"held">> /\ PairParent' = <<0>>
      BY <3>2, <3>3, <3>4 DEF PairStatus, PairParent, StatusOf
    <3>6. PairsUsed' = PairsUsed
      BY <3>1, <3>3, <3>4 DEF PairsUsed
    <3>7. FamilyOpen = "no" /\ FamilyOpen' = "yes"
      BY <3>1, <3>2 DEF FamilyOpen
    <3> QED BY <3>5, <3>6, <3>7 DEF Promise!ANext, Promise!AIssue
  <2>7. ASSUME NEW i \in Pair, UseAccess(i)
        PROVE  Promise!ANext
    <3>1. /\ Live(access[i]) /\ access' = MarkFirstUse(access, i)
          /\ UNCHANGED <<session, refresh>>
      BY <2>7 DEF UseAccess, CanMarkFirstUse
    <3>2. StatusOf(refresh[i]) = "held"
      BY <3>1 DEF IndInv, OneLivePair, Live, StatusOf
    <3>3. DOMAIN access = Pair /\ \A k \in Pair : access[k] \in AccessRow
      BY RowTypes DEF IndInv
    <3>4. PairsUsed' = PairsUsed \cup {i}
      <4>1. access'[i].firstUsed /\ \A k \in Pair \ {i} : access'[k] = access[k]
        BY <3>1, <3>3 DEF MarkFirstUse, AccessRow
      <4>2. Pair' = Pair
        BY <3>1 DEF Pair
      <4> QED BY <4>1, <4>2 DEF PairsUsed
    <3>5. /\ PairStatus' = PairStatus /\ PairParent' = PairParent
          /\ FamilyOpen' = FamilyOpen
      BY <3>1 DEF PairStatus, PairParent, FamilyOpen, Pair
    <3>6. PairStatus[i] = "held"
      BY <3>2 DEF PairStatus
    <3> QED BY <2>2, <3>4, <3>5, <3>6 DEF Promise!ANext, Promise!AUse
  <2>8. ASSUME NEW i \in Pair, NEW proof \in Proof, NEW at \in 1..clock,
               Rotate(i, proof, at) \/ Replace(i, proof, at)
        PROVE  Promise!ANext
    BY <2>2, <2>8, RotateExchanges, ReplaceReissues DEF Promise!ANext
  <2>9. CASE UNCHANGED vars
    BY <2>3, <2>9 DEF vars
  <2>10. CASE Tick \/ AuthorityMoves \/ SpendCode
    BY <2>3, <2>10 DEF Tick, AuthorityMoves, SpendCode
  <2>11. CASE RevokeNativeSession
    BY <2>4, <2>11 DEF RevokeNativeSession
  <2>12. ASSUME NEW i \in Pair, NEW proof \in Proof,
                RevokeToken(i, proof) \/ \E at \in 1..clock : Replay(i, proof, at)
         PROVE  Promise!ANext
    <3>1. EndFamily(refresh) /\ session # "none"
      BY <2>1, <2>12 DEF RevokeToken, Replay
    <3> QED BY <3>1, EndRows, EndWithdraws DEF Promise!ANext
  <2>13. ASSUME NEW i \in Pair, NEW proof \in Proof, NEW at \in 1..clock,
                ReplayUsed(i, proof, at)
         PROVE  Promise!ANext
    BY <2>1, <2>13, ReplayUsedRows, EndWithdraws DEF Promise!ANext
  <2> QED BY <2>5, <2>6, <2>7, <2>8, <2>9, <2>10, <2>11, <2>12, <2>13 DEF Next
<1> QED BY <1>1, <1>2, Invariance, PTL DEF Spec, KeepsPromise, Promise!ASpec

(***************************************************************************)
(* Proofs of possession (ProofIds).  For any servers, clocks, tolerance    *)
(* and kept time within ProofAssumption, a proof is accepted at most once. *)
(* The invariant needs two facts beside the claim: a stored id expires no  *)
(* earlier than the kept time after the proof's first moment, and when an  *)
(* accepted proof's id is gone, every clock has passed the proof's last    *)
(* moment by the longest unit of work, so that no copy can be checked or   *)
(* be on its way.                                                          *)
(***************************************************************************)


(* A checked copy was checked in time, at a moment of some server's clock. *)
CheckedInTime ==
  \A r \in Copy : copy[r].st = "checked" =>
    /\ iat # -1 /\ copy[r].at <= time
    /\ copy[r].now <= iat + Tolerance /\ iat - Tolerance <= copy[r].now
    /\ \E s \in Server : copy[r].now = copy[r].at + Offset[s]

(* The proof's last moment is over for every clock and unit of work.       *)
Over == \A s \in Server : Clock(s) > iat + Tolerance + Delay

AnAccepted == \E r \in Copy : copy[r].st = "accepted"

(* What is accepted has its id stored or is over.                          *)
KeptOrOver == AnAccepted => iat # -1 /\ (storedId # -1 \/ Over)

RowHasProof == storedId # -1 => iat # -1

ProofInv == PTypeOK /\ CheckedInTime /\ KeptOrOver /\ RowHasProof /\ AcceptedOnce

LEMMA InitProofInv == PInit => ProofInv
BY ProofAssumption DEF PInit, ProofInv, PTypeOK, CheckedInTime, KeptOrOver,
   AnAccepted, RowHasProof, AcceptedOnce, Being

LEMMA TypeOKStep == ASSUME ProofInv, [PNext]_pvars PROVE PTypeOK'
<1> USE ProofAssumption DEF ProofInv, PTypeOK
<1>1. CASE PTick BY <1>1 DEF PTick
<1>2. CASE SignProof BY <1>2 DEF SignProof, RowHasProof
<1>3. CASE \E s \in Server : Challenge(s)
  BY <1>3 DEF Challenge, Clock
<1>4. CASE \E s \in Server : Purge(s)
  BY <1>4 DEF Purge
<1>5. ASSUME NEW r \in Copy, ReserveProofId(r) PROVE PTypeOK'
  <2>1. copy[r] \in [st : {"waiting", "checked", "accepted", "refused"},
                     at : Nat, now : Nat, kind : {"refresh", "exchange"}]
    OBVIOUS
  <2>2. copy[r].now \in Nat /\ copy[r].at \in Nat
    BY <2>1
  <2>3. copy[r].at <= time /\ iat - Tolerance <= copy[r].now /\ iat \in Nat
    BY <1>5 DEF ReserveProofId, CheckedInTime
  <2>4. CASE storedId = -1
    <3>1. storedId' = copy[r].now + Ttl
          \/ storedId' = copy[r].now + (time - copy[r].at) + Ttl
      BY <1>5, <2>4, <2>2 DEF ReserveProofId, ExpiresAt
    <3>2. storedId' \in Nat /\ storedId' >= iat - Tolerance + Ttl
      BY <3>1, <2>2, <2>3
    <3>3. copy' = [copy EXCEPT ![r] = Being("accepted")]
      BY <1>5, <2>4 DEF ReserveProofId
    <3>4. copy' \in [Copy -> [st : {"waiting", "checked", "accepted", "refused"},
                        at : Nat, now : Nat, kind : {"refresh", "exchange"}]]
      BY <3>3 DEF Being
    <3> QED BY <1>5, <3>2, <3>4 DEF ReserveProofId
  <2>5. CASE storedId # -1
    BY <1>5, <2>5 DEF ReserveProofId, Being
  <2> QED BY <2>4, <2>5
<1>6. CASE \E r \in Copy : GiveUp(r)
  BY <1>6 DEF GiveUp, Being
<1>7. ASSUME NEW r \in Copy, NEW s \in Server, Check(r, s) PROVE PTypeOK'
  <2>1. Clock(s) \in Nat
    BY DEF Clock
  <2>2. copy' \in [Copy -> [st : {"waiting", "checked", "accepted", "refused"},
                        at : Nat, now : Nat, kind : {"refresh", "exchange"}]]
    BY <1>7, <2>1 DEF Check, Being
  <2> QED BY <1>7, <2>2 DEF Check
<1>8. CASE UNCHANGED pvars BY <1>8 DEF pvars
<1> QED BY <1>1, <1>2, <1>3, <1>4, <1>5, <1>6, <1>7, <1>8 DEF PNext

LEMMA CheckedStep == ASSUME ProofInv, [PNext]_pvars PROVE CheckedInTime'
<1> USE ProofAssumption DEF ProofInv, CheckedInTime, PTypeOK
<1>1. CASE PTick BY <1>1 DEF PTick
<1>2. CASE SignProof
  BY <1>2 DEF SignProof
<1>3. CASE \E s \in Server : Challenge(s) BY <1>3 DEF Challenge
<1>4. CASE \E s \in Server : Purge(s) BY <1>4 DEF Purge
<1>5. CASE \E r \in Copy : ReserveProofId(r)
  BY <1>5 DEF ReserveProofId, Being
<1>6. CASE \E r \in Copy : GiveUp(r)
  BY <1>6 DEF GiveUp, Being
<1>7. ASSUME NEW r \in Copy, NEW s \in Server, Check(r, s)
      PROVE CheckedInTime'
  <2>1. CASE InTime(Clock(s)) /\ Nonce \in Candidates(Clock(s))
    <3>1. PICK kind \in {"refresh", "exchange"} :
            copy' = [copy EXCEPT ![r] = [st |-> "checked", at |-> time,
                                         now |-> Clock(s), kind |-> kind]]
      BY <1>7, <2>1 DEF Check
    <3>2. copy'[r].at = time /\ copy'[r].now = time + Offset[s]
      BY <3>1 DEF Clock
    <3>3. Clock(s) <= iat + Tolerance /\ iat - Tolerance <= Clock(s)
      BY <2>1, <1>7 DEF InTime, Clock, Check
    <3> QED BY <1>7, <3>1, <3>2, <3>3 DEF Check, Clock
  <2>2. CASE ~(InTime(Clock(s)) /\ Nonce \in Candidates(Clock(s)))
    <3>1. copy' = [copy EXCEPT ![r] = Being("refused")]
      BY <1>7, <2>2 DEF Check
    <3> QED BY <1>7, <3>1 DEF Check, Being
  <2> QED BY <2>1, <2>2
<1>8. CASE UNCHANGED pvars BY <1>8 DEF pvars
<1> QED BY <1>1, <1>2, <1>3, <1>4, <1>5, <1>6, <1>7, <1>8 DEF PNext

(* When an accepted proof's id is gone no copy is on its way.              *)
LEMMA NoneOnItsWay ==
  ASSUME ProofInv, Over, iat # -1, NEW r \in Copy, ReserveProofId(r) PROVE FALSE
<1> USE ProofAssumption DEF ProofInv, PTypeOK
<1>1. copy[r].at \in Nat /\ copy[r].now \in Nat
  OBVIOUS
<1>2. PICK s \in Server : copy[r].now = copy[r].at + Offset[s]
  BY DEF ReserveProofId, CheckedInTime
<1>3. copy[r].now <= iat + Tolerance /\ time <= copy[r].at + Delay
  BY DEF ReserveProofId, CheckedInTime
<1>4. time + Offset[s] > iat + Tolerance + Delay
  BY DEF Over, Clock
<1>5. Offset[s] \in Nat /\ iat \in Int
  OBVIOUS
<1> QED BY <1>1, <1>2, <1>3, <1>4, <1>5

(* An id that may be removed belongs to a proof that is over.              *)
LEMMA RemovedIsOver ==
  ASSUME ProofInv, NEW p \in Server, storedId # -1, storedId <= Clock(p) PROVE Over
<1> USE ProofAssumption DEF ProofInv, PTypeOK
<1>1. SUFFICES ASSUME NEW s \in Server
               PROVE  Clock(s) > iat + Tolerance + Delay
  BY DEF Over
<1>2. storedId >= iat - Tolerance + Ttl /\ iat \in Int
  OBVIOUS
<1>3. Offset[p] \in Nat /\ Offset[s] \in Nat /\ Offset[p] - Offset[s] <= Skew
  OBVIOUS
<1>4. storedId <= time + Offset[p]
  BY DEF Clock
<1> QED BY <1>2, <1>3, <1>4 DEF Clock

LEMMA AcceptStep ==
  ASSUME ProofInv, [PNext]_pvars
  PROVE KeptOrOver' /\ RowHasProof' /\ AcceptedOnce'
<1> USE DEF ProofInv
<1>1. CASE PTick
  <2>1. Over => Over'
    BY <1>1, ProofAssumption DEF PTick, Over, Clock, PTypeOK
  <2> QED BY <1>1, <2>1 DEF PTick, KeptOrOver, AnAccepted, RowHasProof,
             AcceptedOnce
<1>2. CASE SignProof
  BY <1>2 DEF SignProof, KeptOrOver, AnAccepted, RowHasProof, AcceptedOnce
<1>3. CASE \E s \in Server : Challenge(s)
  BY <1>3 DEF Challenge, KeptOrOver, AnAccepted, RowHasProof, AcceptedOnce,
     Over, Clock
<1>4. ASSUME NEW p \in Server, Purge(p)
      PROVE KeptOrOver' /\ RowHasProof' /\ AcceptedOnce'
  <2>1. Over
    BY <1>4, RemovedIsOver DEF Purge
  <2>2. Over'
    BY <1>4, <2>1 DEF Purge, Over, Clock
  <2> QED BY <1>4, <2>2 DEF Purge, KeptOrOver, AnAccepted, RowHasProof,
             AcceptedOnce
<1>5. ASSUME NEW r \in Copy, ReserveProofId(r)
      PROVE KeptOrOver' /\ RowHasProof' /\ AcceptedOnce'
  <2>1. iat # -1
    BY <1>5 DEF ReserveProofId, CheckedInTime
  <2>2. CASE storedId = -1
    <3>1. ~AnAccepted
      BY <1>5, <2>1, <2>2, NoneOnItsWay DEF KeptOrOver
    <3>2. copy' = [copy EXCEPT ![r] = Being("accepted")]
      BY <1>5, <2>2 DEF ReserveProofId
    <3>3. \A q \in Copy : q # r => copy'[q].st # "accepted"
      BY <3>1, <3>2 DEF AnAccepted, PTypeOK
    <3>4. storedId' # -1
      <4>1. copy[r].now \in Nat /\ copy[r].at \in Nat /\ copy[r].at <= time
        BY <1>5 DEF PTypeOK, ReserveProofId, CheckedInTime
      <4> QED BY <1>5, <2>2, <4>1, ProofAssumption DEF ReserveProofId, ExpiresAt, PTypeOK
    <3> QED BY <1>5, <2>1, <3>3, <3>4 DEF ReserveProofId, KeptOrOver, RowHasProof,
               AcceptedOnce
  <2>3. CASE storedId # -1
    <3>1. copy' = [copy EXCEPT ![r] = Being("refused")] /\ storedId' = storedId
      BY <1>5, <2>3 DEF ReserveProofId
    <3>2. \A q \in Copy : copy'[q].st = "accepted" => copy[q].st = "accepted"
      BY <3>1 DEF Being, PTypeOK
    <3> QED BY <1>5, <2>1, <2>3, <3>1, <3>2 DEF ReserveProofId, KeptOrOver, RowHasProof,
               AcceptedOnce
  <2> QED BY <2>2, <2>3
<1>6. ASSUME NEW r \in Copy, GiveUp(r)
      PROVE KeptOrOver' /\ RowHasProof' /\ AcceptedOnce'
  <2>1. \A q \in Copy : copy'[q].st = "accepted" => copy[q].st = "accepted"
    BY <1>6 DEF GiveUp, Being, PTypeOK
  <2> QED BY <1>6, <2>1 DEF GiveUp, KeptOrOver, AnAccepted, RowHasProof,
             AcceptedOnce, Over, Clock
<1>7. ASSUME NEW r \in Copy, NEW s \in Server, Check(r, s)
      PROVE KeptOrOver' /\ RowHasProof' /\ AcceptedOnce'
  <2>1. \A q \in Copy : copy'[q].st = "accepted" => copy[q].st = "accepted"
    BY <1>7 DEF Check, Being, PTypeOK
  <2> QED BY <1>7, <2>1 DEF Check, KeptOrOver, AnAccepted, RowHasProof,
             AcceptedOnce, Over, Clock
<1>8. CASE UNCHANGED pvars
  BY <1>8 DEF pvars, KeptOrOver, AnAccepted, RowHasProof, AcceptedOnce, Over, Clock
<1> QED BY <1>1, <1>2, <1>3, <1>4, <1>5, <1>6, <1>7, <1>8 DEF PNext

LEMMA ProofInvAlways == PSpec => []ProofInv
<1>1. ProofInv /\ [PNext]_pvars => ProofInv'
  BY TypeOKStep, CheckedStep, AcceptStep DEF ProofInv
<1> QED BY InitProofInv, <1>1, PTL DEF PSpec

(* A proof is accepted at most once (NativeDpopService.reserveProofId),    *)
(* for any number of servers and copies, as long as the kept time exceeds  *)
(* twice the tolerance by more than the clocks' distance and the longest   *)
(* unit of work.                                                           *)
THEOREM AcceptedOnceAlways == PSpec => []AcceptedOnce
<1>1. ProofInv => AcceptedOnce
  BY DEF ProofInv
<1> QED BY ProofInvAlways, <1>1, PTL

(* Whether the retention job has reached a proof's id decides nothing: by  *)
(* then no server takes the proof.                                         *)
THEOREM RemovalNeverDecides == PSpec => []RemovalDecidesNothing
<1>1. ProofInv => RemovalDecidesNothing
  <2> SUFFICES ASSUME ProofInv, storedId # -1, NEW p \in Server, storedId <= Clock(p),
                      NEW s \in Server
               PROVE  ~InTime(Clock(s))
    BY DEF RemovalDecidesNothing
  <2>1. Clock(s) > iat + Tolerance + Delay
    BY RemovedIsOver DEF Over
  <2>2. Clock(s) \in Int /\ iat \in Int
    BY ProofAssumption DEF Clock, ProofInv, PTypeOK
  <2> QED BY <2>1, <2>2, ProofAssumption DEF InTime
<1> QED BY ProofInvAlways, <1>1, PTL

(* The types, and that a stored id is kept long enough.                    *)
THEOREM ProofIdsTyped == PSpec => []PTypeOK
<1>1. ProofInv => PTypeOK
  BY DEF ProofInv
<1> QED BY ProofInvAlways, <1>1, PTL

(* Multiples of a bucket are a bucket apart. *)
LEMMA Multiples ==
  ASSUME NEW b \in Nat \ {0}, NEW p \in Int, NEW q \in Int, p < q
  PROVE  p * b + b <= q * b
<1>1. q = p + 1 + (q - p - 1) /\ q - p - 1 \in Nat
  OBVIOUS
<1>2. \A d \in Nat : d * b >= 0 /\ (p + 1 + d) * b = p * b + b + d * b
  OBVIOUS
<1> QED BY <1>1, <1>2

(* A clock that is at most one bucket later is in the same or the next.    *)
LEMMA NextBucket ==
  ASSUME NEW b \in Nat \ {0}, NEW a \in Nat, NEW c \in Nat, a <= c, c <= a + b
  PROVE  a \div b \in {c \div b, (c \div b) - 1}
<1> DEFINE p == a \div b
           q == c \div b
<1>1. p \in Int /\ p * b <= a /\ a < p * b + b
  OBVIOUS
<1>2. q \in Int /\ q * b <= c /\ c < q * b + b
  OBVIOUS
<1> HIDE DEF p, q
<1>3. p * b \in Int /\ q * b \in Int
  BY <1>1, <1>2
<1>4. ~(q < p)
  BY <1>1, <1>2, <1>3, Multiples
<1>5. ~(p + 1 < q)
  <2>1. (p + 1) * b = p * b + b
    BY <1>1
  <2>2. p + 1 < q => p * b + b + b <= q * b
    BY <1>1, <1>2, <2>1, Multiples
  <2> QED BY <1>1, <1>2, <1>3, <2>2
<1>6. p = q \/ p = q - 1
  BY <1>1, <1>2, <1>4, <1>5
<1> QED BY <1>6 DEF p, q

(* The clock of the server that sent the nonce has not gone back.          *)
SentBefore == issuedAt # -1 => issuedAt <= Clock(issuer)

(* A nonce is good at the server that sent it for a whole bucket, and at   *)
(* the others but for what their clocks may be apart                       *)
(* (nativeDpopNonceCandidates), whatever the length of a bucket.           *)
THEOREM NonceLastsABucket == PSpec => []NonceLasts
<1>1. PInit => SentBefore
  BY DEF PInit, SentBefore
<1>2. ProofInv /\ SentBefore /\ [PNext]_pvars => SentBefore'
  <2> SUFFICES ASSUME ProofInv, SentBefore, [PNext]_pvars PROVE SentBefore'
    OBVIOUS
  <2>1. /\ time \in Nat /\ issuer \in Server /\ issuedAt \in Int
        /\ Offset \in [Server -> Nat]
    BY ProofAssumption DEF ProofInv, PTypeOK
  <2>2. CASE \E s \in Server : Challenge(s)
    BY <2>1, <2>2 DEF Challenge, Clock, SentBefore
  <2>3. CASE PTick
    BY <2>1, <2>3 DEF PTick, Clock, SentBefore
  <2>4. CASE UNCHANGED <<time, issuer, issuedAt>>
    BY <2>4 DEF Clock, SentBefore
  <2> QED BY <2>2, <2>3, <2>4
      DEF PNext, pvars, SignProof, Purge, ReserveProofId, GiveUp, Check
<1>3. ProofInv /\ SentBefore => NonceLasts
  <2> DEFINE apart(s) == IF s = issuer THEN 0 ELSE Skew
  <2> SUFFICES ASSUME ProofInv, SentBefore, issuedAt # -1, NEW s \in Server,
                      issuedAt + apart(s) <= Clock(issuer),
                      Clock(issuer) + apart(s) <= issuedAt + Bucket
               PROVE  Nonce \in Candidates(Clock(s))
    BY DEF NonceLasts
  <2>1. /\ issuedAt \in Nat /\ time \in Nat /\ issuer \in Server
        /\ Bucket \in Nat \ {0} /\ Skew \in Nat
        /\ Offset[s] \in Nat /\ Offset[issuer] \in Nat
    BY ProofAssumption DEF ProofInv, PTypeOK
  <2>2. Clock(s) \in Nat /\ Clock(issuer) \in Nat
    BY <2>1 DEF Clock
  <2>3. /\ Clock(issuer) - Clock(s) <= apart(s)
        /\ Clock(s) - Clock(issuer) <= apart(s)
    <3>1. CASE s = issuer
      BY <2>1, <3>1 DEF Clock
    <3>2. CASE s # issuer
      <4>1. Offset[issuer] - Offset[s] <= Skew /\ Offset[s] - Offset[issuer] <= Skew
        BY <2>1, ProofAssumption
      <4> QED BY <2>1, <3>2, <4>1 DEF Clock
    <3> QED BY <3>1, <3>2
  <2>4. apart(s) \in Nat
    BY <2>1
  <2> HIDE DEF apart
  <2>5. issuedAt <= Clock(s) /\ Clock(s) <= issuedAt + Bucket
    BY <2>1, <2>2, <2>3, <2>4
  <2> QED BY <2>1, <2>2, <2>5, NextBucket DEF Nonce, Candidates, BucketAt
<1> QED BY <1>1, <1>2, <1>3, ProofInvAlways, PTL DEF PSpec
=============================================================================
