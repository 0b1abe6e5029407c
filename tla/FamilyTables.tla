---------------------------- MODULE FamilyTables ----------------------------
(***************************************************************************)
(* The rows of one native token family and the statements that read and    *)
(* write them: NativeRotationStore and NativeCredentialStore.  Both the    *)
(* Postgres and the Mongo adapter give every statement the guard stated    *)
(* here; they differ only in how statements of two units of work           *)
(* interleave, which is the subject of module FamilyStores.                *)
(*                                                                         *)
(* The pair issued k-th is number k: its refresh token is row k of a       *)
(* refresh table and its access token row k of an access table, both       *)
(* sequences.  Token values and their hashes are abstracted to k.          *)
(***************************************************************************)
EXTENDS Integers, Sequences

CONSTANTS RetryWindow,       \* NATIVE_DPOP_RETRY_WINDOW_MS
          AccessLifetime,    \* NATIVE_ACCESS_LIFETIME_MS
          AbsoluteLifetime   \* application.policy.absoluteLifetimeMs

ASSUME LifetimeAssumption ==
  /\ RetryWindow \in Nat \ {0}
  /\ AccessLifetime \in Nat \ {0}
  /\ AbsoluteLifetime \in Nat \ {0}

None == 0                    \* an absent date, link or number
Time == Nat                  \* dates; the clock starts at 1

(***************************************************************************)
(* A stored refresh token.  "next" stands for successorRefreshHash and     *)
(* successorAccessHash, always written together with the hashes of one     *)
(* pair.  "from" is a history field: the token whose spending issued it.   *)
(***************************************************************************)
RefreshRow == [generation : Nat, expiresAt : Time, spent : BOOLEAN,
               revoked : BOOLEAN, consumedAt : Time, next : Nat,
               retryClaimUntil : Time, from : Nat]

AccessRow == [generation : Nat, expiresAt : Time, spent : BOOLEAN,
              revoked : BOOLEAN, firstUsed : BOOLEAN]

-----------------------------------------------------------------------------
(* insertCredentialPair: both rows of a pair, in one statement. *)

NewRefresh(generation, expiresAt, from) ==
  [generation |-> generation, expiresAt |-> expiresAt, spent |-> FALSE,
   revoked |-> FALSE, consumedAt |-> None, next |-> None,
   retryClaimUntil |-> None, from |-> from]

(* The access token lives AccessLifetime, capped by the session's deadline. *)
NewAccess(generation, now, absolute) ==
  [generation |-> generation,
   expiresAt |-> IF now + AccessLifetime < absolute THEN now + AccessLifetime
                 ELSE absolute,
   spent |-> FALSE, revoked |-> FALSE, firstUsed |-> FALSE]

-----------------------------------------------------------------------------
(* A row that may still be used, and the guarded updates. *)

Live(row) == ~row.spent /\ ~row.revoked

Retired(row) == [row EXCEPT !.spent = TRUE, !.revoked = TRUE]

(* claimRefresh spends token i; it is refused when i is already spent. *)
ClaimRefresh(refresh, i, now) ==
  [refresh EXCEPT ![i].spent = TRUE, ![i].consumedAt = now]

(* Fault: the rotation forgets the access tokens of the spent pair. *)
RetireNothing(access) == access

(* retireAccessTokens ends every unspent access token of the family. *)
RetireAccessTokens(access) ==
  [k \in DOMAIN access |-> IF access[k].spent THEN access[k]
                           ELSE Retired(access[k])]

(* linkSuccessors and linkReplacement both write the successor hashes. *)
LinkPair(refresh, i, pair) == [refresh EXCEPT ![i].next = pair]

(* claimRetry's guard, and its write. *)
CanClaimRetry(refresh, i, now) ==
  /\ refresh[i].spent
  /\ ~refresh[i].revoked
  /\ refresh[i].retryClaimUntil <= now     \* None, or a claim that lapsed

(* Fault: the claim is computed backwards from the request. *)
ClaimRetryBackwards(refresh, i, now) ==
  [refresh EXCEPT ![i].retryClaimUntil = now - RetryWindow]

(* Fault: the claim covers the request only, not the window after it. *)
ClaimRetryNow(refresh, i, now) ==
  [refresh EXCEPT ![i].retryClaimUntil = now]

ClaimRetry(refresh, i, now) ==
  [refresh EXCEPT ![i].retryClaimUntil = now + RetryWindow]

(* revokeUnusedSuccessor's two guards, and its two writes. *)
CanRevokeSuccessor(refresh, access, pair) ==
  Live(refresh[pair]) /\ Live(access[pair]) /\ ~access[pair].firstUsed

(* Fault: the superseded pair is left as it was. *)
RevokeNoPair(table, pair) == table

RevokePair(table, pair) == [table EXCEPT ![pair] = Retired(@)]

(* revokeFamily and revokeSessionCredentials end every row, spent or not. *)
RevokeAll(table) == [k \in DOMAIN table |-> Retired(table[k])]

(* markFirstUse's guard, and its write. *)
CanMarkFirstUse(access, i) == Live(access[i]) /\ ~access[i].firstUsed

MarkFirstUse(access, i) == [access EXCEPT ![i].firstUsed = TRUE]

-----------------------------------------------------------------------------
(* NativeBoundRetryService: may the spent token i be answered once more? *)

(* Fault: the window includes its last instant. *)
InsideClosedWindow(row, now) ==
  /\ row.expiresAt > now
  /\ row.consumedAt # None
  /\ row.consumedAt <= now
  /\ now - row.consumedAt <= RetryWindow

InsideRetryWindow(row, now) ==
  /\ row.expiresAt > now
  /\ row.consumedAt # None
  /\ row.consumedAt <= now
  /\ now - row.consumedAt < RetryWindow

(* Fault: the successor is looked up without asking whether it was used. *)
HasSuccessor(refresh, access, i) ==
  LET pair == refresh[i].next
      generation == refresh[i].generation + 1
  IN  /\ pair # None
      /\ refresh[pair].generation = generation
      /\ Live(refresh[pair]) /\ Live(access[pair])

(***************************************************************************)
(* findUnusedSuccessor: the linked pair is of the next generation, both    *)
(* its tokens are live, and no access token of that generation was ever    *)
(* used.                                                                   *)
(***************************************************************************)
HasUnusedSuccessor(refresh, access, i) ==
  LET pair == refresh[i].next
      generation == refresh[i].generation + 1
  IN  /\ pair # None
      /\ refresh[pair].generation = generation
      /\ access[pair].generation = generation
      /\ CanRevokeSuccessor(refresh, access, pair)
      /\ \A k \in DOMAIN access :
           access[k].generation = generation => ~access[k].firstUsed
=============================================================================
