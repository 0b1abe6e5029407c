---------------------------- MODULE NativeFamily ----------------------------
(***************************************************************************)
(* One native session and its token family, as the token, refresh, retry   *)
(* and revoke services change it.  Every action is one unit of work that   *)
(* commits, or one statement outside any unit of work; FamilyStores shows  *)
(* that the stores' interleavings amount to this.                          *)
(*                                                                         *)
(* A refresh captures "now" before its unit of work starts, and a rerun    *)
(* of the unit of work uses the same "now" (NativeRefreshService.rotate).  *)
(* The parameter "at" is that captured time: any time up to the clock.     *)
(*                                                                         *)
(* A request that is refused without a write (an unknown or revoked token, *)
(* a proof that does not verify, an expired token, RETRY_IN_PROGRESS)      *)
(* leaves these variables unchanged; Refused tells when that happens.      *)
(***************************************************************************)
EXTENDS FamilyTables

CONSTANTS MaxClock,   \* bound: the last date
          MaxPairs    \* bound: pairs one family may issue

ASSUME BoundAssumption == MaxClock \in Nat /\ MaxPairs \in Nat

VARIABLES
  clock,       \* Clock.now() of the deployment
  code,        \* the authorization code: "unspent" or "spent"
  session,     \* "none", "live" (isValid, revokedAt absent) or "ended"
  bound,       \* the session carries a proofKeyThumbprint
  absolute,    \* session.expiresAt, the expiresAt of every refresh token
  authority,   \* account, application, grant and idle deadline all permit
  refresh,     \* the family's refresh tokens
  access       \* the family's access tokens

vars == <<clock, code, session, bound, absolute, authority, refresh, access>>

Pair == DOMAIN refresh

(* What verify and reserve make of the request's DPoP proof. *)
Proof == {"refused",    \* missing, malformed, stale, wrong key, no nonce
          "replayed",   \* verifies, but its jti is already reserved
          "fresh"}

Init ==
  /\ clock = 1
  /\ code = "unspent"
  /\ session = "none"
  /\ bound = FALSE
  /\ absolute = None
  /\ authority \in BOOLEAN
  /\ refresh = <<>>
  /\ access = <<>>

-----------------------------------------------------------------------------
(* Issuing a pair: NativeCredentialIssuer.issuePair. *)

IssuedRefresh(table, generation, expiresAt, from) ==
  Append(table, NewRefresh(generation, expiresAt, from))

IssuedAccess(table, generation, now, expiresAt) ==
  Append(table, NewAccess(generation, now, expiresAt))

(* revokeFamily: the session ends and every token with it.  The unit of    *)
(* work may have written the refresh tokens before: table is what it left. *)
EndFamily(table) ==
  /\ session' = "ended"
  /\ refresh' = RevokeAll(table)
  /\ access' = RevokeAll(access)
  /\ UNCHANGED <<clock, code, bound, absolute, authority>>

(* Fault: the session row is not looked at. *)
HasAuthoritySessionless(at) == authority /\ absolute > at

(* loadAuthority: the session is live and nothing above it refuses.  The   *)
(* deadline compared is the captured one.                                  *)
HasAuthority(at) == session = "live" /\ authority /\ absolute > at

(***************************************************************************)
(* NativeTokenService.consumeCode: the code is spent, the session and the  *)
(* first pair are stored, bound to the key of the request's proof if it    *)
(* carries one.  A full session cap throws, an expired code and a replayed *)
(* proof are refused: nothing is stored then, and the code stays usable.   *)
(***************************************************************************)
Exchange(withProof, at) ==
  /\ code = "unspent"
  /\ authority
  /\ MaxPairs > 0
  /\ code' = "spent"
  /\ session' = "live"
  /\ bound' = withProof
  /\ absolute' = at + AbsoluteLifetime
  /\ refresh' = IssuedRefresh(refresh, 1, absolute', None)
  /\ access' = IssuedAccess(access, 1, at, absolute')
  /\ UNCHANGED <<clock, authority>>

(* A code is also spent by a wrong PKCE verifier (exchange), and by a      *)
(* consumeCode that finds authority moved since the code was issued.       *)
SpendCode ==
  /\ code = "unspent"
  /\ code' = "spent"
  /\ UNCHANGED <<clock, session, bound, absolute, authority, refresh, access>>

-----------------------------------------------------------------------------
(* NativeRefreshService.rotate with token i, one action per outcome. *)

(* The token is found, and a bound family's proof verifies. *)
Presented(i, proof) ==
  /\ i \in Pair
  /\ ~refresh[i].revoked
  /\ bound => proof # "refused"

(* claimAndRotate: spend i, retire the access tokens, issue the next pair, *)
(* and link it when the family is bound.                                   *)
ClaimAndRotate(i, at) ==
  /\ LET next == Len(refresh) + 1
         generation == refresh[i].generation + 1
         claimed == ClaimRefresh(refresh, i, at)
         issued == IssuedRefresh(claimed, generation, absolute, i)
     IN  /\ refresh' = IF bound THEN LinkPair(issued, i, next) ELSE issued
         /\ access' = IssuedAccess(RetireAccessTokens(access), generation,
                                   at, absolute)
  /\ UNCHANGED <<clock, code, session, bound, absolute, authority>>

Rotate(i, proof, at) ==
  /\ Presented(i, proof)
  /\ bound => proof = "fresh"
  /\ ~refresh[i].spent
  /\ refresh[i].expiresAt > at
  /\ HasAuthority(at)
  /\ Len(refresh) < MaxPairs
  /\ ClaimAndRotate(i, at)

(* The bound retry of a spent token may go ahead at all. *)
Retryable(i, at) ==
  /\ InsideRetryWindow(refresh[i], at)
  /\ HasUnusedSuccessor(refresh, access, i)

(* retryOrReplay: claim the retry, revoke the unused successor, issue a    *)
(* replacement of the same generation and link it instead.                 *)
ClaimAndReplace(i, at) ==
  /\ LET old == refresh[i].next
         next == Len(refresh) + 1
         generation == refresh[old].generation
         claimed == ClaimRetry(refresh, i, at)
         issued == IssuedRefresh(RevokePair(claimed, old), generation,
                                 absolute, i)
     IN  /\ refresh' = LinkPair(issued, i, next)
         /\ access' = IssuedAccess(RevokePair(access, old), generation,
                                   at, absolute)
  /\ UNCHANGED <<clock, code, session, bound, absolute, authority>>

Replace(i, proof, at) ==
  /\ Presented(i, proof)
  /\ bound /\ proof = "fresh"
  /\ refresh[i].spent
  /\ HasAuthority(at)
  /\ Retryable(i, at)
  /\ CanClaimRetry(refresh, i, at)
  /\ Len(refresh) < MaxPairs
  /\ ClaimAndReplace(i, at)

(* replay: a spent token that may not be retried ends the family.  With    *)
(* authority gone this comes before the proof id is reserved.              *)
Replay(i, proof, at) ==
  /\ Presented(i, proof)
  /\ refresh[i].spent
  /\ \/ ~bound
     \/ bound /\ ~HasAuthority(at)
     \/ bound /\ proof = "fresh" /\ HasAuthority(at) /\ ~Retryable(i, at)
  /\ EndFamily(refresh)

(* The same after the retry was claimed: the successor was unused when it  *)
(* was looked up, and its first use landed before revokeUnusedSuccessor.   *)
ReplayUsed(i, proof, at) ==
  /\ Presented(i, proof)
  /\ bound /\ proof = "fresh"
  /\ refresh[i].spent
  /\ HasAuthority(at)
  /\ InsideRetryWindow(refresh[i], at)
  /\ ~HasUnusedSuccessor(refresh, access, i)
  /\ CanClaimRetry(refresh, i, at)
  /\ EndFamily(ClaimRetry(refresh, i, at))

(* Every other request is answered with a failure and writes nothing. *)
Refused(i, proof, at) ==
  \/ ~Presented(i, proof)
  \/ /\ ~refresh[i].spent
     /\ \/ refresh[i].expiresAt <= at
        \/ ~HasAuthority(at)
        \/ bound /\ proof = "replayed"
  \/ /\ refresh[i].spent /\ bound /\ HasAuthority(at)
     /\ \/ proof = "replayed"
        \/ Retryable(i, at) /\ ~CanClaimRetry(refresh, i, at)

-----------------------------------------------------------------------------
(* NativeRevokeService.revoke with either token of pair i, spent or not.   *)
RevokeToken(i, proof) ==
  /\ i \in Pair
  /\ bound => proof = "fresh"
  /\ EndFamily(refresh)

(* NativeSessionRevocationService.revokeIn: sign-out with an access token. *)
RevokeNativeSession ==
  /\ session = "live"
  /\ EndFamily(refresh)

(* SessionRevoker.revokeFound ends a session picked from the device list;  *)
(* its tokens stay as they are.                                            *)
RevokeSelected ==
  /\ session = "live"
  /\ session' = "ended"
  /\ UNCHANGED <<clock, code, bound, absolute, authority, refresh, access>>

(* NativeAccessValidator.validate marks the first use of a bound access    *)
(* token.  The reads that admit the token come earlier and may be stale by *)
(* the time of this statement, so only its own guard is relied on.         *)
UseAccess(i) ==
  /\ bound
  /\ i \in Pair
  /\ CanMarkFirstUse(access, i)
  /\ access' = MarkFirstUse(access, i)
  /\ UNCHANGED <<clock, code, session, bound, absolute, authority, refresh>>

(* Environment: what SessionAuthority decides, and time. *)
AuthorityMoves ==
  /\ authority' = ~authority
  /\ UNCHANGED <<clock, code, session, bound, absolute, refresh, access>>

Tick ==
  /\ clock < MaxClock
  /\ clock' = clock + 1
  /\ UNCHANGED <<code, session, bound, absolute, authority, refresh, access>>

Next ==
  \/ Tick
  \/ AuthorityMoves
  \/ RevokeNativeSession
  \/ RevokeSelected
  \/ SpendCode
  \/ \E withProof \in BOOLEAN, at \in 1..clock : Exchange(withProof, at)
  \/ \E i \in Pair : UseAccess(i)
  \/ \E i \in Pair, proof \in Proof :
       \/ RevokeToken(i, proof)
       \/ \E at \in 1..clock :
            \/ Rotate(i, proof, at)
            \/ Replace(i, proof, at)
            \/ Replay(i, proof, at)
            \/ ReplayUsed(i, proof, at)

Spec == Init /\ [][Next]_vars

-----------------------------------------------------------------------------
(* Properties *)

(* Every row has the types of its columns, dates included, whatever        *)
(* rotation, retry and revocation wrote; refresh and access tokens are     *)
(* issued in pairs (insertCredentialPair).                                 *)
TypeOK ==
  /\ clock \in Time
  /\ code \in {"unspent", "spent"}
  /\ session \in {"none", "live", "ended"}
  /\ bound \in BOOLEAN
  /\ absolute \in Time
  /\ authority \in BOOLEAN
  /\ refresh \in Seq(RefreshRow)
  /\ access \in Seq(AccessRow)
  /\ Len(refresh) = Len(access)

(* Whatever is retried, replayed or raced, at most one pair of a family    *)
(* can be used: no two refresh tokens are live, and a live access token's  *)
(* own refresh token is live too (claimAndRotate and retryOrReplay retire  *)
(* what they supersede).                                                   *)
OneLivePair ==
  /\ \A i, j \in Pair : Live(refresh[i]) /\ Live(refresh[j]) => i = j
  /\ \A i \in Pair : Live(access[i]) => Live(refresh[i])

(* A refresh token is answered with at most one pair, or two if the family *)
(* is bound; of two, the first was withdrawn before anyone used it.  The   *)
(* retry claim is what keeps a third answer away: it outlasts the window.  *)
AnsweredAtMostTwice ==
  \A j, k \in Pair : j < k /\ refresh[j].from = refresh[k].from =>
    /\ bound
    /\ refresh[j].revoked /\ ~access[j].firstUsed
    /\ \A m \in Pair : refresh[m].from = refresh[j].from => m \in {j, k}

(* A pair the client has used is withdrawn only together with its session: *)
(* a late retry never takes the pair away from a client that uses it.      *)
UsedPairKept ==
  \A i \in Pair : access[i].firstUsed /\ refresh[i].revoked
                     => session = "ended"

(* The tokens not withdrawn form one chain: no two of one generation, and  *)
(* a live token is of a later generation than every spent one.             *)
OneChain ==
  \A i, j \in Pair : i # j /\ ~refresh[i].revoked /\ ~refresh[j].revoked =>
    /\ refresh[i].generation # refresh[j].generation
    /\ Live(refresh[i]) => refresh[i].generation > refresh[j].generation

(***************************************************************************)
(* What makes those inductive: how the rows of the family hang together.   *)
(***************************************************************************)
RowsLinked ==
  \A i \in Pair :
    /\ refresh[i].from \in 0..(i - 1)
    /\ refresh[i].from = None => i = 1
    /\ refresh[i].from # None => refresh[refresh[i].from].spent
    /\ refresh[i].next \in 0..Len(refresh)
    /\ refresh[i].next # None => refresh[refresh[i].next].from = i
    /\ access[i].firstUsed => bound

(* A retry claim ends no earlier than the window it was made in, and every *)
(* token answered twice carries one.                                       *)
ClaimOutlastsWindow ==
  /\ \A i \in Pair : refresh[i].retryClaimUntil # None =>
       /\ refresh[i].spent
       /\ refresh[i].retryClaimUntil >= refresh[i].consumedAt + RetryWindow
  /\ \A j, k \in Pair : j < k /\ refresh[j].from = refresh[k].from =>
       refresh[refresh[j].from].retryClaimUntil # None

(* The session row exists exactly when the family has a pair. *)
SessionOwnsPairs ==
  /\ session = "none" <=> refresh = <<>>
  /\ code = "unspent" => session = "none"

IndInv ==
  /\ TypeOK
  /\ OneLivePair
  /\ AnsweredAtMostTwice
  /\ UsedPairKept
  /\ OneChain
  /\ RowsLinked
  /\ ClaimOutlastsWindow
  /\ SessionOwnsPairs

(* Once a session has ended, no step issues a pair for it or revives it,   *)
(* whatever authority, proof or captured time a late request brings.       *)
EndedForGood ==
  [][session = "ended" =>
       /\ session' = "ended"
       /\ Len(refresh') = Len(refresh)
       /\ \A i \in Pair : Live(refresh'[i]) => Live(refresh[i])]_vars

(***************************************************************************)
(* A family of rows is a token family.                                     *)
(***************************************************************************)
StatusOf(row) == IF row.revoked THEN "withdrawn"
                 ELSE IF row.spent THEN "exchanged" ELSE "held"

FamilyOpen == IF session = "none" THEN "no"
              ELSE IF session = "live" THEN "yes" ELSE "ended"

PairStatus == [i \in Pair |-> StatusOf(refresh[i])]
PairParent == [i \in Pair |-> refresh[i].from]
PairsUsed == {i \in Pair : access[i].firstUsed}

Promise == INSTANCE TokenFamily WITH
  open <- FamilyOpen, status <- PairStatus,
  parent <- PairParent, used <- PairsUsed

(* The row-level family keeps the promise of TokenFamily.                  *)
KeepsPromise == Promise!ASpec
=============================================================================
