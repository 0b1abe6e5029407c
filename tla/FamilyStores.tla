---------------------------- MODULE FamilyStores ----------------------------
(***************************************************************************)
(* The units of work of NativeFamily, statement by statement, as the       *)
(* Postgres and the Mongo adapter run them against one family at once.     *)
(*                                                                         *)
(* Postgres (read committed): the statement that finds the family locks    *)
(* its session row and is refused at once when another unit of work holds  *)
(* it; a statement reads what is committed and what its own unit of work   *)
(* wrote.  Mongo: a unit of work reads a snapshot, and its write of a      *)
(* document is refused when another open unit of work wrote the document,  *)
(* or when a write of it was committed since the snapshot.                 *)
(*                                                                         *)
(* A refused unit of work runs again, MaxAttempts runs at most.  The time  *)
(* "at" of a request is captured once, before its first run.               *)
(*                                                                         *)
(* The code exchange and the marking of a first use are the atomic actions *)
(* of NativeFamily.  The authority above the session stays granted here.   *)
(***************************************************************************)
EXTENDS NativeFamily

CONSTANTS Backend,       \* "postgres" or "mongo"
          Worker,        \* units of work that run at once
          MaxRequests,   \* bound: requests on the family
          MaxAttempts,   \* MAX_UNIT_OF_WORK_ATTEMPTS, MAX_TRANSACTION_ATTEMPTS
          MaxLost        \* bound: commits that are aborted or not answered

ASSUME StoresAssumption ==
  /\ Backend \in {"postgres", "mongo"}
  /\ MaxAttempts \in Nat \ {0}
  /\ MaxRequests \in Nat /\ MaxLost \in Nat
  /\ MaxPairs > MaxRequests   \* the bound on pairs never stops a request

VARIABLES
  tx,          \* per worker: the unit of work it runs
  reserved,    \* native_dpop_proof_ids, as committed
  issuedFor,   \* history: per pair, the proof that was answered with it
  requests,    \* requests started so far
  lost         \* commits that were aborted or not answered so far

svars == <<vars, tx, reserved, issuedFor, requests, lost>>

-----------------------------------------------------------------------------
(* The family's rows and documents, and what a unit of work sees of them. *)

SessionDoc == <<"session", 0>>
RefreshDoc(k) == <<"refresh", k>>
AccessDoc(k) == <<"access", k>>
TokenDocs(db) == {RefreshDoc(k) : k \in DOMAIN db.refresh}
                   \cup {AccessDoc(k) : k \in DOMAIN db.access}

NoTables == [session |-> "none", refresh |-> <<>>, access |-> <<>>]
Committed == [session |-> session, refresh |-> refresh, access |-> access]

(* base, with the documents of docs as top has them. *)
Overlay(base, top, docs) ==
  [session |-> IF SessionDoc \in docs THEN top.session ELSE base.session,
   refresh |-> [k \in DOMAIN base.refresh |->
                  IF RefreshDoc(k) \in docs THEN top.refresh[k]
                  ELSE base.refresh[k]],
   access |-> [k \in DOMAIN base.access |->
                  IF AccessDoc(k) \in docs THEN top.access[k]
                  ELSE base.access[k]]]

Kind == {"refresh",   \* NativeRefreshService.rotate
         "revoke",    \* NativeRevokeService.revoke
         "signOut",   \* NativeSessionRevocationService.revokeNativeSession
         "select"}    \* SessionRevoker.revokeById

(***************************************************************************)
(* A unit of work.  step: its next statement; row: the token as found;     *)
(* view: its snapshot with its own writes; wrote: the documents it wrote;  *)
(* stale: the documents committed since its snapshot; proofs: the proof id *)
(* it reserved; made: the generation of the pair it inserts; stored: its   *)
(* writes are committed.                                                   *)
(***************************************************************************)
Idle == [step |-> "idle", kind |-> "refresh", token |-> None, proof |-> None,
         at |-> None, run |-> 0, row |-> <<>>, view |-> NoTables, wrote |-> {},
         stale |-> {}, locks |-> FALSE, proofs |-> {}, made |-> None,
         stored |-> FALSE]

Open == {w \in Worker : tx[w].step # "idle"}

SInit ==
  /\ Init
  /\ authority = TRUE
  /\ tx = [w \in Worker |-> Idle]
  /\ reserved = {}
  /\ issuedFor = <<>>
  /\ requests = 0
  /\ lost = 0

Seen(w) == IF Backend = "mongo" THEN tx[w].view
           ELSE Overlay(Committed, tx[w].view, tx[w].wrote)

ProofId(t) == <<t.kind, t.token, t.proof>>

-----------------------------------------------------------------------------
(* The runner: PostgresUnitOfWorkRunner.run, withMajorityTransaction. *)

(* Nothing of the family is committed by this step. *)
NothingStored == UNCHANGED <<vars, reserved, issuedFor, requests>>

Goto(w, step) == /\ tx' = [tx EXCEPT ![w].step = step]
                 /\ NothingStored /\ UNCHANGED lost

(* The work has returned and has nothing to commit, or the run is over. *)
Leave(w) == /\ tx' = [tx EXCEPT ![w] = Idle]
            /\ NothingStored /\ UNCHANGED lost

(* A rerun starts from nothing, but for what the request captured. *)
Rerun(t) == [Idle EXCEPT !.step = "find", !.kind = t.kind, !.token = t.token,
                         !.proof = t.proof, !.at = t.at, !.run = t.run + 1,
                         !.stored = t.stored]

(* Fault: the runs are not counted. *)
RerunAlways(t) == Rerun(t)

(* A retryable abort: roll back and run again, or give up. *)
AfterAbort(t) == IF t.run < MaxAttempts THEN Rerun(t) ELSE Idle

Refuse(w) == /\ tx' = [tx EXCEPT ![w] = AfterAbort(@)]
             /\ NothingStored /\ UNCHANGED lost

(***************************************************************************)
(* The documents the next statement of w writes: those its filter matches  *)
(* among the ones it sees.                                                 *)
(***************************************************************************)
Targets(w) ==
  LET t == tx[w]
      db == Seen(w)
  IN CASE t.step = "claimRefresh" ->
            {RefreshDoc(k) : k \in {i \in {t.token} : ~db.refresh[i].spent}}
       [] t.step = "retire" ->
            {AccessDoc(k) : k \in {i \in DOMAIN db.access : ~db.access[i].spent}}
       [] t.step = "claimRetry" ->
            {RefreshDoc(k) : k \in {i \in {t.token} :
                                      CanClaimRetry(db.refresh, i, t.at)}}
       [] t.step = "revokeSuccessor" ->
            {RefreshDoc(k) : k \in {i \in {t.row.next} : Live(db.refresh[i])}}
              \cup {AccessDoc(k) : k \in {i \in {t.row.next} :
                                           CanMarkFirstUse(db.access, i)}}
       [] t.step = "endSession" ->
            {SessionDoc : x \in {y \in {t.kind} : y \in {"refresh", "revoke"}
                                                    \/ db.session = "live"}}
       [] t.step = "endTokens" -> TokenDocs(db)
       [] OTHER -> {}

(* MongoDB refuses the later writer at once. *)
Conflicts(w) ==
  /\ Backend = "mongo"
  /\ \/ \E doc \in Targets(w) \ tx[w].wrote :
          \/ doc \in tx[w].stale
          \/ \E v \in Worker \ {w} : doc \in tx[v].wrote
     \/ tx[w].step = "reserve"
          /\ \E v \in Worker \ {w} : ProofId(tx[w]) \in tx[v].proofs

(* Postgres makes a write wait for the row's lock, and an insert for the   *)
(* outcome of another insert of the same key.                              *)
Waits(w) ==
  /\ Backend = "postgres"
  /\ \E v \in Worker \ {w} :
       \/ Targets(w) \cap tx[v].wrote # {}
       \/ SessionDoc \in Targets(w) /\ tx[v].locks
       \/ tx[w].step = "reserve" /\ ProofId(tx[w]) \in tx[v].proofs

(* One statement: its write goes into the unit of work's own view. *)
Write(w, db, step) ==
  /\ ~Waits(w)
  /\ \/ Conflicts(w) /\ Refuse(w)
     \/ /\ ~Conflicts(w)
        /\ tx' = [tx EXCEPT ![w].view = db, ![w].wrote = @ \cup Targets(w),
                            ![w].step = step]
        /\ NothingStored /\ UNCHANGED lost

-----------------------------------------------------------------------------
(* A request arrives, with a new proof or as a copy of an earlier request; *)
(* its time is read before the unit of work starts.                        *)
Known == reserved \cup {ProofId(tx[w]) : w \in Open}

Start(w, kind, i, n) ==
  /\ tx[w].step = "idle"
  /\ session # "none"
  /\ requests < MaxRequests
  /\ n = requests + 1 \/ <<kind, i, n>> \in Known
  /\ tx' = [tx EXCEPT ![w] = [Idle EXCEPT !.step = "find", !.kind = kind,
                                          !.token = i, !.proof = n,
                                          !.at = clock, !.run = 1]]
  /\ requests' = requests + 1
  /\ UNCHANGED <<vars, reserved, issuedFor, lost>>

(* What rotate does once it has read the token, the session and authority. *)
AfterFind(t, row) ==
  LET hasAuthority == HasAuthority(t.at)
  IN  IF row.revoked THEN "leave"
      ELSE IF row.spent /\ (~bound \/ ~hasAuthority) THEN "endSession"
      ELSE IF ~row.spent /\ (row.expiresAt <= t.at \/ ~hasAuthority) THEN "leave"
      ELSE IF bound THEN "reserve" ELSE "claimRefresh"

(* Fault: the family is read without its lock. *)
FamilyTakenNever(w) == FALSE

(* findPresentedCredential and findSessionOfAccount: FOR NO KEY UPDATE     *)
(* NOWAIT on Postgres.                                                     *)
FamilyTaken(w) ==
  Backend = "postgres" /\ \E v \in Worker \ {w} : tx[v].locks

Find(w) ==
  LET t == tx[w]
      row == IF t.token = None THEN <<>> ELSE refresh[t.token]
      step == CASE t.kind = "refresh" -> AfterFind(t, row)
                [] t.kind = "revoke" -> IF bound THEN "reserve" ELSE "endSession"
                [] OTHER -> IF session = "live" THEN "endSession" ELSE "leave"
  IN  /\ t.step = "find"
      /\ \/ FamilyTaken(w) /\ Refuse(w)
         \/ ~FamilyTaken(w) /\ step = "leave" /\ Leave(w)
         \/ /\ ~FamilyTaken(w) /\ step # "leave"
            /\ tx' = [tx EXCEPT ![w].view = Committed, ![w].row = row,
                                ![w].locks = Backend = "postgres",
                                ![w].step = step]
            /\ NothingStored /\ UNCHANGED lost

(* Fault: the proof id has no unique index. *)
NeverReplayed(t) == FALSE

ProofReplayed(t) == ProofId(t) \in reserved

(* reserveProofId; a proof id already stored ends the run with a refusal.  *)
Reserve(w) ==
  LET t == tx[w]
      step == IF t.kind = "revoke" THEN "endSession"
              ELSE IF ~t.row.spent THEN "claimRefresh"
              ELSE IF InsideRetryWindow(t.row, t.at) THEN "successor"
              ELSE "endSession"
  IN  /\ t.step = "reserve"
      /\ ~Waits(w)
      /\ \/ Conflicts(w) /\ Refuse(w)
         \/ ~Conflicts(w) /\ ProofReplayed(t) /\ Leave(w)
         \/ /\ ~Conflicts(w) /\ ~ProofReplayed(t)
            /\ tx' = [tx EXCEPT ![w].proofs = {ProofId(t)}, ![w].step = step]
            /\ NothingStored /\ UNCHANGED lost

(* Fault: the claim is checked, and neither it nor the retiring written.   *)
ClaimUnwritten(w) ==
  /\ tx[w].step = "claimRefresh"
  /\ Goto(w, IF Seen(w).refresh[tx[w].token].spent THEN "endSession" ELSE "issue")

(* claimRefresh *)
Claim(w) ==
  LET t == tx[w]
      db == Seen(w)
  IN  /\ t.step = "claimRefresh"
      /\ IF db.refresh[t.token].spent THEN Goto(w, "endSession")
         ELSE Write(w, [db EXCEPT !.refresh = ClaimRefresh(@, t.token, t.at)],
                    "retire")

(* retireAccessTokens *)
Retire(w) ==
  LET db == Seen(w)
  IN  /\ tx[w].step = "retire"
      /\ Write(w, [db EXCEPT !.access = RetireAccessTokens(@)], "issue")

(* findUnusedSuccessor, of the token as it was found. *)
Lookup(w) ==
  LET t == tx[w]
      db == Seen(w)
      found == [db.refresh EXCEPT ![t.token] = t.row]
  IN  /\ t.step = "successor"
      /\ Goto(w, IF HasUnusedSuccessor(found, db.access, t.token)
                 THEN "claimRetry" ELSE "endSession")

(* claimRetry; RETRY_IN_PROGRESS is a normal return, and commits. *)
ClaimTheRetry(w) ==
  LET t == tx[w]
      db == Seen(w)
  IN  /\ t.step = "claimRetry"
      /\ IF CanClaimRetry(db.refresh, t.token, t.at)
         THEN Write(w, [db EXCEPT !.refresh = ClaimRetry(@, t.token, t.at)],
                    "revokeSuccessor")
         ELSE Goto(w, "commit")

(* Fault: only the refresh token of the superseded pair is revoked. *)
RevokeRefreshOnly(w) ==
  LET db == Seen(w)
      pair == tx[w].row.next
  IN  /\ tx[w].step = "revokeSuccessor"
      /\ Write(w, [db EXCEPT !.refresh = RevokePair(@, pair)], "issue")

(* revokeUnusedSuccessor: two updates, and REVOKED only if both match.     *)
RevokeSuccessor(w) ==
  LET t == tx[w]
      db == Seen(w)
      pair == t.row.next
  IN  /\ t.step = "revokeSuccessor"
      /\ Write(w,
           [db EXCEPT
              !.refresh = IF Live(@[pair]) THEN RevokePair(@, pair) ELSE @,
              !.access = IF CanMarkFirstUse(@, pair) THEN RevokePair(@, pair)
                         ELSE @],
           IF CanRevokeSuccessor(db.refresh, db.access, pair) THEN "issue"
           ELSE "endSession")

(* issuePair and the link to it.  The link's guard, the token's own claim, *)
(* was written by this unit of work.                                       *)
Issue(w) ==
  /\ tx[w].step = "issue"
  /\ tx' = [tx EXCEPT ![w].made = tx[w].row.generation + 1,
                      ![w].step = "commit"]
  /\ NothingStored /\ UNCHANGED lost

(* The session's end: revokeFamily by id, revokeSession if still live.     *)
EndSession(w) ==
  LET t == tx[w]
      db == Seen(w)
  IN  /\ t.step = "endSession"
      /\ IF Targets(w) = {} THEN Goto(w, "commit")
         ELSE Write(w, [db EXCEPT !.session = "ended"],
                    IF t.kind = "select" THEN "commit" ELSE "endTokens")

(* The tokens' end: revokeFamily, revokeSessionCredentials. *)
EndTokens(w) ==
  LET db == Seen(w)
  IN  /\ tx[w].step = "endTokens"
      /\ Write(w, [db EXCEPT !.refresh = RevokeAll(@), !.access = RevokeAll(@)],
               "commit")

-----------------------------------------------------------------------------
(* How a unit of work ends. *)

(* The tables once the unit of work of w is committed. *)
After(w) ==
  LET t == tx[w]
      db == Overlay(Committed, t.view, t.wrote)
      next == Len(db.refresh) + 1
      issued == IssuedRefresh(db.refresh, t.made, absolute, t.token)
  IN  IF t.made = None THEN db
      ELSE [session |-> db.session,
            refresh |-> IF bound THEN LinkPair(issued, t.token, next) ELSE issued,
            access |-> IssuedAccess(db.access, t.made, t.at, absolute)]

Stored(w) ==
  LET t == tx[w]
      db == After(w)
  IN  /\ session' = db.session
      /\ refresh' = db.refresh
      /\ access' = db.access
      /\ reserved' = reserved \cup t.proofs
      /\ issuedFor' = IF t.made = None THEN issuedFor
                      ELSE Append(issuedFor, ProofId(t))
      /\ UNCHANGED <<clock, code, bound, absolute, authority, requests>>

(* Every other open unit of work that has a snapshot now reads the past.   *)
Notify(unit, docs) ==
  [v \in Worker |->
     IF Backend = "mongo" /\ tx[v].step \notin {"idle", "find"}
     THEN [unit[v] EXCEPT !.stale = @ \cup docs] ELSE unit[v]]

Commit(w) ==
  /\ tx[w].step = "commit"
  /\ Stored(w)
  /\ tx' = [Notify(tx, tx[w].wrote) EXCEPT ![w] = Idle]
  /\ UNCHANGED lost

(* COMMIT answered with an abort, or found aborted by pg_xact_status.      *)
CommitAborted(w) ==
  /\ tx[w].step = "commit"
  /\ lost < MaxLost
  /\ lost' = lost + 1
  /\ tx' = [tx EXCEPT ![w] = AfterAbort(@)]
  /\ NothingStored

(* Fault: a commit without an answer is run again. *)
RerunUnknown(t) == AfterAbort([t EXCEPT !.stored = TRUE])

(* UnknownTransactionOutcomeError leaves run, which does not run again.    *)
AfterUnknown(t) == Idle

(* No answer, and no way to learn the outcome. *)
CommitUnknown(w) ==
  /\ tx[w].step = "commit"
  /\ lost < MaxLost
  /\ lost' = lost + 1
  /\ \/ /\ Stored(w)
        /\ tx' = [Notify(tx, tx[w].wrote) EXCEPT ![w] = AfterUnknown(tx[w])]
     \/ NothingStored /\ tx' = [tx EXCEPT ![w] = Idle]

(* Any other store failure rolls back and is not retried. *)
Fail(w) ==
  /\ tx[w].step # "idle"
  /\ Leave(w)

-----------------------------------------------------------------------------
(* Statements outside the units of work above. *)

Sign(withProof) ==
  /\ Exchange(withProof, clock)
  /\ issuedFor' = <<<<"exchange", None, None>>>>
  /\ UNCHANGED <<tx, reserved, requests, lost>>

(* markFirstUse waits for an open unit of work that wrote the row.         *)
FirstUse(i) ==
  /\ UseAccess(i)
  /\ \A v \in Worker : AccessDoc(i) \notin tx[v].wrote
  /\ tx' = Notify(tx, {AccessDoc(i)})
  /\ UNCHANGED <<reserved, issuedFor, requests, lost>>

Advance == Tick /\ UNCHANGED <<tx, reserved, issuedFor, requests, lost>>

(* The bounds are used up and everyone is done. *)
Rest ==
  /\ Open = {} /\ requests = MaxRequests
  /\ UNCHANGED svars

Statement(w) ==
  \/ Find(w) \/ Reserve(w) \/ Claim(w) \/ Retire(w) \/ Lookup(w)
  \/ ClaimTheRetry(w) \/ RevokeSuccessor(w) \/ Issue(w)
  \/ EndSession(w) \/ EndTokens(w) \/ Commit(w)

Failure(w) == CommitAborted(w) \/ CommitUnknown(w) \/ Fail(w)

SNext ==
  \/ Advance
  \/ Rest
  \/ \E withProof \in BOOLEAN : Sign(withProof)
  \/ \E i \in Pair : FirstUse(i)
  \/ \E w \in Worker :
       \/ Statement(w)
       \/ Failure(w)
       \/ \E kind \in {"refresh", "revoke"}, i \in Pair, n \in 1..MaxRequests :
            Start(w, kind, i, n)
       \/ \E kind \in {"signOut", "select"} : Start(w, kind, None, requests + 1)

(* The event loop and the database keep serving a request once it is open; *)
(* nothing promises that a request arrives, or that anything fails.        *)
SSpec == SInit /\ [][SNext]_svars /\ \A w \in Worker : WF_svars(Statement(w))

-----------------------------------------------------------------------------
(* Properties *)

(* The tables keep their types, no unit of work runs more often than the   *)
(* runner's limit, and it only ever wrote rows of the family it found.     *)
STypeOK ==
  /\ TypeOK
  /\ \A w \in Worker :
       /\ tx[w].kind \in Kind
       /\ tx[w].run \in 0..MaxAttempts
       /\ tx[w].wrote \subseteq {SessionDoc} \cup TokenDocs(Committed)
       /\ tx[w].view.refresh \in Seq(RefreshRow)
       /\ tx[w].view.access \in Seq(AccessRow)
  /\ Len(issuedFor) = Len(refresh)

(* "No statement here waits for another unit of work."  The family's lock  *)
(* comes before every write of its rows and before the proof id's insert.  *)
NoStatementWaits == \A w \in Open : ~Waits(w)

(* "Once a write here to a family's session or tokens has returned, no     *)
(* other unit of work can change that family until this one ends."         *)
OneUnitOfWorkAtATime ==
  \A w \in Worker : tx[w].wrote # {} /\ tx'[w].wrote # {} =>
    UNCHANGED <<session, refresh>>

(* A unit of work whose writes are stored is never run again, whatever was *)
(* lost on the way back.                                                   *)
StoredRunsNoMore == \A w \in Open : ~tx[w].stored

(* A bound request that was copied or delivered twice carries one proof,   *)
(* and one proof is answered with one pair.                                *)
OnePairPerProof ==
  bound => \A j, k \in DOMAIN issuedFor :
             issuedFor[j] = issuedFor[k] => j = k

(* Types; a unit of work that was stored is not run again although its     *)
(* commit went unanswered, and a proof delivered twice gives one pair      *)
(* (PostgresUnitOfWorkRunner, withMajorityTransaction, reserveProofId).    *)
StoredOnce == STypeOK /\ StoredRunsNoMore /\ OnePairPerProof

(* Once sign-out, revocation or a replay has withdrawn a family's tokens,  *)
(* no unit of work that read the family before brings a usable one back.   *)
WithdrawnForGood ==
  [][refresh # <<>> /\ (\A i \in Pair : refresh[i].revoked) =>
       \A i \in DOMAIN refresh' : refresh'[i].revoked]_svars

(* Every request is answered: units of work that keep refusing each other  *)
(* give up after MaxAttempts runs, and none waits for ever.                *)
RequestsEnd == \A w \in Worker : tx[w].step # "idle" ~> tx[w].step = "idle"
=============================================================================
