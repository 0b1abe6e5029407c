----------------------------- MODULE CodeExchange ---------------------------
(***************************************************************************)
(* A native authorization from the browser's answer to the first tokens:   *)
(* NativeAuthorizeService.approve, NativeAuthorizeBrowserService.deny and  *)
(* NativeTokenService.exchange on PostgreSQL, statement by statement.      *)
(*                                                                         *)
(* A row that a unit of work has taken or written stays locked to its end; *)
(* an UPDATE waits for it, a read that takes it (NOWAIT) is refused, and   *)
(* the runner starts the unit of work again.  Reads in a row that only     *)
(* refuse, or whose rows the lock of the account keeps still, are one      *)
(* step, and so are the last writes of a unit of work and its commit.      *)
(***************************************************************************)
EXTENDS Integers, FiniteSets

CONSTANTS
  Work,       \* requests; a request that approves names the code it hands out
  User, Txn,  \* accounts; authorization_transactions
  ProofId,    \* DPoP proof ids
  MaxSessions,
  PendingLifetime, CodeLifetime,
  MaxTime, MaxChanges,  \* bounds
  None

ExchangeAssumption ==
  /\ {MaxSessions, PendingLifetime, CodeLifetime, MaxTime, MaxChanges} \subseteq Nat
  /\ None \notin Work \cup User \cup Txn \cup ProofId

VARIABLES
  now,
  txn,       \* the rows: consumed, code, who approved and what was captured
  acct,      \* [User -> [live, version]]
  app,       \* [enabled, version]
  grant,     \* [User -> [allowed, version] or NoGrant]
  sessions,  \* native sessions with the versions they carry
  proofIds,  \* native_dpop_proof_ids
  work,      \* the requests, with what they have read
  changes,   \* versions moved so far
  withdrawn  \* approvals some authority of which was withdrawn since it was read

vars == <<now, txn, acct, app, grant, sessions, proofIds, work, changes, withdrawn>>
rows == <<txn, acct, app, grant, sessions, proofIds, changes, withdrawn>>

NoGrant == [allowed |-> FALSE, version |-> -1]
FirstGrant == [allowed |-> TRUE, version |-> 0]
Pending == [consumed |-> FALSE, code |-> None, user |-> None,
            exp |-> PendingLifetime, uv |-> -1, cv |-> -1, gv |-> -1]
NoWork == [kind |-> "none", pc |-> "idle", txn |-> None, user |-> None, at |-> 0,
           code |-> None, jti |-> None, uv |-> -1, cv |-> -1, gv |-> -1]

Init ==
  /\ now = 0 /\ txn = [t \in Txn |-> Pending]
  /\ acct = [u \in User |-> [live |-> TRUE, version |-> 0]]
  /\ app = [enabled |-> TRUE, version |-> 0]
  /\ grant = [u \in User |-> NoGrant]
  /\ sessions = {} /\ proofIds = {} /\ changes = 0 /\ withdrawn = {}
  /\ work = [w \in Work |-> NoWork]

(***************************************************************************)
(* Locks and ends.                                                         *)
(***************************************************************************)

HoldsTxn(w) == work[w].pc \in {"granting", "capturing", "taken", "read", "counting",
                               "spending", "voiding"}
HoldsAcct(w) == work[w].pc \in {"capturing", "read", "counting", "spending", "voiding"}
TxnLocked(w) == \E v \in Work \ {w} : HoldsTxn(v) /\ work[v].txn = work[w].txn
AcctLocked(w, u) == \E v \in Work \ {w} : HoldsAcct(v) /\ work[v].user = u

End(w, pc) == work' = [work EXCEPT ![w].pc = pc]
Refuse(w, pc) == End(w, pc) /\ UNCHANGED rows

Stands(s) == /\ acct[s.user].live /\ s.uv = acct[s.user].version
             /\ app.enabled /\ s.cv = app.version
             /\ grant[s.user].allowed /\ s.gv = grant[s.user].version

(***************************************************************************)
(* The browser's answer.                                                   *)
(***************************************************************************)

(* approveIn: the account is read and not taken. *)
Approve(w, u, t) ==
  /\ work[w].pc = "idle" /\ acct[u].live
  /\ work' = [work EXCEPT ![w] = [NoWork EXCEPT !.kind = "approve", !.pc = "account",
                !.txn = t, !.user = u, !.at = now, !.uv = acct[u].version]]
  /\ UNCHANGED <<rows, now>>

IsPending(t, at) == ~txn[t].consumed /\ txn[t].code = None /\ txn[t].exp > at

(* findPendingIn and findClientIn. *)
FindPending(w) ==
  /\ work[w].pc = "account"
  /\ IF IsPending(work[w].txn, work[w].at) /\ app.enabled
     THEN /\ work' = [work EXCEPT ![w].pc = "client", ![w].cv = app.version]
          /\ UNCHANGED rows
     ELSE Refuse(w, "refused")
  /\ UNCHANGED now

(* Fault: an approved transaction is approved again. *)
ClaimTransactionAgain(w) ==
  /\ work[w].pc = "client" /\ ~TxnLocked(w)
  /\ Refuse(w, IF ~txn[work[w].txn].consumed THEN "granting" ELSE "refused")
  /\ UNCHANGED now

(* store.approve: the UPDATE waits, and asks again. *)
ClaimTransaction(w) ==
  /\ work[w].pc = "client" /\ ~TxnLocked(w)
  /\ Refuse(w, IF IsPending(work[w].txn, work[w].at) THEN "granting" ELSE "refused")
  /\ UNCHANGED now

(* allowGrant: refused while another holds the account; a blocked grant is *)
(* refused for good.                                                       *)
AllowGrant(w) ==
  LET g == grant[work[w].user] IN
  /\ work[w].pc = "granting"
  /\ \/ AcctLocked(w, work[w].user) /\ Refuse(w, "rerun")
     \/ /\ ~AcctLocked(w, work[w].user)
        /\ IF g # NoGrant /\ ~g.allowed THEN Refuse(w, "refused")
           ELSE /\ work' = [work EXCEPT ![w].pc = "capturing",
                  ![w].gv = IF g = NoGrant THEN FirstGrant.version ELSE g.version]
                /\ UNCHANGED rows
  /\ UNCHANGED now

(* The runner starts a refused unit of work again. *)
Rerun(w) ==
  /\ work[w].pc = "rerun"
  /\ IF work[w].kind = "exchange" THEN Refuse(w, "found")
     ELSE IF ~acct[work[w].user].live THEN Refuse(w, "refused")
     ELSE /\ work' = [work EXCEPT ![w].pc = "account", ![w].at = now,
                        ![w].uv = acct[work[w].user].version]
          /\ withdrawn' = withdrawn \ {w}
          /\ UNCHANGED <<txn, acct, app, grant, sessions, proofIds, changes>>
  /\ UNCHANGED now

(* captureGrantVersion and the commit: the code is handed out. *)
CaptureGrantVersion(w) ==
  LET x == work[w] IN
  /\ x.pc = "capturing"
  /\ txn' = [txn EXCEPT ![x.txn] =
       [consumed |-> FALSE, code |-> w, user |-> x.user, exp |-> x.at + CodeLifetime,
        uv |-> x.uv, cv |-> x.cv, gv |-> x.gv]]
  /\ grant' = [grant EXCEPT ![x.user] = IF @ = NoGrant THEN FirstGrant ELSE @]
  /\ End(w, "coded")
  /\ UNCHANGED <<now, acct, app, sessions, proofIds, changes, withdrawn>>

(* Fault: a transaction is denied although it has a code. *)
DeniableAlways(t) == ~txn[t].consumed

Deniable(t) == IsPending(t, now)

(* deny: one UPDATE that asks for everything again. *)
Deny(w, t) ==
  /\ work[w].pc = "idle" /\ Deniable(t)
  /\ ~\E v \in Work : HoldsTxn(v) /\ work[v].txn = t
  /\ txn' = [txn EXCEPT ![t].consumed = TRUE]
  /\ work' = [work EXCEPT ![w] = [NoWork EXCEPT !.kind = "deny", !.pc = "denied",
                                                !.txn = t]]
  /\ UNCHANGED <<now, acct, app, grant, sessions, proofIds, changes, withdrawn>>

(***************************************************************************)
(* The exchange.                                                           *)
(***************************************************************************)

(* findUnspentCode, and whether the verifier fits. *)
Exchange(w, v, t, fits, jti) ==
  /\ work[w].pc = "idle" /\ work[v].pc = "coded"
  /\ txn[t].code = v /\ ~txn[t].consumed /\ txn[t].exp > now
  /\ work' = [work EXCEPT ![w] = [NoWork EXCEPT !.kind = "exchange",
       !.pc = IF fits THEN "found" ELSE "mismatch", !.txn = t, !.code = v,
       !.jti = jti]]
  /\ UNCHANGED <<rows, now>>

(* A verifier that does not fit spends the code. *)
SpendCode(w) ==
  /\ work[w].pc = "mismatch" /\ ~TxnLocked(w)
  /\ txn' = [txn EXCEPT ![work[w].txn].consumed = TRUE]
  /\ End(w, IF txn[work[w].txn].consumed THEN "invalid" ELSE "misused")
  /\ UNCHANGED <<now, acct, app, grant, sessions, proofIds, changes, withdrawn>>

(* Fault: the code is read and not taken. *)
FindUnspentCodeUnlocked(w) ==
  LET x == work[w] IN
  /\ x.pc = "found"
  /\ IF txn[x.txn].consumed \/ txn[x.txn].exp <= now THEN Refuse(w, "invalid")
     ELSE /\ work' = [work EXCEPT ![w].pc = "taken", ![w].at = now,
                        ![w].user = txn[x.txn].user]
          /\ UNCHANGED rows
  /\ UNCHANGED now

(* findUnspentCodeIn takes the code. *)
FindUnspentCode(w) ==
  /\ ~TxnLocked(w) /\ FindUnspentCodeUnlocked(w)

(* readAccountForIssuance takes the account. *)
ReadAccountForIssuance(w) ==
  LET x == work[w] IN
  /\ x.pc = "taken"
  /\ IF AcctLocked(w, x.user) THEN Refuse(w, "rerun")
     ELSE /\ work' = [work EXCEPT ![w].pc = "read", ![w].uv = acct[x.user].version]
          /\ UNCHANGED rows
  /\ UNCHANGED now

(* Fault: the version of the account is not compared. *)
ValidAuthorityOfAnyAccount(w) ==
  LET x == work[w] IN
  /\ acct[x.user].live /\ app.enabled /\ grant[x.user].allowed
  /\ app.version = txn[x.txn].cv /\ grant[x.user].version = txn[x.txn].gv

ValidAuthority(w) ==
  LET x == work[w] IN
  /\ acct[x.user].live /\ app.enabled /\ grant[x.user].allowed
  /\ x.uv = txn[x.txn].uv
  /\ app.version = txn[x.txn].cv /\ grant[x.user].version = txn[x.txn].gv

(* findClientIn and findGrant. *)
Judge(w) ==
  /\ work[w].pc = "read"
  /\ work' = [work EXCEPT ![w].pc = IF ValidAuthority(w) THEN "counting" ELSE "voiding",
                ![w].cv = app.version, ![w].gv = grant[work[w].user].version]
  /\ UNCHANGED <<rows, now>>

Active(u) == {s \in sessions : s.user = u /\ Stands(s)}

(* Fault: the code is spent on a full account. *)
AssertSessionLimitSpends(w) ==
  /\ work[w].pc = "counting"
  /\ Refuse(w, IF Cardinality(Active(work[w].user)) >= MaxSessions THEN "voiding"
               ELSE "spending")
  /\ UNCHANGED now

(* Fault: one session more. *)
AssertSessionLimitLate(w) ==
  /\ work[w].pc = "counting"
  /\ Refuse(w, IF Cardinality(Active(work[w].user)) > MaxSessions THEN "full"
               ELSE "spending")
  /\ UNCHANGED now

(* A full account throws: nothing is stored. *)
AssertSessionLimit(w) ==
  /\ work[w].pc = "counting"
  /\ Refuse(w, IF Cardinality(Active(work[w].user)) >= MaxSessions THEN "full"
               ELSE "spending")
  /\ UNCHANGED now

(* An authority that failed: the spent code is stored. *)
SpendVoid(w) ==
  /\ work[w].pc = "voiding"
  /\ txn' = [txn EXCEPT ![work[w].txn].consumed = TRUE]
  /\ End(w, "invalid")
  /\ UNCHANGED <<now, acct, app, grant, sessions, proofIds, changes, withdrawn>>

(* Fault: a replayed proof id is not noticed. *)
ReplayedNever(w) == FALSE

Replayed(w) == work[w].jti # None /\ work[w].jti \in proofIds

(* spendCodeIn, reserveProofId, issuePair and the commit. *)
IssuePair(w) ==
  LET x == work[w] IN
  /\ x.pc = "spending"
  /\ IF txn[x.txn].consumed THEN Refuse(w, "invalid")
     ELSE IF Replayed(w) THEN Refuse(w, "replayed")
     ELSE /\ txn' = [txn EXCEPT ![x.txn].consumed = TRUE]
          /\ proofIds' = proofIds \cup ({x.jti} \ {None})
          /\ sessions' = sessions \cup
               {[by |-> w, code |-> x.code, user |-> x.user, jti |-> x.jti,
                 uv |-> x.uv, cv |-> x.cv, gv |-> x.gv]}
          /\ End(w, "issued")
          /\ UNCHANGED <<acct, app, grant, changes, withdrawn>>
  /\ UNCHANGED now

(* A unit of work is lost, or has run out of reruns. *)
Abort(w) ==
  /\ work[w].pc \in {"account", "client", "granting", "capturing", "rerun", "found",
                     "taken", "read", "counting", "spending", "voiding"}
  /\ Refuse(w, "aborted") /\ UNCHANGED now

(***************************************************************************)
(* What withdraws authority, each in the step in which it commits.         *)
(***************************************************************************)

Change == changes < MaxChanges /\ changes' = changes + 1
AcctFree(u) == \A w \in Work : HoldsAcct(w) => work[w].user # u

(* Approvals that have read the fact, and the codes they gave. *)
Approvals(users, pcs) ==
  {w \in Work : work[w].kind = "approve" /\ work[w].user \in users
                /\ work[w].pc \in pcs \cup {"capturing", "coded"}}

(* revokeAllForUser, or a deactivation. *)
AdvanceAccount(u, live) ==
  /\ Change /\ AcctFree(u) /\ acct[u].live
  /\ acct' = [acct EXCEPT ![u] = [live |-> live, version |-> @.version + 1]]
  /\ withdrawn' = withdrawn \cup Approvals({u}, {"account", "client", "granting"})
  /\ UNCHANGED <<now, txn, app, grant, sessions, proofIds, work>>

BlockGrant(u) ==
  /\ Change /\ AcctFree(u)
  /\ grant' = [grant EXCEPT ![u] = [allowed |-> FALSE,
       version |-> IF @ = NoGrant THEN 1 ELSE @.version + 1]]
  /\ withdrawn' = withdrawn \cup Approvals({u}, {})
  /\ UNCHANGED <<now, txn, acct, app, sessions, proofIds, work>>

DisableApplication ==
  /\ Change
  /\ app' = [enabled |-> FALSE, version |-> app.version + 1]
  /\ withdrawn' = withdrawn \cup Approvals(User, {"client", "granting"})
  /\ UNCHANGED <<now, txn, acct, grant, sessions, proofIds, work>>

EnableApplication ==
  /\ ~app.enabled /\ app' = [app EXCEPT !.enabled = TRUE]
  /\ UNCHANGED <<now, txn, acct, grant, sessions, proofIds, work, changes, withdrawn>>

Tick == now < MaxTime /\ now' = now + 1 /\ UNCHANGED <<rows, work>>

Next ==
  \/ \E w \in Work :
       \/ FindPending(w) \/ ClaimTransaction(w) \/ AllowGrant(w) \/ Rerun(w)
       \/ CaptureGrantVersion(w) \/ SpendCode(w) \/ FindUnspentCode(w)
       \/ ReadAccountForIssuance(w) \/ Judge(w) \/ AssertSessionLimit(w)
       \/ SpendVoid(w) \/ IssuePair(w) \/ Abort(w)
       \/ \E t \in Txn :
            \/ Deny(w, t)
            \/ \E u \in User : Approve(w, u, t)
            \/ \E v \in Work, fits \in BOOLEAN, jti \in ProofId \cup {None} :
                 Exchange(w, v, t, fits, jti)
  \/ \E u \in User : BlockGrant(u) \/ \E live \in BOOLEAN : AdvanceAccount(u, live)
  \/ DisableApplication \/ EnableApplication \/ Tick

Spec == Init /\ [][Next]_vars

(***************************************************************************)
(* Properties.                                                             *)
(***************************************************************************)

(* Types; a row is held by one unit of work at a time.                     *)
TypeOK ==
  /\ now \in 0..MaxTime /\ changes \in 0..MaxChanges
  /\ \A t \in Txn : txn[t].code \in Work \cup {None} /\ txn[t].consumed \in BOOLEAN
  /\ \A w \in Work : /\ HoldsTxn(w) => ~TxnLocked(w)
                     /\ HoldsAcct(w) => ~AcctLocked(w, work[w].user)

(* A code gives one session, whoever presents it and however often; and a  *)
(* proof id gives one.                                                     *)
OneSessionPerCode ==
  \A s, r \in sessions :
    s.code = r.code \/ (s.jti = r.jti /\ s.jti # None) => s = r

(* One answer per transaction: a code that was handed out is the one that  *)
(* is stored, for the account that approved it, and none was handed out    *)
(* for a transaction whose denial was answered.                            *)
OneAnswer ==
  \A w \in Work : work[w].pc = "coded" =>
    /\ txn[work[w].txn].code = w /\ txn[work[w].txn].user = work[w].user
    /\ ~\E v \in Work : work[v].pc = "denied" /\ work[v].txn = work[w].txn

(* Once the account, the grant or the application was withdrawn after an   *)
(* approval had read it, no session of its code holds authority, although  *)
(* the approval and the exchange read the application unlocked.            *)
WithdrawnGivesNothing ==
  \A s \in sessions : s.code \in withdrawn => ~Stands(s)

(* Exchanges of different codes of an account at once keep to the cap.     *)
SessionCap == \A u \in User : Cardinality(Active(u)) <= MaxSessions

(* A code is spent for a reason: it was denied or misused, its authority   *)
(* went, or it gave a session.  A full account, a replayed proof or a lost *)
(* unit of work leave it usable.                                           *)
SpentForAReason ==
  \A t \in Txn : txn[t].consumed =>
    \/ \E w \in Work : work[w].pc \in {"denied", "misused"} /\ work[w].txn = t
    \/ txn[t].code \in withdrawn
    \/ \E s \in sessions : s.code = txn[t].code
=============================================================================
