---------------------------- MODULE SignInProofs ----------------------------
(***************************************************************************)
(* For any number of requests, users, links, addresses and codes, and any  *)
(* lifetimes and limits:                                                   *)
(*                                                                         *)
(*   - an authorization code gives one session, and its transaction one    *)
(*     answer;                                                             *)
(*   - a sign-in link signs in once, where it was asked for, in time;      *)
(*   - an address goes to who claimed it;                                  *)
(*   - a mailed code is compared no more often than it may be guessed,     *)
(*     only the one that was sent last is accepted, and wrong ones cost    *)
(*     the time of the locks.                                              *)
(*                                                                         *)
(* Each part states what its component's steps rely on between one         *)
(* another: what a request that stopped halfway has read, holds or has     *)
(* claimed, and that it still stands.                                      *)
(***************************************************************************)
EXTENDS MailPromises, CodePromises, Integers, Sequences, FiniteSetTheorems,
        SequenceTheorems, TLAPS

(***************************************************************************)
(* Authorization codes (CodeExchange).                                     *)
(***************************************************************************)

TransactionRow ==
  [consumed : BOOLEAN, code : Work \cup {None}, user : User \cup {None}, exp : Nat,
   uv : Int, cv : Int, gv : Int]
NativeSessionRow ==
  [by : Work, code : Work, user : User, jti : ProofId \cup {None},
   uv : Int, cv : Int, gv : Int]
Approving == {"account", "client", "granting", "capturing", "coded", "rerun",
              "refused", "aborted"}
Exchanging == {"mismatch", "misused", "found", "taken", "read", "counting", "spending",
               "voiding", "rerun", "invalid", "full", "replayed", "issued", "aborted"}
HasAccount == {"taken", "read", "counting", "spending", "voiding"}
RequestRow ==
  [kind : {"none", "approve", "deny", "exchange"},
   pc : Approving \cup Exchanging \cup {"idle", "denied"},
   txn : Txn \cup {None}, user : User \cup {None}, at : Nat,
   code : Work \cup {None}, jti : ProofId \cup {None}, uv : Int, cv : Int, gv : Int]

XTyped ==
  /\ now \in 0..MaxTime /\ changes \in 0..MaxChanges
  /\ txn \in [Txn -> TransactionRow]
  /\ acct \in [User -> [live : BOOLEAN, version : Nat]]
  /\ app \in [enabled : BOOLEAN, version : Nat]
  /\ grant \in [User -> [allowed : BOOLEAN, version : Nat] \cup {Exchange!NoGrant}]
  /\ sessions \subseteq NativeSessionRow /\ IsFiniteSet(sessions)
  /\ proofIds \subseteq ProofId
  /\ work \in [Work -> RequestRow]
  /\ withdrawn \subseteq Work

(* What a request has on it.                                               *)
RequestSound(w) == LET x == work[w] IN
  /\ x.kind = "none" <=> x.pc = "idle"
  /\ x.kind = "approve" => x.txn \in Txn /\ x.user \in User /\ x.pc \in Approving
  /\ x.kind = "deny" => x.txn \in Txn /\ x.pc = "denied"
  /\ x.kind = "exchange" =>
       /\ x.txn \in Txn /\ x.pc \in Exchanging
       /\ x.code \in Work /\ work[x.code].pc = "coded" /\ work[x.code].txn = x.txn
       /\ x.pc \in HasAccount => x.user = work[x.code].user

RequestsSound == \A w \in Work : RequestSound(w)

Apart(r, q) ==
  /\ Exchange!HoldsTxn(r) /\ Exchange!HoldsTxn(q) => work[r].txn # work[q].txn
  /\ Exchange!HoldsAcct(r) /\ Exchange!HoldsAcct(q) => work[r].user # work[q].user

RowsHeldOnce == \A r, q \in Work : r # q => Apart(r, q)

(* The code of a transaction is that of the one request that has it.       *)
CodeSound(t) == txn[t].code # None =>
  LET x == work[txn[t].code] IN
  /\ x.pc = "coded" /\ x.txn = t /\ txn[t].user = x.user
  /\ txn[t].uv = x.uv /\ txn[t].cv = x.cv /\ txn[t].gv = x.gv

AnswerSound(w) == LET x == work[w] IN
  /\ x.pc = "coded" => txn[x.txn].code = w
  /\ x.pc = "denied" => txn[x.txn].consumed /\ txn[x.txn].code = None
  /\ x.pc \in {"granting", "capturing"} =>
       ~txn[x.txn].consumed /\ txn[x.txn].code = None

CodesSound == \A t \in Txn : CodeSound(t)
AnswersSound == \A w \in Work : AnswerSound(w)

(* What an approval has read is not ahead, and level while nothing was     *)
(* withdrawn.                                                              *)
AccountRead(w) == LET x == work[w] IN
  x.pc \in {"account", "client", "granting", "capturing", "coded"} =>
    /\ x.uv <= acct[x.user].version
    /\ w \notin withdrawn => acct[x.user].live /\ x.uv = acct[x.user].version

ApplicationRead(w) == LET x == work[w] IN
  x.pc \in {"client", "granting", "capturing", "coded"} =>
    /\ x.cv <= app.version /\ (x.cv = app.version => app.enabled)
    /\ w \notin withdrawn => x.cv = app.version

GrantRead(w) == LET x == work[w] 
                    g == grant[x.user] IN
  /\ x.pc = "capturing" => \/ g = Exchange!NoGrant /\ x.gv = 0
                           \/ g # Exchange!NoGrant /\ g.allowed /\ x.gv = g.version
  /\ x.pc = "coded" => /\ g # Exchange!NoGrant /\ x.gv <= g.version
                       /\ w \notin withdrawn => g.allowed /\ x.gv = g.version

(* A withdrawn approval is behind.                                         *)
Behind(w) == LET x == work[w] IN
  \/ x.uv < acct[x.user].version
  \/ x.pc # "account" /\ x.cv < app.version
  \/ x.pc = "coded" /\ x.gv < grant[x.user].version

WithdrawnBehind(w) ==
  w \in withdrawn =>
    /\ work[w].kind = "approve"
    /\ work[w].pc \in {"account", "client", "granting", "capturing", "coded"} => Behind(w)

ApprovalsSound ==
  \A w \in Work : /\ AccountRead(w) /\ ApplicationRead(w) /\ GrantRead(w)
                  /\ WithdrawnBehind(w)

(* What an exchange has found out while it holds the account.              *)
JudgedSound(w) == LET x == work[w] IN
  /\ x.pc = "read" => x.uv = acct[x.user].version
  /\ x.pc \in {"counting", "spending"} =>
       x.uv = work[x.code].uv /\ x.cv = work[x.code].cv /\ x.gv = work[x.code].gv
  /\ x.pc = "voiding" => x.code \in withdrawn

ExchangesSound == \A w \in Work : JudgedSound(w)

(* ... and that it may still add a session.                                *)
RoomFor(w, u) ==
  work[w].pc = "spending" /\ work[w].user = u =>
    Cardinality(Exchange!Active(u)) < MaxSessions

RoomKept == \A w \in Work, u \in User : RoomFor(w, u)

(* A session is the one its code gave.                                     *)
SessionSound(s) == LET x == work[s.code] IN
  /\ x.pc = "coded" /\ s.user = x.user
  /\ s.uv = x.uv /\ s.cv = x.cv /\ s.gv = x.gv
  /\ txn[x.txn].consumed
  /\ s.jti \in proofIds \cup {None}

SessionsSound == \A s \in sessions : SessionSound(s)

SpentReason(t) ==
  \/ \E w \in Work : work[w].pc \in {"denied", "misused"} /\ work[w].txn = t
  \/ txn[t].code \in withdrawn
  \/ \E s \in sessions : s.code = txn[t].code

XInv ==
  /\ XTyped /\ RequestsSound /\ RowsHeldOnce /\ CodesSound /\ AnswersSound
  /\ ApprovalsSound /\ ExchangesSound /\ RoomKept /\ SessionsSound
  /\ Exchange!OneSessionPerCode /\ Exchange!SessionCap /\ Exchange!SpentForAReason

USE DEF Exchange!End, Exchange!Refuse, Exchange!rows

(* What a request that is under way names.                                 *)
LEMMA RequestNames ==
  ASSUME XInv, NEW w \in Work
  PROVE  /\ work[w] \in RequestRow
         /\ work[w].pc \in {"account", "client", "granting", "capturing", "coded"} =>
              work[w].kind = "approve" /\ work[w].txn \in Txn /\ work[w].user \in User
         /\ work[w].pc \in {"mismatch", "found"} =>
              work[w].kind = "exchange" /\ work[w].txn \in Txn /\ work[w].code \in Work
         /\ work[w].pc \in HasAccount =>
              /\ work[w].kind = "exchange" /\ work[w].txn \in Txn /\ work[w].code \in Work
              /\ work[w].user \in User
<1>1. work[w] \in RequestRow /\ RequestSound(w)
  BY DEF XInv, XTyped, RequestsSound
<1>2. work[w].kind = "exchange" =>
        work[w].code \in Work /\ work[work[w].code].pc = "coded"
  BY <1>1 DEF RequestSound
<1>3. \A v \in Work : work[v].pc = "coded"
       => work[v].kind = "approve" /\ work[v].user \in User
  <2> SUFFICES ASSUME NEW v \in Work, work[v].pc = "coded"
               PROVE  work[v].kind = "approve" /\ work[v].user \in User
    OBVIOUS
  <2>1. work[v] \in RequestRow /\ RequestSound(v)
    BY DEF XInv, XTyped, RequestsSound
  <2> QED BY <2>1 DEF RequestRow, RequestSound, Approving, Exchanging
<1> QED
    BY <1>1, <1>2, <1>3 DEF RequestRow, RequestSound, Approving, Exchanging, HasAccount

(* What Judge does, whatever it finds of the authority.                    *)
Judged(w, p) ==
  /\ work[w].pc = "read"
  /\ work' = [work EXCEPT ![w].pc = p, ![w].cv = app.version,
                          ![w].gv = grant[work[w].user].version]
  /\ UNCHANGED <<Exchange!rows, now>>

LEMMA JudgeDoes ==
  ASSUME NEW w \in Work, Exchange!Judge(w)
  PROVE  \E p \in {"counting", "voiding"} : Judged(w, p)
<1>1. CASE Exchange!ValidAuthority(w)
  <2>1. Judged(w, "counting")
    BY <1>1 DEF Exchange!Judge, Judged
  <2> QED BY <2>1
<1>2. CASE ~Exchange!ValidAuthority(w)
  <2>1. Judged(w, "voiding")
    BY <1>2 DEF Exchange!Judge, Judged
  <2> QED BY <2>1
<1> QED BY <1>1, <1>2

LEMMA NoWorkTyped ==  Exchange!NoWork \in RequestRow
BY DEF Exchange!NoWork, RequestRow

LEMMA SpentRow ==
  ASSUME NEW r \in TransactionRow
  PROVE  [r EXCEPT !.consumed = TRUE] \in TransactionRow
BY DEF TransactionRow

LEMMA SpentRows ==
  ASSUME NEW t \in Txn, txn \in [Txn -> TransactionRow]
  PROVE  [txn EXCEPT ![t].consumed = TRUE] \in [Txn -> TransactionRow]
<1>1. [txn[t] EXCEPT !.consumed = TRUE] \in TransactionRow
  BY SpentRow
<1>2. [txn EXCEPT ![t].consumed = TRUE]
       = [txn EXCEPT ![t] = [txn[t] EXCEPT !.consumed = TRUE]]
  OBVIOUS
<1> QED BY <1>1, <1>2

LEMMA XTypedStep ==
  ASSUME Exchange!ExchangeAssumption, XInv, [Exchange!Next]_Exchange!vars
  PROVE  XTyped'
<1>0. CASE UNCHANGED Exchange!vars
  BY <1>0 DEF XInv, Exchange!vars, XTyped
<1>1. ASSUME NEW w \in Work, Exchange!FindPending(w)
      PROVE  XTyped'
  BY <1>1 DEF XInv, Exchange!FindPending, XTyped, RequestRow, Approving, Exchanging
<1>2. ASSUME NEW w \in Work, Exchange!ClaimTransaction(w)
      PROVE  XTyped'
  BY <1>2 DEF XInv, Exchange!ClaimTransaction, XTyped, RequestRow, Approving, Exchanging
<1>3. ASSUME NEW w \in Work, Exchange!AllowGrant(w)
      PROVE  XTyped'
  BY <1>3, RequestNames
     DEF XInv, Exchange!AllowGrant, XTyped, RequestRow, Approving, Exchanging,
         Exchange!FirstGrant, Exchange!NoGrant
<1>4. ASSUME NEW w \in Work, Exchange!Rerun(w)
      PROVE  XTyped'
  BY <1>4, RequestNames
     DEF XInv, Exchange!Rerun, XTyped, RequestRow, Approving, Exchanging,
         Exchange!ExchangeAssumption
<1>5. ASSUME NEW w \in Work, Exchange!CaptureGrantVersion(w)
      PROVE  XTyped'
  <2>1. work[w] \in RequestRow /\ work[w].txn \in Txn /\ work[w].user \in User
    BY <1>5, RequestNames DEF Exchange!CaptureGrantVersion
  <2>2. txn' \in [Txn -> TransactionRow]
    BY <1>5, <2>1
       DEF XInv, XTyped, TransactionRow, RequestRow, Exchange!CaptureGrantVersion,
           Exchange!ExchangeAssumption
  <2>3. work' \in [Work -> RequestRow]
    BY <1>5, <2>1
       DEF XInv, XTyped, RequestRow, Approving, Exchanging, Exchange!CaptureGrantVersion
  <2>4. grant' \in [User -> [allowed : BOOLEAN, version : Nat] \cup {Exchange!NoGrant}]
    BY <1>5, <2>1 DEF XInv, XTyped, Exchange!CaptureGrantVersion, Exchange!FirstGrant
  <2> QED BY <1>5, <2>1, <2>2, <2>3, <2>4 DEF XInv, XTyped, Exchange!CaptureGrantVersion
<1>6. ASSUME NEW w \in Work, Exchange!SpendCode(w)
      PROVE  XTyped'
  <2>1. work[w] \in RequestRow /\ work[w].txn \in Txn
    BY <1>6, RequestNames DEF Exchange!SpendCode, HasAccount
  <2>2. txn' \in [Txn -> TransactionRow]
    BY <1>6, <2>1, SpentRows DEF XInv, XTyped, Exchange!SpendCode
  <2>3. work' \in [Work -> RequestRow]
    BY <1>6, <2>1
       DEF XInv, XTyped, RequestRow, Approving, Exchanging, Exchange!SpendCode
  <2> QED BY <1>6, <2>1, <2>2, <2>3 DEF XInv, XTyped, Exchange!SpendCode
<1>7. ASSUME NEW w \in Work, Exchange!FindUnspentCode(w)
      PROVE  XTyped'
  <2>1. work[w] \in RequestRow /\ work[w].txn \in Txn
    BY <1>7, RequestNames DEF Exchange!FindUnspentCode, Exchange!FindUnspentCodeUnlocked
  <2>2. txn[work[w].txn].user \in User \cup {None} /\ now \in Nat
    BY <2>1 DEF XInv, XTyped, TransactionRow, Exchange!ExchangeAssumption
  <2>3. work' \in [Work -> RequestRow]
    BY <1>7, <2>1, <2>2
       DEF XInv, XTyped, RequestRow, Approving, Exchanging, Exchange!FindUnspentCode,
           Exchange!FindUnspentCodeUnlocked
  <2> QED
      BY <1>7, <2>3
         DEF XInv, XTyped, Exchange!FindUnspentCode, Exchange!FindUnspentCodeUnlocked
<1>8. ASSUME NEW w \in Work, Exchange!ReadAccountForIssuance(w)
      PROVE  XTyped'
  <2>1. work[w] \in RequestRow /\ work[w].user \in User
    BY <1>8, RequestNames DEF Exchange!ReadAccountForIssuance, HasAccount
  <2>2. acct[work[w].user].version \in Int
    BY <2>1 DEF XInv, XTyped
  <2>3. work' \in [Work -> RequestRow]
    BY <1>8, <2>1, <2>2
       DEF XInv, XTyped, RequestRow, Approving, Exchanging,
           Exchange!ReadAccountForIssuance
  <2> QED BY <1>8, <2>3 DEF XInv, XTyped, Exchange!ReadAccountForIssuance
<1>9. ASSUME NEW w \in Work, Exchange!Judge(w)
      PROVE  XTyped'
  <2>1. work[w] \in RequestRow /\ work[w].user \in User
    BY <1>9, RequestNames DEF Exchange!Judge, HasAccount
  <2>2. app.version \in Int /\ grant[work[w].user].version \in Int
    BY <2>1 DEF XInv, XTyped, Exchange!NoGrant
  <2>3. work' \in [Work -> RequestRow]
    BY ZenonT(60), <1>9, <2>1, <2>2
       DEF XInv, XTyped, RequestRow, Approving, Exchanging, Exchange!Judge
  <2> QED BY <1>9, <2>3 DEF XInv, XTyped, Exchange!Judge
<1>10. ASSUME NEW w \in Work, Exchange!AssertSessionLimit(w)
      PROVE  XTyped'
  <2>1. work' \in [Work -> RequestRow]
    BY <1>10
       DEF XInv, XTyped, RequestRow, Approving, Exchanging, Exchange!AssertSessionLimit
  <2> QED BY <1>10, <2>1 DEF XInv, XTyped, Exchange!AssertSessionLimit
<1>11. ASSUME NEW w \in Work, Exchange!SpendVoid(w)
      PROVE  XTyped'
  <2>1. work[w] \in RequestRow /\ work[w].txn \in Txn
    BY <1>11, RequestNames DEF Exchange!SpendVoid, HasAccount
  <2>2. txn' \in [Txn -> TransactionRow]
    BY <1>11, <2>1, SpentRows DEF XInv, XTyped, Exchange!SpendVoid
  <2>3. work' \in [Work -> RequestRow]
    BY <1>11, <2>1
       DEF XInv, XTyped, RequestRow, Approving, Exchanging, Exchange!SpendVoid
  <2> QED BY <1>11, <2>1, <2>2, <2>3 DEF XInv, XTyped, Exchange!SpendVoid
<1>12. ASSUME NEW w \in Work, Exchange!IssuePair(w)
      PROVE  XTyped'
  <2>1. /\ work[w] \in RequestRow /\ work[w].txn \in Txn /\ work[w].code \in Work
        /\ work[w].user \in User
    BY <1>12, RequestNames DEF Exchange!IssuePair, HasAccount
  <2>2. work' \in [Work -> RequestRow]
    BY <1>12, <2>1
       DEF XInv, XTyped, RequestRow, Approving, Exchanging, Exchange!IssuePair
  <2>3. txn' \in [Txn -> TransactionRow]
    BY <1>12, <2>1, SpentRows DEF XInv, XTyped, Exchange!IssuePair
  <2>4. sessions' \subseteq NativeSessionRow /\ IsFiniteSet(sessions')
    <3> DEFINE s == [by |-> w, code |-> work[w].code, user |-> work[w].user,
                     jti |-> work[w].jti, uv |-> work[w].uv, cv |-> work[w].cv,
                     gv |-> work[w].gv]
    <3>1. s \in NativeSessionRow
      BY <2>1 DEF NativeSessionRow, RequestRow
    <3>2. sessions' = sessions \cup {s} \/ sessions' = sessions
      BY <1>12 DEF Exchange!IssuePair
    <3>3. IsFiniteSet(sessions) => IsFiniteSet(sessions \cup {s})
      BY FS_AddElement
    <3> HIDE DEF s
    <3> QED BY <3>1, <3>2, <3>3 DEF XInv, XTyped
  <2>5. proofIds' \subseteq ProofId
    BY <1>12, <2>1 DEF XInv, XTyped, RequestRow, Exchange!IssuePair
  <2> QED BY <1>12, <2>2, <2>3, <2>4, <2>5 DEF XInv, XTyped, Exchange!IssuePair
<1>13. ASSUME NEW w \in Work, Exchange!Abort(w)
      PROVE  XTyped'
  BY <1>13 DEF XInv, Exchange!Abort, XTyped, RequestRow, Approving, Exchanging
<1>14. ASSUME NEW w \in Work, NEW t \in Txn, Exchange!Deny(w, t)
      PROVE  XTyped'
  <2> DEFINE r == [Exchange!NoWork EXCEPT !.kind = "deny", !.pc = "denied", !.txn = t]
  <2>1. work' \in [Work -> RequestRow]
    <3>1. r \in RequestRow
      BY NoWorkTyped DEF RequestRow
    <3>2. work' = [work EXCEPT ![w] = r]
      BY <1>14 DEF Exchange!Deny
    <3> HIDE DEF r
    <3> QED BY <3>1, <3>2 DEF XInv, XTyped
  <2>2. txn' \in [Txn -> TransactionRow]
    BY <1>14, SpentRows DEF XInv, XTyped, Exchange!Deny
  <2> QED BY <1>14, <2>1, <2>2 DEF XInv, XTyped, Exchange!Deny
<1>15. ASSUME NEW w \in Work, NEW t \in Txn, NEW u \in User, Exchange!Approve(w, u, t)
      PROVE  XTyped'
  <2>1. now \in Nat /\ acct[u].version \in Int
    BY DEF XInv, XTyped, Exchange!ExchangeAssumption
  <2>2. work' \in [Work -> RequestRow]
    <3> DEFINE r == [Exchange!NoWork EXCEPT !.kind = "approve", !.pc = "account",
                       !.txn = t, !.user = u, !.at = now, !.uv = acct[u].version]
    <3>1. r \in RequestRow
      BY NoWorkTyped, <2>1 DEF RequestRow, Approving
    <3>2. work' = [work EXCEPT ![w] = r]
      BY <1>15 DEF Exchange!Approve
    <3> HIDE DEF r
    <3> QED BY <3>1, <3>2 DEF XInv, XTyped
  <2> QED BY <1>15, <2>2 DEF XInv, XTyped, Exchange!Approve
<1>16. ASSUME NEW w \in Work, NEW t \in Txn, NEW v \in Work, NEW fits \in BOOLEAN,
             NEW jti \in ProofId \cup {None}, Exchange!Exchange(w, v, t, fits, jti)
      PROVE  XTyped'
  <2>1. work' \in [Work -> RequestRow]
    <3> DEFINE p == IF fits THEN "found" ELSE "mismatch"
               r == [Exchange!NoWork EXCEPT !.kind = "exchange", !.pc = p, !.txn = t,
                       !.code = v, !.jti = jti]
    <3>1. r \in RequestRow
      <4>1. p \in Exchanging
        BY DEF Exchanging
      <4> HIDE DEF p
      <4> QED BY <4>1, NoWorkTyped DEF RequestRow
    <3>2. work' = [work EXCEPT ![w] = r]
      BY <1>16 DEF Exchange!Exchange
    <3> HIDE DEF r
    <3> QED BY <3>1, <3>2 DEF XInv, XTyped
  <2> QED BY <1>16, <2>1 DEF XInv, XTyped, Exchange!Exchange
<1>17. ASSUME NEW u \in User, Exchange!BlockGrant(u)
      PROVE  XTyped'
  <2>1. grant[u] \in [allowed : BOOLEAN, version : Nat] \cup {Exchange!NoGrant}
    BY DEF XInv, XTyped
  <2>2. grant' \in [User -> [allowed : BOOLEAN, version : Nat] \cup {Exchange!NoGrant}]
    BY <1>17, <2>1 DEF XInv, XTyped, Exchange!BlockGrant
  <2>3. changes' \in 0..MaxChanges /\ withdrawn' \subseteq Work
    BY <1>17 DEF XInv, XTyped, Exchange!BlockGrant, Exchange!Change, Exchange!Approvals,
             Exchange!ExchangeAssumption
  <2> QED BY <1>17, <2>2, <2>3 DEF XInv, XTyped, Exchange!BlockGrant
<1>18. ASSUME NEW u \in User, NEW live \in BOOLEAN, Exchange!AdvanceAccount(u, live)
      PROVE  XTyped'
  <2>2. acct' \in [User -> [live : BOOLEAN, version : Nat]]
    BY <1>18 DEF XInv, XTyped, Exchange!AdvanceAccount
  <2>3. changes' \in 0..MaxChanges /\ withdrawn' \subseteq Work
    BY <1>18
       DEF XInv, XTyped, Exchange!AdvanceAccount, Exchange!Change, Exchange!Approvals,
             Exchange!ExchangeAssumption
  <2> QED BY <1>18, <2>2, <2>3 DEF XInv, XTyped, Exchange!AdvanceAccount
<1>19. ASSUME Exchange!DisableApplication
      PROVE  XTyped'
  <2>2. app' \in [enabled : BOOLEAN, version : Nat]
    BY <1>19 DEF XInv, XTyped, Exchange!DisableApplication
  <2>3. changes' \in 0..MaxChanges /\ withdrawn' \subseteq Work
    BY <1>19
       DEF XInv, XTyped, Exchange!DisableApplication, Exchange!Change,
           Exchange!Approvals,
             Exchange!ExchangeAssumption
  <2> QED BY <1>19, <2>2, <2>3 DEF XInv, XTyped, Exchange!DisableApplication
<1>20. ASSUME Exchange!EnableApplication
      PROVE  XTyped'
  BY <1>20 DEF XInv, Exchange!EnableApplication, XTyped
<1>21. ASSUME Exchange!Tick
      PROVE  XTyped'
  BY <1>21 DEF XInv, Exchange!Tick, Exchange!ExchangeAssumption, XTyped
<1> QED
  BY <1>0, <1>1, <1>2, <1>3, <1>4, <1>5, <1>6, <1>7, <1>8, <1>9, <1>10, <1>11, <1>12,
     <1>13, <1>14, <1>15, <1>16, <1>17, <1>18, <1>19, <1>20, <1>21
     DEF Exchange!Next

(* Who was given a code has done his part.                                  *)
LEMMA CodedStays ==
  ASSUME Exchange!ExchangeAssumption, XInv, [Exchange!Next]_Exchange!vars,
         NEW c \in Work, work[c].pc = "coded"
  PROVE  work'[c] = work[c]
<1> work \in [Work -> RequestRow]
  BY DEF XInv, XTyped
<1>0. CASE UNCHANGED Exchange!vars
  BY <1>0 DEF Exchange!vars
<1> DEFINE Goal == work'[c] = work[c]
<1>1. ASSUME NEW w \in Work, Exchange!FindPending(w)
      PROVE  Goal
  BY <1>1 DEF Exchange!FindPending
<1>2. ASSUME NEW w \in Work, Exchange!ClaimTransaction(w)
      PROVE  Goal
  BY <1>2 DEF Exchange!ClaimTransaction
<1>3. ASSUME NEW w \in Work, Exchange!AllowGrant(w)
      PROVE  Goal
  BY <1>3 DEF Exchange!AllowGrant
<1>4. ASSUME NEW w \in Work, Exchange!Rerun(w)
      PROVE  Goal
  BY <1>4 DEF Exchange!Rerun
<1>5. ASSUME NEW w \in Work, Exchange!CaptureGrantVersion(w)
      PROVE  Goal
  BY <1>5 DEF Exchange!CaptureGrantVersion
<1>6. ASSUME NEW w \in Work, Exchange!SpendCode(w)
      PROVE  Goal
  BY <1>6 DEF Exchange!SpendCode
<1>7. ASSUME NEW w \in Work, Exchange!FindUnspentCode(w)
      PROVE  Goal
  BY <1>7 DEF Exchange!FindUnspentCode, Exchange!FindUnspentCodeUnlocked
<1>8. ASSUME NEW w \in Work, Exchange!ReadAccountForIssuance(w)
      PROVE  Goal
  BY <1>8 DEF Exchange!ReadAccountForIssuance
<1>9. ASSUME NEW w \in Work, Exchange!Judge(w)
      PROVE  Goal
  BY <1>9 DEF Exchange!Judge
<1>10. ASSUME NEW w \in Work, Exchange!AssertSessionLimit(w)
      PROVE  Goal
  BY <1>10 DEF Exchange!AssertSessionLimit
<1>11. ASSUME NEW w \in Work, Exchange!SpendVoid(w)
      PROVE  Goal
  BY <1>11 DEF Exchange!SpendVoid
<1>12. ASSUME NEW w \in Work, Exchange!IssuePair(w)
      PROVE  Goal
  BY <1>12 DEF Exchange!IssuePair
<1>13. ASSUME NEW w \in Work, Exchange!Abort(w)
      PROVE  Goal
  BY <1>13 DEF Exchange!Abort
<1>14. ASSUME NEW w \in Work, NEW t \in Txn, Exchange!Deny(w, t)
      PROVE  Goal
  BY <1>14 DEF Exchange!Deny
<1>15. ASSUME NEW w \in Work, NEW t \in Txn, NEW u \in User, Exchange!Approve(w, u, t)
      PROVE  Goal
  BY <1>15 DEF Exchange!Approve
<1>16. ASSUME NEW w \in Work, NEW t \in Txn, NEW v \in Work, NEW fits \in BOOLEAN,
             NEW jti \in ProofId \cup {None}, Exchange!Exchange(w, v, t, fits, jti)
      PROVE  Goal
  BY <1>16 DEF Exchange!Exchange
<1>17. ASSUME NEW u \in User, Exchange!BlockGrant(u)
      PROVE  Goal
  BY <1>17 DEF Exchange!BlockGrant
<1>18. ASSUME NEW u \in User, NEW live \in BOOLEAN, Exchange!AdvanceAccount(u, live)
      PROVE  Goal
  BY <1>18 DEF Exchange!AdvanceAccount
<1>19. ASSUME Exchange!DisableApplication
      PROVE  Goal
  BY <1>19 DEF Exchange!DisableApplication
<1>20. ASSUME Exchange!EnableApplication
      PROVE  Goal
  BY <1>20 DEF Exchange!EnableApplication
<1>21. ASSUME Exchange!Tick
      PROVE  Goal
  BY <1>21 DEF Exchange!Tick
<1> QED
  BY <1>0, <1>1, <1>2, <1>3, <1>4, <1>5, <1>6, <1>7, <1>8, <1>9, <1>10, <1>11, <1>12,
      <1>13, <1>14, <1>15, <1>16, <1>17, <1>18, <1>19, <1>20, <1>21 DEF Exchange!Next

(* ... and the code of a transaction stays.                                *)
LEMMA AnsweredStays ==
  ASSUME Exchange!ExchangeAssumption, XInv, [Exchange!Next]_Exchange!vars,
         NEW a \in Txn, txn[a].code # None
  PROVE  txn'[a] = txn[a] \/ txn'[a] = [txn[a] EXCEPT !.consumed = TRUE]
<1> txn \in [Txn -> TransactionRow] /\ work \in [Work -> RequestRow]
  BY DEF XInv, XTyped
<1>0. CASE UNCHANGED Exchange!vars
  BY <1>0 DEF Exchange!vars
<1> DEFINE Goal == txn'[a] = txn[a] \/ txn'[a] = [txn[a] EXCEPT !.consumed = TRUE]
<1>1. ASSUME NEW w \in Work, Exchange!FindPending(w)
      PROVE  Goal
  BY <1>1 DEF Exchange!FindPending
<1>2. ASSUME NEW w \in Work, Exchange!ClaimTransaction(w)
      PROVE  Goal
  BY <1>2 DEF Exchange!ClaimTransaction
<1>3. ASSUME NEW w \in Work, Exchange!AllowGrant(w)
      PROVE  Goal
  BY <1>3 DEF Exchange!AllowGrant
<1>4. ASSUME NEW w \in Work, Exchange!Rerun(w)
      PROVE  Goal
  BY <1>4 DEF Exchange!Rerun
<1>5. ASSUME NEW w \in Work, Exchange!CaptureGrantVersion(w)
      PROVE  Goal
  <2>1. work[w].txn \in Txn /\ txn[work[w].txn].code = None
    BY <1>5, RequestNames
       DEF XInv, AnswersSound, AnswerSound, Exchange!CaptureGrantVersion
  <2> QED BY <1>5, <2>1 DEF Exchange!CaptureGrantVersion
<1>6. ASSUME NEW w \in Work, Exchange!SpendCode(w)
      PROVE  Goal
  BY <1>6 DEF Exchange!SpendCode
<1>7. ASSUME NEW w \in Work, Exchange!FindUnspentCode(w)
      PROVE  Goal
  BY <1>7 DEF Exchange!FindUnspentCode, Exchange!FindUnspentCodeUnlocked
<1>8. ASSUME NEW w \in Work, Exchange!ReadAccountForIssuance(w)
      PROVE  Goal
  BY <1>8 DEF Exchange!ReadAccountForIssuance
<1>9. ASSUME NEW w \in Work, Exchange!Judge(w)
      PROVE  Goal
  BY <1>9 DEF Exchange!Judge
<1>10. ASSUME NEW w \in Work, Exchange!AssertSessionLimit(w)
      PROVE  Goal
  BY <1>10 DEF Exchange!AssertSessionLimit
<1>11. ASSUME NEW w \in Work, Exchange!SpendVoid(w)
      PROVE  Goal
  BY <1>11 DEF Exchange!SpendVoid
<1>12. ASSUME NEW w \in Work, Exchange!IssuePair(w)
      PROVE  Goal
  BY <1>12 DEF Exchange!IssuePair
<1>13. ASSUME NEW w \in Work, Exchange!Abort(w)
      PROVE  Goal
  BY <1>13 DEF Exchange!Abort
<1>14. ASSUME NEW w \in Work, NEW t \in Txn, Exchange!Deny(w, t)
      PROVE  Goal
  BY <1>14 DEF Exchange!Deny
<1>15. ASSUME NEW w \in Work, NEW t \in Txn, NEW u \in User, Exchange!Approve(w, u, t)
      PROVE  Goal
  BY <1>15 DEF Exchange!Approve
<1>16. ASSUME NEW w \in Work, NEW t \in Txn, NEW v \in Work, NEW fits \in BOOLEAN,
             NEW jti \in ProofId \cup {None}, Exchange!Exchange(w, v, t, fits, jti)
      PROVE  Goal
  BY <1>16 DEF Exchange!Exchange
<1>17. ASSUME NEW u \in User, Exchange!BlockGrant(u)
      PROVE  Goal
  BY <1>17 DEF Exchange!BlockGrant
<1>18. ASSUME NEW u \in User, NEW live \in BOOLEAN, Exchange!AdvanceAccount(u, live)
      PROVE  Goal
  BY <1>18 DEF Exchange!AdvanceAccount
<1>19. ASSUME Exchange!DisableApplication
      PROVE  Goal
  BY <1>19 DEF Exchange!DisableApplication
<1>20. ASSUME Exchange!EnableApplication
      PROVE  Goal
  BY <1>20 DEF Exchange!EnableApplication
<1>21. ASSUME Exchange!Tick
      PROVE  Goal
  BY <1>21 DEF Exchange!Tick
<1> QED
  BY <1>0, <1>1, <1>2, <1>3, <1>4, <1>5, <1>6, <1>7, <1>8, <1>9, <1>10, <1>11, <1>12,
      <1>13, <1>14, <1>15, <1>16, <1>17, <1>18, <1>19, <1>20, <1>21 DEF Exchange!Next

(* The code an exchange presents is the one of its transaction.            *)
LEMMA CodeOfExchange ==
  ASSUME XInv, Exchange!ExchangeAssumption, NEW w \in Work, work[w].kind = "exchange"
  PROVE  LET c == work[w].code
             t == work[w].txn
         IN /\ c \in Work /\ t \in Txn /\ txn[t].code = c /\ c # None
            /\ work[c].pc = "coded" /\ work[c].kind = "approve" /\ work[c].txn = t
            /\ work[c].user \in User /\ txn[t].user = work[c].user
            /\ txn[t].uv = work[c].uv /\ txn[t].cv = work[c].cv /\ txn[t].gv = work[c].gv
<1>1. /\ work[w].code \in Work /\ work[w].txn \in Txn
      /\ work[work[w].code].pc = "coded" /\ work[work[w].code].txn = work[w].txn
  BY DEF XInv, RequestsSound, RequestSound
<1>2. txn[work[w].txn].code = work[w].code /\ work[w].code # None
  BY <1>1 DEF XInv, AnswersSound, AnswerSound, Exchange!ExchangeAssumption
<1>3. CodeSound(work[w].txn)
  BY <1>1 DEF XInv, CodesSound
<1> QED BY <1>1, <1>2, <1>3, RequestNames DEF CodeSound

LEMMA RequestsStep ==
  ASSUME Exchange!ExchangeAssumption, XInv, [Exchange!Next]_Exchange!vars
  PROVE  RequestsSound'
<1> SUFFICES ASSUME NEW r \in Work
             PROVE  RequestSound(r)'
  BY DEF RequestsSound
<1> /\ work \in [Work -> RequestRow]
    /\ txn \in [Txn -> TransactionRow]
  BY DEF XInv, XTyped
<1>a. RequestSound(r)
  BY DEF XInv, RequestsSound
<1>b. \A c \in Work : work[c].pc = "coded" => work'[c] = work[c]
  BY CodedStays
<1>c. work'[r] = work[r] => RequestSound(r)'
  BY <1>a, <1>b DEF RequestSound
<1>0. CASE UNCHANGED Exchange!vars
  BY <1>0, <1>a, <1>b, <1>c DEF Exchange!vars, RequestSound, Approving, Exchanging,
      HasAccount
<1> DEFINE Goal == RequestSound(r)'
<1>1. ASSUME NEW w \in Work, Exchange!FindPending(w)
      PROVE  Goal
  <2>1. CASE r # w
    BY <1>1, <2>1, <1>c DEF Exchange!FindPending
  <2>2. CASE r = w
    <3>1. /\ work'[w].kind = work[w].kind /\ work'[w].txn = work[w].txn
          /\ work'[w].code = work[w].code /\ work'[w].user = work[w].user
      BY <1>1 DEF RequestRow, Exchange!FindPending
    <3>2. work[w].pc = "account" /\ work'[w].pc \in {"client", "refused"}
      BY <1>1 DEF RequestRow, Exchange!FindPending
    <3> QED
        BY <1>1, <2>2, <3>1, <3>2, <1>a, <1>b DEF RequestSound, Approving, Exchanging,
        HasAccount
  <2> QED BY <2>1, <2>2
<1>2. ASSUME NEW w \in Work, Exchange!ClaimTransaction(w)
      PROVE  Goal
  BY <1>2, <1>a, <1>b, <1>c DEF Exchange!ClaimTransaction, RequestSound, Approving,
      Exchanging, HasAccount
<1>3. ASSUME NEW w \in Work, Exchange!AllowGrant(w)
      PROVE  Goal
  <2>1. CASE r # w
    BY <1>3, <2>1, <1>c DEF Exchange!AllowGrant
  <2>2. CASE r = w
    <3>1. /\ work'[w].kind = work[w].kind /\ work'[w].txn = work[w].txn
          /\ work'[w].code = work[w].code /\ work'[w].user = work[w].user
      BY <1>3 DEF RequestRow, Exchange!AllowGrant
    <3>2. work[w].pc = "granting" /\ work'[w].pc \in {"rerun", "refused", "capturing"}
      BY <1>3 DEF RequestRow, Exchange!AllowGrant
    <3> QED
        BY <1>3, <2>2, <3>1, <3>2, <1>a, <1>b DEF RequestSound, Approving, Exchanging,
        HasAccount
  <2> QED BY <2>1, <2>2
<1>4. ASSUME NEW w \in Work, Exchange!Rerun(w)
      PROVE  Goal
  <2>1. CASE r # w
    BY <1>4, <2>1, <1>c DEF Exchange!Rerun
  <2>2. CASE r = w
    <3>1. /\ work'[w].kind = work[w].kind /\ work'[w].txn = work[w].txn
          /\ work'[w].code = work[w].code /\ work'[w].user = work[w].user
      BY <1>4 DEF RequestRow, Exchange!Rerun
    <3>2. work[w].pc = "rerun" /\ work'[w].pc \in {"found", "refused", "account"}
      BY <1>4 DEF RequestRow, Exchange!Rerun
    <3>3. work'[w].pc = "found" <=> work[w].kind = "exchange"
      BY <1>4 DEF RequestRow, Exchange!Rerun
    <3> QED
        BY <1>4, <2>2, <3>1, <3>2, <3>3, <1>a, <1>b
           DEF RequestSound, Approving, Exchanging,
        HasAccount
  <2> QED BY <2>1, <2>2
<1>5. ASSUME NEW w \in Work, Exchange!CaptureGrantVersion(w)
      PROVE  Goal
  BY <1>5, <1>a, <1>b, <1>c DEF Exchange!CaptureGrantVersion, RequestSound, Approving,
      Exchanging, HasAccount
<1>6. ASSUME NEW w \in Work, Exchange!SpendCode(w)
      PROVE  Goal
  BY <1>6, <1>a, <1>b, <1>c DEF Exchange!SpendCode, RequestSound, Approving, Exchanging,
      HasAccount
<1>7. ASSUME NEW w \in Work, Exchange!FindUnspentCode(w)
      PROVE  Goal
  <2>1. CASE r # w
    BY <1>7, <2>1, <1>c DEF Exchange!FindUnspentCode, Exchange!FindUnspentCodeUnlocked
  <2>2. CASE r = w
    <3>1. /\ work'[w].kind = work[w].kind /\ work'[w].txn = work[w].txn
          /\ work'[w].code = work[w].code 
      BY <1>7 DEF RequestRow, Exchange!FindUnspentCode, Exchange!FindUnspentCodeUnlocked
    <3>2. work[w].pc = "found" /\ work'[w].pc \in {"invalid", "taken"}
      BY <1>7 DEF RequestRow, Exchange!FindUnspentCode, Exchange!FindUnspentCodeUnlocked
    <3>3. work[w].kind = "exchange" /\ work[w].txn \in Txn
      BY <1>7, RequestNames
         DEF Exchange!FindUnspentCode, Exchange!FindUnspentCodeUnlocked
    <3>4. txn[work[w].txn].user = work[work[w].code].user
      BY <3>3, CodeOfExchange
    <3>5. work'[w].pc = "taken" => work'[w].user = txn[work[w].txn].user
      BY <1>7 DEF RequestRow, Exchange!FindUnspentCode, Exchange!FindUnspentCodeUnlocked
    <3> QED
        BY <1>7, <2>2, <3>1, <3>2, <3>3, <3>4, <3>5, <1>a, <1>b
           DEF RequestSound, Approving, Exchanging,
        HasAccount
  <2> QED BY <2>1, <2>2
<1>8. ASSUME NEW w \in Work, Exchange!ReadAccountForIssuance(w)
      PROVE  Goal
  <2>1. CASE r # w
    BY <1>8, <2>1, <1>c DEF Exchange!ReadAccountForIssuance
  <2>2. CASE r = w
    <3>1. /\ work'[w].kind = work[w].kind /\ work'[w].txn = work[w].txn
          /\ work'[w].code = work[w].code /\ work'[w].user = work[w].user
      BY <1>8 DEF RequestRow, Exchange!ReadAccountForIssuance
    <3>2. work[w].pc = "taken" /\ work'[w].pc \in {"rerun", "read"}
      BY <1>8 DEF RequestRow, Exchange!ReadAccountForIssuance
    <3> QED
        BY <1>8, <2>2, <3>1, <3>2, <1>a, <1>b DEF RequestSound, Approving, Exchanging,
        HasAccount
  <2> QED BY <2>1, <2>2
<1>9. ASSUME NEW w \in Work, Exchange!Judge(w)
      PROVE  Goal
  <2>1. PICK p \in {"counting", "voiding"} : Judged(w, p)
    BY <1>9, JudgeDoes
  <2> QED BY <2>1, <1>a, <1>b, <1>c DEF Judged, RequestSound, Approving, Exchanging,
      HasAccount
<1>10. ASSUME NEW w \in Work, Exchange!AssertSessionLimit(w)
      PROVE  Goal
  BY <1>10, <1>a, <1>b, <1>c DEF Exchange!AssertSessionLimit, RequestSound, Approving,
      Exchanging, HasAccount
<1>11. ASSUME NEW w \in Work, Exchange!SpendVoid(w)
      PROVE  Goal
  BY <1>11, <1>a, <1>b, <1>c DEF Exchange!SpendVoid, RequestSound, Approving,
      Exchanging, HasAccount
<1>12. ASSUME NEW w \in Work, Exchange!IssuePair(w)
      PROVE  Goal
  <2>1. CASE r # w
    BY <1>12, <2>1, <1>c DEF Exchange!IssuePair
  <2>2. CASE r = w
    <3>1. /\ work'[w].kind = work[w].kind /\ work'[w].txn = work[w].txn
          /\ work'[w].code = work[w].code /\ work'[w].user = work[w].user
      BY <1>12 DEF RequestRow, Exchange!IssuePair
    <3>2. work[w].pc = "spending" /\ work'[w].pc \in {"invalid", "replayed", "issued"}
      BY <1>12 DEF RequestRow, Exchange!IssuePair
    <3> QED
        BY <1>12, <2>2, <3>1, <3>2, <1>a, <1>b DEF RequestSound, Approving, Exchanging,
        HasAccount
  <2> QED BY <2>1, <2>2
<1>13. ASSUME NEW w \in Work, Exchange!Abort(w)
      PROVE  Goal
  BY <1>13, <1>a, <1>b, <1>c DEF Exchange!Abort, RequestSound, Approving, Exchanging,
      HasAccount
<1>14. ASSUME NEW w \in Work, NEW t \in Txn, Exchange!Deny(w, t)
      PROVE  Goal
  BY <1>14, <1>a, <1>b, <1>c DEF Exchange!Deny, RequestSound, Approving, Exchanging,
      HasAccount, Exchange!NoWork
<1>15. ASSUME NEW w \in Work, NEW t \in Txn, NEW u \in User, Exchange!Approve(w, u, t)
      PROVE  Goal
  BY <1>15, <1>a, <1>b, <1>c DEF Exchange!Approve, RequestSound, Approving, Exchanging,
      HasAccount, Exchange!NoWork
<1>16. ASSUME NEW w \in Work, NEW t \in Txn, NEW v \in Work, NEW fits \in BOOLEAN,
             NEW jti \in ProofId \cup {None}, Exchange!Exchange(w, v, t, fits, jti)
      PROVE  Goal
  <2>1. CASE r # w
    BY <1>16, <2>1, <1>c DEF Exchange!Exchange
  <2>2. CASE r = w
    <3>1. work[v].txn = t
      BY <1>16
         DEF XInv, CodesSound, CodeSound, Exchange!Exchange, Exchange!ExchangeAssumption
    <3>2. work'[v] = work[v] /\ work[v].pc = "coded"
      BY <1>16, <1>b DEF Exchange!Exchange
    <3> QED BY <1>16, <2>2, <3>1, <3>2, NoWorkTyped DEF Exchange!Exchange, RequestRow,
        RequestSound, Approving, Exchanging, HasAccount
  <2> QED BY <2>1, <2>2
<1>17. ASSUME NEW u \in User, Exchange!BlockGrant(u)
      PROVE  Goal
  BY <1>17, <1>a, <1>b, <1>c DEF Exchange!BlockGrant, RequestSound, Approving,
      Exchanging, HasAccount
<1>18. ASSUME NEW u \in User, NEW live \in BOOLEAN, Exchange!AdvanceAccount(u, live)
      PROVE  Goal
  BY <1>18, <1>a, <1>b, <1>c DEF Exchange!AdvanceAccount, RequestSound, Approving,
      Exchanging, HasAccount
<1>19. ASSUME Exchange!DisableApplication
      PROVE  Goal
  BY <1>19, <1>a, <1>b, <1>c DEF Exchange!DisableApplication, RequestSound, Approving,
      Exchanging, HasAccount
<1>20. ASSUME Exchange!EnableApplication
      PROVE  Goal
  BY <1>20, <1>a, <1>b, <1>c DEF Exchange!EnableApplication, RequestSound, Approving,
      Exchanging, HasAccount
<1>21. ASSUME Exchange!Tick
      PROVE  Goal
  BY <1>21, <1>a, <1>b, <1>c DEF Exchange!Tick, RequestSound, Approving, Exchanging,
      HasAccount
<1> QED
  BY <1>0, <1>1, <1>2, <1>3, <1>4, <1>5, <1>6, <1>7, <1>8, <1>9, <1>10, <1>11, <1>12,
      <1>13, <1>14, <1>15, <1>16, <1>17, <1>18, <1>19, <1>20, <1>21 DEF Exchange!Next

LEMMA RowsHeldOnceStep ==
  ASSUME Exchange!ExchangeAssumption, XInv, [Exchange!Next]_Exchange!vars
  PROVE  RowsHeldOnce'
<1> SUFFICES ASSUME NEW r \in Work, NEW q \in Work, r # q
             PROVE  Apart(r, q)'
  BY DEF RowsHeldOnce
<1> work \in [Work -> RequestRow]
  BY DEF XInv, XTyped
<1>a. Apart(r, q)
  BY DEF XInv, RowsHeldOnce
<1>b. work'[r] = work[r] /\ work'[q] = work[q] => Apart(r, q)'
  BY <1>a DEF Apart, Exchange!HoldsTxn, Exchange!HoldsAcct
<1> USE DEF RequestRow
<1>0. CASE UNCHANGED Exchange!vars
  BY <1>0, <1>a, <1>b DEF Exchange!vars, Apart, Exchange!HoldsTxn, Exchange!HoldsAcct,
      Exchange!TxnLocked, Exchange!AcctLocked
<1> DEFINE Goal == Apart(r, q)'
<1>1. ASSUME NEW w \in Work, Exchange!FindPending(w)
      PROVE  Goal
  BY <1>1, <1>a, <1>b DEF Exchange!FindPending, Apart, Exchange!HoldsTxn,
      Exchange!HoldsAcct, Exchange!TxnLocked, Exchange!AcctLocked
<1>2. ASSUME NEW w \in Work, Exchange!ClaimTransaction(w)
      PROVE  Goal
  BY <1>2, <1>a, <1>b DEF Exchange!ClaimTransaction, Apart, Exchange!HoldsTxn,
      Exchange!HoldsAcct, Exchange!TxnLocked, Exchange!AcctLocked
<1>3. ASSUME NEW w \in Work, Exchange!AllowGrant(w)
      PROVE  Goal
  BY <1>3, <1>a, <1>b DEF Exchange!AllowGrant, Apart, Exchange!HoldsTxn,
      Exchange!HoldsAcct, Exchange!TxnLocked, Exchange!AcctLocked
<1>4. ASSUME NEW w \in Work, Exchange!Rerun(w)
      PROVE  Goal
  BY <1>4, <1>a, <1>b DEF Exchange!Rerun, Apart, Exchange!HoldsTxn, Exchange!HoldsAcct,
      Exchange!TxnLocked, Exchange!AcctLocked
<1>5. ASSUME NEW w \in Work, Exchange!CaptureGrantVersion(w)
      PROVE  Goal
  BY <1>5, <1>a, <1>b DEF Exchange!CaptureGrantVersion, Apart, Exchange!HoldsTxn,
      Exchange!HoldsAcct, Exchange!TxnLocked, Exchange!AcctLocked
<1>6. ASSUME NEW w \in Work, Exchange!SpendCode(w)
      PROVE  Goal
  BY <1>6, <1>a, <1>b DEF Exchange!SpendCode, Apart, Exchange!HoldsTxn,
      Exchange!HoldsAcct, Exchange!TxnLocked, Exchange!AcctLocked
<1>7. ASSUME NEW w \in Work, Exchange!FindUnspentCode(w)
      PROVE  Goal
  BY <1>7, <1>a, <1>b DEF Exchange!FindUnspentCode, Exchange!FindUnspentCodeUnlocked,
      Apart, Exchange!HoldsTxn, Exchange!HoldsAcct, Exchange!TxnLocked,
      Exchange!AcctLocked
<1>8. ASSUME NEW w \in Work, Exchange!ReadAccountForIssuance(w)
      PROVE  Goal
  BY <1>8, <1>a, <1>b DEF Exchange!ReadAccountForIssuance, Apart, Exchange!HoldsTxn,
      Exchange!HoldsAcct, Exchange!TxnLocked, Exchange!AcctLocked
<1>9. ASSUME NEW w \in Work, Exchange!Judge(w)
      PROVE  Goal
  BY <1>9, <1>a, <1>b DEF Exchange!Judge, Apart, Exchange!HoldsTxn, Exchange!HoldsAcct,
      Exchange!TxnLocked, Exchange!AcctLocked
<1>10. ASSUME NEW w \in Work, Exchange!AssertSessionLimit(w)
      PROVE  Goal
  BY <1>10, <1>a, <1>b DEF Exchange!AssertSessionLimit, Apart, Exchange!HoldsTxn,
      Exchange!HoldsAcct, Exchange!TxnLocked, Exchange!AcctLocked
<1>11. ASSUME NEW w \in Work, Exchange!SpendVoid(w)
      PROVE  Goal
  BY <1>11, <1>a, <1>b DEF Exchange!SpendVoid, Apart, Exchange!HoldsTxn,
      Exchange!HoldsAcct, Exchange!TxnLocked, Exchange!AcctLocked
<1>12. ASSUME NEW w \in Work, Exchange!IssuePair(w)
      PROVE  Goal
  BY <1>12, <1>a, <1>b DEF Exchange!IssuePair, Apart, Exchange!HoldsTxn,
      Exchange!HoldsAcct, Exchange!TxnLocked, Exchange!AcctLocked
<1>13. ASSUME NEW w \in Work, Exchange!Abort(w)
      PROVE  Goal
  BY <1>13, <1>a, <1>b DEF Exchange!Abort, Apart, Exchange!HoldsTxn, Exchange!HoldsAcct,
      Exchange!TxnLocked, Exchange!AcctLocked
<1>14. ASSUME NEW w \in Work, NEW t \in Txn, Exchange!Deny(w, t)
      PROVE  Goal
  BY <1>14, <1>a, <1>b DEF Exchange!Deny, Apart, Exchange!HoldsTxn, Exchange!HoldsAcct,
      Exchange!TxnLocked, Exchange!AcctLocked, Exchange!NoWork
<1>15. ASSUME NEW w \in Work, NEW t \in Txn, NEW u \in User, Exchange!Approve(w, u, t)
      PROVE  Goal
  BY <1>15, <1>a, <1>b DEF Exchange!Approve, Apart, Exchange!HoldsTxn,
      Exchange!HoldsAcct, Exchange!TxnLocked, Exchange!AcctLocked, Exchange!NoWork
<1>16. ASSUME NEW w \in Work, NEW t \in Txn, NEW v \in Work, NEW fits \in BOOLEAN,
             NEW jti \in ProofId \cup {None}, Exchange!Exchange(w, v, t, fits, jti)
      PROVE  Goal
  BY <1>16, <1>a, <1>b DEF Exchange!Exchange, Apart, Exchange!HoldsTxn,
      Exchange!HoldsAcct, Exchange!TxnLocked, Exchange!AcctLocked, Exchange!NoWork
<1>17. ASSUME NEW u \in User, Exchange!BlockGrant(u)
      PROVE  Goal
  BY <1>17, <1>a, <1>b DEF Exchange!BlockGrant, Apart, Exchange!HoldsTxn,
      Exchange!HoldsAcct, Exchange!TxnLocked, Exchange!AcctLocked
<1>18. ASSUME NEW u \in User, NEW live \in BOOLEAN, Exchange!AdvanceAccount(u, live)
      PROVE  Goal
  BY <1>18, <1>a, <1>b DEF Exchange!AdvanceAccount, Apart, Exchange!HoldsTxn,
      Exchange!HoldsAcct, Exchange!TxnLocked, Exchange!AcctLocked
<1>19. ASSUME Exchange!DisableApplication
      PROVE  Goal
  BY <1>19, <1>a, <1>b DEF Exchange!DisableApplication, Apart, Exchange!HoldsTxn,
      Exchange!HoldsAcct, Exchange!TxnLocked, Exchange!AcctLocked
<1>20. ASSUME Exchange!EnableApplication
      PROVE  Goal
  BY <1>20, <1>a, <1>b DEF Exchange!EnableApplication, Apart, Exchange!HoldsTxn,
      Exchange!HoldsAcct, Exchange!TxnLocked, Exchange!AcctLocked
<1>21. ASSUME Exchange!Tick
      PROVE  Goal
  BY <1>21, <1>a, <1>b DEF Exchange!Tick, Apart, Exchange!HoldsTxn, Exchange!HoldsAcct,
      Exchange!TxnLocked, Exchange!AcctLocked
<1> QED
  BY <1>0, <1>1, <1>2, <1>3, <1>4, <1>5, <1>6, <1>7, <1>8, <1>9, <1>10, <1>11, <1>12,
      <1>13, <1>14, <1>15, <1>16, <1>17, <1>18, <1>19, <1>20, <1>21 DEF Exchange!Next

LEMMA CodesStep ==
  ASSUME Exchange!ExchangeAssumption, XInv, [Exchange!Next]_Exchange!vars
  PROVE  CodesSound'
<1> SUFFICES ASSUME NEW a \in Txn
             PROVE  txn'[a].code # None => CodeSound(a)'
  BY DEF CodesSound, CodeSound
<1> /\ work \in [Work -> RequestRow]
    /\ txn \in [Txn -> TransactionRow]
  BY DEF XInv, XTyped
<1>a. txn[a].code # None => CodeSound(a)'
  <2>1. SUFFICES ASSUME txn[a].code # None
                 PROVE  CodeSound(a)'
    OBVIOUS
  <2>2. CodeSound(a) /\ txn[a].code \in Work
    BY <2>1 DEF XInv, CodesSound, TransactionRow
  <2>3. work'[txn[a].code] = work[txn[a].code]
    BY <2>1, <2>2, CodedStays DEF CodeSound
  <2>4. txn'[a] = txn[a] \/ txn'[a] = [txn[a] EXCEPT !.consumed = TRUE]
    BY <2>1, AnsweredStays
  <2>5. /\ txn'[a].code = txn[a].code /\ txn'[a].user = txn[a].user
        /\ txn'[a].uv = txn[a].uv /\ txn'[a].cv = txn[a].cv /\ txn'[a].gv = txn[a].gv
    BY <2>4 DEF TransactionRow
  <2> QED BY <2>1, <2>2, <2>3, <2>5 DEF CodeSound
<1> USE DEF TransactionRow
<1>0. CASE UNCHANGED Exchange!vars
  BY <1>0, <1>a DEF Exchange!vars
<1> DEFINE Goal == txn'[a].code # None => CodeSound(a)'
<1>1. ASSUME NEW w \in Work, Exchange!FindPending(w)
      PROVE  Goal
  BY <1>1, <1>a DEF Exchange!FindPending
<1>2. ASSUME NEW w \in Work, Exchange!ClaimTransaction(w)
      PROVE  Goal
  BY <1>2, <1>a DEF Exchange!ClaimTransaction
<1>3. ASSUME NEW w \in Work, Exchange!AllowGrant(w)
      PROVE  Goal
  BY <1>3, <1>a DEF Exchange!AllowGrant
<1>4. ASSUME NEW w \in Work, Exchange!Rerun(w)
      PROVE  Goal
  BY <1>4, <1>a DEF Exchange!Rerun
<1>5. ASSUME NEW w \in Work, Exchange!CaptureGrantVersion(w)
      PROVE  Goal
  <2>1. work[w].txn \in Txn
    BY <1>5, RequestNames DEF Exchange!CaptureGrantVersion
  <2>2. CASE a = work[w].txn
    BY <1>5, <2>1, <2>2 DEF Exchange!CaptureGrantVersion, CodeSound, RequestRow
  <2>3. CASE a # work[w].txn
    BY <1>5, <2>1, <2>3, <1>a DEF Exchange!CaptureGrantVersion
  <2> QED BY <2>2, <2>3
<1>6. ASSUME NEW w \in Work, Exchange!SpendCode(w)
      PROVE  Goal
  BY <1>6, <1>a DEF Exchange!SpendCode
<1>7. ASSUME NEW w \in Work, Exchange!FindUnspentCode(w)
      PROVE  Goal
  BY <1>7, <1>a DEF Exchange!FindUnspentCode, Exchange!FindUnspentCodeUnlocked
<1>8. ASSUME NEW w \in Work, Exchange!ReadAccountForIssuance(w)
      PROVE  Goal
  BY <1>8, <1>a DEF Exchange!ReadAccountForIssuance
<1>9. ASSUME NEW w \in Work, Exchange!Judge(w)
      PROVE  Goal
  BY <1>9, <1>a DEF Exchange!Judge
<1>10. ASSUME NEW w \in Work, Exchange!AssertSessionLimit(w)
      PROVE  Goal
  BY <1>10, <1>a DEF Exchange!AssertSessionLimit
<1>11. ASSUME NEW w \in Work, Exchange!SpendVoid(w)
      PROVE  Goal
  BY <1>11, <1>a DEF Exchange!SpendVoid
<1>12. ASSUME NEW w \in Work, Exchange!IssuePair(w)
      PROVE  Goal
  BY <1>12, <1>a DEF Exchange!IssuePair
<1>13. ASSUME NEW w \in Work, Exchange!Abort(w)
      PROVE  Goal
  BY <1>13, <1>a DEF Exchange!Abort
<1>14. ASSUME NEW w \in Work, NEW t \in Txn, Exchange!Deny(w, t)
      PROVE  Goal
  BY <1>14, <1>a DEF Exchange!Deny
<1>15. ASSUME NEW w \in Work, NEW t \in Txn, NEW u \in User, Exchange!Approve(w, u, t)
      PROVE  Goal
  BY <1>15, <1>a DEF Exchange!Approve
<1>16. ASSUME NEW w \in Work, NEW t \in Txn, NEW v \in Work, NEW fits \in BOOLEAN,
             NEW jti \in ProofId \cup {None}, Exchange!Exchange(w, v, t, fits, jti)
      PROVE  Goal
  BY <1>16, <1>a DEF Exchange!Exchange
<1>17. ASSUME NEW u \in User, Exchange!BlockGrant(u)
      PROVE  Goal
  BY <1>17, <1>a DEF Exchange!BlockGrant
<1>18. ASSUME NEW u \in User, NEW live \in BOOLEAN, Exchange!AdvanceAccount(u, live)
      PROVE  Goal
  BY <1>18, <1>a DEF Exchange!AdvanceAccount
<1>19. ASSUME Exchange!DisableApplication
      PROVE  Goal
  BY <1>19, <1>a DEF Exchange!DisableApplication
<1>20. ASSUME Exchange!EnableApplication
      PROVE  Goal
  BY <1>20, <1>a DEF Exchange!EnableApplication
<1>21. ASSUME Exchange!Tick
      PROVE  Goal
  BY <1>21, <1>a DEF Exchange!Tick
<1> QED
  BY <1>0, <1>1, <1>2, <1>3, <1>4, <1>5, <1>6, <1>7, <1>8, <1>9, <1>10, <1>11, <1>12,
      <1>13, <1>14, <1>15, <1>16, <1>17, <1>18, <1>19, <1>20, <1>21 DEF Exchange!Next

LEMMA AnswersStep ==
  ASSUME Exchange!ExchangeAssumption, XInv, [Exchange!Next]_Exchange!vars
  PROVE  AnswersSound'
<1> SUFFICES ASSUME NEW r \in Work
             PROVE  AnswerSound(r)'
  BY DEF AnswersSound
<1> /\ work \in [Work -> RequestRow]
    /\ txn \in [Txn -> TransactionRow]
  BY DEF XInv, XTyped
<1>a. AnswerSound(r)
  BY DEF XInv, AnswersSound
<1>b. work[r].pc \in {"coded", "denied", "granting", "capturing"} => work[r].txn \in Txn
  BY RequestNames
     DEF XInv, RequestsSound, RequestSound, RequestRow, Approving, Exchanging
<1>c. work[r].pc = "coded" => AnswerSound(r)'
  <2>1. SUFFICES ASSUME work[r].pc = "coded"
                 PROVE  AnswerSound(r)'
    OBVIOUS
  <2> DEFINE t == work[r].txn
  <2>2. work'[r] = work[r]
    BY <2>1, CodedStays
  <2>3. t \in Txn /\ txn[t].code = r /\ r # None
    BY <2>1, <1>a, <1>b DEF AnswerSound, Exchange!ExchangeAssumption
  <2>4. txn'[t] = txn[t] \/ txn'[t] = [txn[t] EXCEPT !.consumed = TRUE]
    <3> HIDE DEF t
    <3> QED BY <2>3, AnsweredStays
  <2>5. txn'[t].code = r
    BY <2>3, <2>4 DEF TransactionRow
  <2> QED BY <2>1, <2>2, <2>5 DEF AnswerSound
<1>d. (/\ work'[r] = work[r]
       /\ work[r].txn \in Txn => txn'[work[r].txn] = txn[work[r].txn]) => AnswerSound(r)'
  BY <1>a, <1>b DEF AnswerSound
<1>e. (/\ work'[r] = work[r] /\ work[r].pc \notin {"granting", "capturing"}
       /\ \E t \in Txn : txn' = [txn EXCEPT ![t].consumed = TRUE])
        => AnswerSound(r)'
  BY <1>a, <1>b DEF AnswerSound, TransactionRow
<1> USE DEF TransactionRow, RequestRow
<1>0. CASE UNCHANGED Exchange!vars
  BY <1>0, <1>a, <1>b, <1>c, <1>d DEF Exchange!vars, AnswerSound
<1> DEFINE Goal == AnswerSound(r)'
<1>1. ASSUME NEW w \in Work, Exchange!FindPending(w)
      PROVE  Goal
  BY <1>1, <1>a, <1>b, <1>c, <1>d DEF Exchange!FindPending, AnswerSound
<1>2. ASSUME NEW w \in Work, Exchange!ClaimTransaction(w)
      PROVE  Goal
  <2>1. CASE r # w
    BY <1>2, <2>1, <1>d DEF Exchange!ClaimTransaction
  <2>2. CASE r = w
    BY <1>2, <2>2 DEF Exchange!ClaimTransaction, Exchange!IsPending, AnswerSound
  <2> QED BY <2>1, <2>2
<1>3. ASSUME NEW w \in Work, Exchange!AllowGrant(w)
      PROVE  Goal
  BY <1>3, <1>a, <1>b, <1>c, <1>d DEF Exchange!AllowGrant, AnswerSound
<1>4. ASSUME NEW w \in Work, Exchange!Rerun(w)
      PROVE  Goal
  BY <1>4, <1>a, <1>b, <1>c, <1>d DEF Exchange!Rerun, AnswerSound
<1>5. ASSUME NEW w \in Work, Exchange!CaptureGrantVersion(w)
      PROVE  Goal
  <2>1. work[w].txn \in Txn /\ ~txn[work[w].txn].consumed /\ txn[work[w].txn].code = None
    BY <1>5, RequestNames
       DEF XInv, AnswersSound, AnswerSound, Exchange!CaptureGrantVersion
  <2>2. CASE r = w
    BY <1>5, <2>1, <2>2 DEF Exchange!CaptureGrantVersion, AnswerSound
  <2>3. CASE r # w /\ work[r].txn # work[w].txn
    BY <1>5, <2>1, <2>3, <1>d DEF Exchange!CaptureGrantVersion
  <2>4. CASE r # w /\ work[r].txn = work[w].txn
    <3>1. work[r].pc \notin {"granting", "capturing"}
      BY <1>5, <2>4
         DEF XInv, RowsHeldOnce, Apart, Exchange!HoldsTxn, Exchange!CaptureGrantVersion
    <3>2. work[r].pc \notin {"coded", "denied"}
      BY <2>1, <2>4, <1>a DEF AnswerSound, Exchange!ExchangeAssumption
    <3>3. work'[r] = work[r]
      BY <1>5, <2>4 DEF Exchange!CaptureGrantVersion
    <3> QED BY <3>1, <3>2, <3>3 DEF AnswerSound
  <2> QED BY <2>2, <2>3, <2>4
<1>6. ASSUME NEW w \in Work, Exchange!SpendCode(w)
      PROVE  Goal
  <2>1. work[w].txn \in Txn
    BY <1>6, RequestNames DEF HasAccount, Exchange!SpendCode
  <2>2. CASE r = w
    BY <1>6, <2>2 DEF Exchange!SpendCode, AnswerSound
  <2>3. CASE r # w /\ work[r].txn # work[w].txn
    BY <1>6, <2>1, <2>3, <1>d DEF Exchange!SpendCode
  <2>4. CASE r # w /\ work[r].txn = work[w].txn
    <3>1. work[r].pc \notin {"granting", "capturing"}
      BY <1>6, <2>4 DEF Exchange!TxnLocked, Exchange!HoldsTxn, Exchange!SpendCode
    <3> QED BY <1>6, <2>1, <2>4, <3>1, <1>e DEF Exchange!SpendCode
  <2> QED BY <2>2, <2>3, <2>4
<1>7. ASSUME NEW w \in Work, Exchange!FindUnspentCode(w)
      PROVE  Goal
  BY <1>7, <1>a, <1>b, <1>c, <1>d DEF Exchange!FindUnspentCode,
      Exchange!FindUnspentCodeUnlocked, AnswerSound
<1>8. ASSUME NEW w \in Work, Exchange!ReadAccountForIssuance(w)
      PROVE  Goal
  BY <1>8, <1>a, <1>b, <1>c, <1>d DEF Exchange!ReadAccountForIssuance, AnswerSound
<1>9. ASSUME NEW w \in Work, Exchange!Judge(w)
      PROVE  Goal
  <2>1. PICK p \in {"counting", "voiding"} : Judged(w, p)
    BY <1>9, JudgeDoes
  <2> QED BY <2>1, <1>a, <1>b, <1>c, <1>d DEF Judged, AnswerSound
<1>10. ASSUME NEW w \in Work, Exchange!AssertSessionLimit(w)
      PROVE  Goal
  BY <1>10, <1>a, <1>b, <1>c, <1>d DEF Exchange!AssertSessionLimit, AnswerSound
<1>11. ASSUME NEW w \in Work, Exchange!SpendVoid(w)
      PROVE  Goal
  <2>1. work[w].txn \in Txn
    BY <1>11, RequestNames DEF HasAccount, Exchange!SpendVoid
  <2>2. CASE r = w
    BY <1>11, <2>2 DEF Exchange!SpendVoid, AnswerSound
  <2>3. CASE r # w /\ work[r].txn # work[w].txn
    BY <1>11, <2>1, <2>3, <1>d DEF Exchange!SpendVoid
  <2>4. CASE r # w /\ work[r].txn = work[w].txn
    <3>1. work[r].pc \notin {"granting", "capturing"}
      BY <1>11, <2>4
         DEF XInv, RowsHeldOnce, Apart, Exchange!HoldsTxn, Exchange!SpendVoid
    <3> QED BY <1>11, <2>1, <2>4, <3>1, <1>e DEF Exchange!SpendVoid
  <2> QED BY <2>2, <2>3, <2>4
<1>12. ASSUME NEW w \in Work, Exchange!IssuePair(w)
      PROVE  Goal
  <2>0. /\ r # w => work'[r] = work[r]
        /\ txn' = txn \/ txn' = [txn EXCEPT ![work[w].txn].consumed = TRUE]
    BY <1>12 DEF Exchange!IssuePair
  <2>1. work[w].txn \in Txn
    BY <1>12, RequestNames DEF HasAccount, Exchange!IssuePair
  <2>2. CASE r = w
    BY <1>12, <2>2 DEF Exchange!IssuePair, AnswerSound
  <2>3. CASE r # w /\ work[r].txn # work[w].txn
    BY <2>0, <2>1, <2>3, <1>d
  <2>4. CASE r # w /\ work[r].txn = work[w].txn
    <3>1. work[r].pc \notin {"granting", "capturing"}
      BY <1>12, <2>4
         DEF XInv, RowsHeldOnce, Apart, Exchange!HoldsTxn, Exchange!IssuePair
    <3> QED BY <2>0, <2>1, <2>4, <3>1, <1>d, <1>e
  <2> QED BY <2>2, <2>3, <2>4
<1>13. ASSUME NEW w \in Work, Exchange!Abort(w)
      PROVE  Goal
  BY <1>13, <1>a, <1>b, <1>c, <1>d DEF Exchange!Abort, AnswerSound
<1>14. ASSUME NEW w \in Work, NEW t \in Txn, Exchange!Deny(w, t)
      PROVE  Goal
  <2>1. CASE r = w
    <3>1. work'[w].pc = "denied" /\ work'[w].txn = t
      BY <1>14, NoWorkTyped DEF Exchange!Deny
    <3>2. txn'[t].consumed /\ txn'[t].code = None
      BY <1>14 DEF Exchange!Deny, Exchange!Deniable, Exchange!IsPending
    <3> QED BY <2>1, <3>1, <3>2 DEF AnswerSound
  <2>2. CASE r # w /\ work[r].txn # t
    BY <1>14, <2>2, <1>d DEF Exchange!Deny
  <2>3. CASE r # w /\ work[r].txn = t
    <3>1. work[r].pc \notin {"granting", "capturing"}
      BY <1>14, <2>3 DEF Exchange!HoldsTxn, Exchange!Deny
    <3> QED BY <1>14, <2>3, <3>1, <1>e DEF Exchange!Deny
  <2> QED BY <2>1, <2>2, <2>3
<1>15. ASSUME NEW w \in Work, NEW t \in Txn, NEW u \in User, Exchange!Approve(w, u, t)
      PROVE  Goal
  BY <1>15, <1>a, <1>b, <1>c, <1>d DEF Exchange!Approve, AnswerSound, Exchange!NoWork
<1>16. ASSUME NEW w \in Work, NEW t \in Txn, NEW v \in Work, NEW fits \in BOOLEAN,
             NEW jti \in ProofId \cup {None}, Exchange!Exchange(w, v, t, fits, jti)
      PROVE  Goal
  BY <1>16, <1>a, <1>b, <1>c, <1>d DEF Exchange!Exchange, AnswerSound, Exchange!NoWork
<1>17. ASSUME NEW u \in User, Exchange!BlockGrant(u)
      PROVE  Goal
  BY <1>17, <1>a, <1>b, <1>c, <1>d DEF Exchange!BlockGrant, AnswerSound
<1>18. ASSUME NEW u \in User, NEW live \in BOOLEAN, Exchange!AdvanceAccount(u, live)
      PROVE  Goal
  BY <1>18, <1>a, <1>b, <1>c, <1>d DEF Exchange!AdvanceAccount, AnswerSound
<1>19. ASSUME Exchange!DisableApplication
      PROVE  Goal
  BY <1>19, <1>a, <1>b, <1>c, <1>d DEF Exchange!DisableApplication, AnswerSound
<1>20. ASSUME Exchange!EnableApplication
      PROVE  Goal
  BY <1>20, <1>a, <1>b, <1>c, <1>d DEF Exchange!EnableApplication, AnswerSound
<1>21. ASSUME Exchange!Tick
      PROVE  Goal
  BY <1>21, <1>a, <1>b, <1>c, <1>d DEF Exchange!Tick, AnswerSound
<1> QED
  BY <1>0, <1>1, <1>2, <1>3, <1>4, <1>5, <1>6, <1>7, <1>8, <1>9, <1>10, <1>11, <1>12,
      <1>13, <1>14, <1>15, <1>16, <1>17, <1>18, <1>19, <1>20, <1>21 DEF Exchange!Next

LEMMA AccountReadStep ==
  ASSUME Exchange!ExchangeAssumption, XInv, [Exchange!Next]_Exchange!vars,
         NEW r \in Work
  PROVE  AccountRead(r)'
<1> /\ work \in [Work -> RequestRow]
    /\ acct \in [User -> [live : BOOLEAN, version : Nat]]
    /\ app \in [enabled : BOOLEAN, version : Nat]
    /\ grant \in [User -> [allowed : BOOLEAN, version : Nat] \cup {Exchange!NoGrant}]
  BY DEF XInv, XTyped
<1>a. AccountRead(r)
  BY DEF XInv, ApprovalsSound
<1>b. work[r].pc \in {"account", "client", "granting", "capturing", "coded"} =>
        work[r].user \in User /\ work[r].kind = "approve"
  BY RequestNames
<1>c. work'[r] = work[r] /\ acct' = acct /\ (r \in withdrawn => r \in withdrawn')
       => AccountRead(r)'
  BY <1>a, <1>b DEF AccountRead
<1> USE DEF RequestRow
<1>0. CASE UNCHANGED Exchange!vars
  BY <1>0, <1>a, <1>b, <1>c DEF Exchange!vars, AccountRead
<1> DEFINE Goal == AccountRead(r)'
<1>1. ASSUME NEW w \in Work, Exchange!FindPending(w)
      PROVE  Goal
  BY <1>1, <1>a, <1>b, <1>c DEF Exchange!FindPending, AccountRead
<1>2. ASSUME NEW w \in Work, Exchange!ClaimTransaction(w)
      PROVE  Goal
  BY <1>2, <1>a, <1>b, <1>c DEF Exchange!ClaimTransaction, AccountRead
<1>3. ASSUME NEW w \in Work, Exchange!AllowGrant(w)
      PROVE  Goal
  BY <1>3, <1>a, <1>b, <1>c DEF Exchange!AllowGrant, AccountRead
<1>4. ASSUME NEW w \in Work, Exchange!Rerun(w)
      PROVE  Goal
  BY <1>4, <1>a, <1>b, <1>c DEF Exchange!Rerun, AccountRead
<1>5. ASSUME NEW w \in Work, Exchange!CaptureGrantVersion(w)
      PROVE  Goal
  BY <1>5, <1>a, <1>b, <1>c DEF Exchange!CaptureGrantVersion, AccountRead
<1>6. ASSUME NEW w \in Work, Exchange!SpendCode(w)
      PROVE  Goal
  BY <1>6, <1>a, <1>b, <1>c DEF Exchange!SpendCode, AccountRead
<1>7. ASSUME NEW w \in Work, Exchange!FindUnspentCode(w)
      PROVE  Goal
  BY <1>7, <1>a, <1>b, <1>c DEF Exchange!FindUnspentCode,
      Exchange!FindUnspentCodeUnlocked, AccountRead
<1>8. ASSUME NEW w \in Work, Exchange!ReadAccountForIssuance(w)
      PROVE  Goal
  BY <1>8, <1>a, <1>b, <1>c DEF Exchange!ReadAccountForIssuance, AccountRead
<1>9. ASSUME NEW w \in Work, Exchange!Judge(w)
      PROVE  Goal
  BY <1>9, <1>a, <1>b, <1>c DEF Exchange!Judge, AccountRead
<1>10. ASSUME NEW w \in Work, Exchange!AssertSessionLimit(w)
      PROVE  Goal
  BY <1>10, <1>a, <1>b, <1>c DEF Exchange!AssertSessionLimit, AccountRead
<1>11. ASSUME NEW w \in Work, Exchange!SpendVoid(w)
      PROVE  Goal
  BY <1>11, <1>a, <1>b, <1>c DEF Exchange!SpendVoid, AccountRead
<1>12. ASSUME NEW w \in Work, Exchange!IssuePair(w)
      PROVE  Goal
  BY <1>12, <1>a, <1>b, <1>c DEF Exchange!IssuePair, AccountRead
<1>13. ASSUME NEW w \in Work, Exchange!Abort(w)
      PROVE  Goal
  BY <1>13, <1>a, <1>b, <1>c DEF Exchange!Abort, AccountRead
<1>14. ASSUME NEW w \in Work, NEW t \in Txn, Exchange!Deny(w, t)
      PROVE  Goal
  BY <1>14, <1>a, <1>b, <1>c DEF Exchange!Deny, AccountRead, Exchange!NoWork
<1>15. ASSUME NEW w \in Work, NEW t \in Txn, NEW u \in User, Exchange!Approve(w, u, t)
      PROVE  Goal
  BY <1>15, <1>a, <1>b, <1>c DEF Exchange!Approve, AccountRead, Exchange!NoWork
<1>16. ASSUME NEW w \in Work, NEW t \in Txn, NEW v \in Work, NEW fits \in BOOLEAN,
             NEW jti \in ProofId \cup {None}, Exchange!Exchange(w, v, t, fits, jti)
      PROVE  Goal
  BY <1>16, <1>a, <1>b, <1>c DEF Exchange!Exchange, AccountRead, Exchange!NoWork
<1>17. ASSUME NEW u \in User, Exchange!BlockGrant(u)
      PROVE  Goal
  BY <1>17, <1>a, <1>b, <1>c DEF Exchange!BlockGrant, AccountRead, Exchange!Change,
      Exchange!Approvals
<1>18. ASSUME NEW u \in User, NEW live \in BOOLEAN, Exchange!AdvanceAccount(u, live)
      PROVE  Goal
  BY <1>18, <1>a, <1>b, <1>c DEF Exchange!AdvanceAccount, AccountRead, Exchange!Change,
      Exchange!Approvals
<1>19. ASSUME Exchange!DisableApplication
      PROVE  Goal
  BY <1>19, <1>a, <1>b, <1>c DEF Exchange!DisableApplication, AccountRead,
      Exchange!Change, Exchange!Approvals
<1>20. ASSUME Exchange!EnableApplication
      PROVE  Goal
  BY <1>20, <1>a, <1>b, <1>c DEF Exchange!EnableApplication, AccountRead
<1>21. ASSUME Exchange!Tick
      PROVE  Goal
  BY <1>21, <1>a, <1>b, <1>c DEF Exchange!Tick, AccountRead
<1> QED
  BY <1>0, <1>1, <1>2, <1>3, <1>4, <1>5, <1>6, <1>7, <1>8, <1>9, <1>10, <1>11, <1>12,
      <1>13, <1>14, <1>15, <1>16, <1>17, <1>18, <1>19, <1>20, <1>21 DEF Exchange!Next

LEMMA ApplicationReadStep ==
  ASSUME Exchange!ExchangeAssumption, XInv, [Exchange!Next]_Exchange!vars,
         NEW r \in Work
  PROVE  ApplicationRead(r)'
<1> /\ work \in [Work -> RequestRow]
    /\ acct \in [User -> [live : BOOLEAN, version : Nat]]
    /\ app \in [enabled : BOOLEAN, version : Nat]
    /\ grant \in [User -> [allowed : BOOLEAN, version : Nat] \cup {Exchange!NoGrant}]
  BY DEF XInv, XTyped
<1>a. ApplicationRead(r)
  BY DEF XInv, ApprovalsSound
<1>b. work[r].pc \in {"account", "client", "granting", "capturing", "coded"} =>
        work[r].user \in User /\ work[r].kind = "approve"
  BY RequestNames
<1>c. work'[r] = work[r] /\ app' = app /\ (r \in withdrawn => r \in withdrawn')
       => ApplicationRead(r)'
  BY <1>a, <1>b DEF ApplicationRead
<1> USE DEF RequestRow
<1>0. CASE UNCHANGED Exchange!vars
  BY <1>0, <1>a, <1>b, <1>c DEF Exchange!vars, ApplicationRead
<1> DEFINE Goal == ApplicationRead(r)'
<1>1. ASSUME NEW w \in Work, Exchange!FindPending(w)
      PROVE  Goal
  BY <1>1, <1>a, <1>b, <1>c DEF Exchange!FindPending, ApplicationRead
<1>2. ASSUME NEW w \in Work, Exchange!ClaimTransaction(w)
      PROVE  Goal
  BY <1>2, <1>a, <1>b, <1>c DEF Exchange!ClaimTransaction, ApplicationRead
<1>3. ASSUME NEW w \in Work, Exchange!AllowGrant(w)
      PROVE  Goal
  BY <1>3, <1>a, <1>b, <1>c DEF Exchange!AllowGrant, ApplicationRead
<1>4. ASSUME NEW w \in Work, Exchange!Rerun(w)
      PROVE  Goal
  BY <1>4, <1>a, <1>b, <1>c DEF Exchange!Rerun, ApplicationRead
<1>5. ASSUME NEW w \in Work, Exchange!CaptureGrantVersion(w)
      PROVE  Goal
  BY <1>5, <1>a, <1>b, <1>c DEF Exchange!CaptureGrantVersion, ApplicationRead
<1>6. ASSUME NEW w \in Work, Exchange!SpendCode(w)
      PROVE  Goal
  BY <1>6, <1>a, <1>b, <1>c DEF Exchange!SpendCode, ApplicationRead
<1>7. ASSUME NEW w \in Work, Exchange!FindUnspentCode(w)
      PROVE  Goal
  BY <1>7, <1>a, <1>b, <1>c DEF Exchange!FindUnspentCode,
      Exchange!FindUnspentCodeUnlocked, ApplicationRead
<1>8. ASSUME NEW w \in Work, Exchange!ReadAccountForIssuance(w)
      PROVE  Goal
  BY <1>8, <1>a, <1>b, <1>c DEF Exchange!ReadAccountForIssuance, ApplicationRead
<1>9. ASSUME NEW w \in Work, Exchange!Judge(w)
      PROVE  Goal
  BY <1>9, <1>a, <1>b, <1>c DEF Exchange!Judge, ApplicationRead
<1>10. ASSUME NEW w \in Work, Exchange!AssertSessionLimit(w)
      PROVE  Goal
  BY <1>10, <1>a, <1>b, <1>c DEF Exchange!AssertSessionLimit, ApplicationRead
<1>11. ASSUME NEW w \in Work, Exchange!SpendVoid(w)
      PROVE  Goal
  BY <1>11, <1>a, <1>b, <1>c DEF Exchange!SpendVoid, ApplicationRead
<1>12. ASSUME NEW w \in Work, Exchange!IssuePair(w)
      PROVE  Goal
  BY <1>12, <1>a, <1>b, <1>c DEF Exchange!IssuePair, ApplicationRead
<1>13. ASSUME NEW w \in Work, Exchange!Abort(w)
      PROVE  Goal
  BY <1>13, <1>a, <1>b, <1>c DEF Exchange!Abort, ApplicationRead
<1>14. ASSUME NEW w \in Work, NEW t \in Txn, Exchange!Deny(w, t)
      PROVE  Goal
  BY <1>14, <1>a, <1>b, <1>c DEF Exchange!Deny, ApplicationRead, Exchange!NoWork
<1>15. ASSUME NEW w \in Work, NEW t \in Txn, NEW u \in User, Exchange!Approve(w, u, t)
      PROVE  Goal
  BY <1>15, <1>a, <1>b, <1>c DEF Exchange!Approve, ApplicationRead, Exchange!NoWork
<1>16. ASSUME NEW w \in Work, NEW t \in Txn, NEW v \in Work, NEW fits \in BOOLEAN,
             NEW jti \in ProofId \cup {None}, Exchange!Exchange(w, v, t, fits, jti)
      PROVE  Goal
  BY <1>16, <1>a, <1>b, <1>c DEF Exchange!Exchange, ApplicationRead, Exchange!NoWork
<1>17. ASSUME NEW u \in User, Exchange!BlockGrant(u)
      PROVE  Goal
  BY <1>17, <1>a, <1>b, <1>c DEF Exchange!BlockGrant, ApplicationRead, Exchange!Change,
      Exchange!Approvals
<1>18. ASSUME NEW u \in User, NEW live \in BOOLEAN, Exchange!AdvanceAccount(u, live)
      PROVE  Goal
  BY <1>18, <1>a, <1>b, <1>c DEF Exchange!AdvanceAccount, ApplicationRead,
      Exchange!Change, Exchange!Approvals
<1>19. ASSUME Exchange!DisableApplication
      PROVE  Goal
  BY <1>19, <1>a, <1>b, <1>c DEF Exchange!DisableApplication, ApplicationRead,
      Exchange!Change, Exchange!Approvals
<1>20. ASSUME Exchange!EnableApplication
      PROVE  Goal
  BY <1>20, <1>a, <1>b, <1>c DEF Exchange!EnableApplication, ApplicationRead
<1>21. ASSUME Exchange!Tick
      PROVE  Goal
  BY <1>21, <1>a, <1>b, <1>c DEF Exchange!Tick, ApplicationRead
<1> QED
  BY <1>0, <1>1, <1>2, <1>3, <1>4, <1>5, <1>6, <1>7, <1>8, <1>9, <1>10, <1>11, <1>12,
      <1>13, <1>14, <1>15, <1>16, <1>17, <1>18, <1>19, <1>20, <1>21 DEF Exchange!Next

LEMMA GrantReadStep ==
  ASSUME Exchange!ExchangeAssumption, XInv, [Exchange!Next]_Exchange!vars,
         NEW r \in Work
  PROVE  GrantRead(r)'
<1> /\ work \in [Work -> RequestRow]
    /\ acct \in [User -> [live : BOOLEAN, version : Nat]]
    /\ app \in [enabled : BOOLEAN, version : Nat]
    /\ grant \in [User -> [allowed : BOOLEAN, version : Nat] \cup {Exchange!NoGrant}]
  BY DEF XInv, XTyped
<1>a. GrantRead(r)
  BY DEF XInv, ApprovalsSound
<1>b. work[r].pc \in {"account", "client", "granting", "capturing", "coded"} =>
        work[r].user \in User /\ work[r].kind = "approve"
  BY RequestNames
<1>c. work'[r] = work[r] /\ grant' = grant /\ (r \in withdrawn => r \in withdrawn')
       => GrantRead(r)'
  BY <1>a, <1>b DEF GrantRead
<1> USE DEF RequestRow
<1>0. CASE UNCHANGED Exchange!vars
  BY <1>0, <1>a, <1>b, <1>c DEF Exchange!vars, GrantRead
<1> DEFINE Goal == GrantRead(r)'
<1>1. ASSUME NEW w \in Work, Exchange!FindPending(w)
      PROVE  Goal
  BY <1>1, <1>a, <1>b, <1>c DEF Exchange!FindPending, GrantRead
<1>2. ASSUME NEW w \in Work, Exchange!ClaimTransaction(w)
      PROVE  Goal
  BY <1>2, <1>a, <1>b, <1>c DEF Exchange!ClaimTransaction, GrantRead
<1>3. ASSUME NEW w \in Work, Exchange!AllowGrant(w)
      PROVE  Goal
  BY <1>3, <1>a, <1>b, <1>c DEF Exchange!AllowGrant, GrantRead, Exchange!NoGrant,
      Exchange!FirstGrant
<1>4. ASSUME NEW w \in Work, Exchange!Rerun(w)
      PROVE  Goal
  BY <1>4, <1>a, <1>b, <1>c DEF Exchange!Rerun, GrantRead
<1>5. ASSUME NEW w \in Work, Exchange!CaptureGrantVersion(w)
      PROVE  Goal
  BY <1>5, <1>a, <1>b, <1>c DEF Exchange!CaptureGrantVersion, GrantRead,
      Exchange!NoGrant, Exchange!FirstGrant
<1>6. ASSUME NEW w \in Work, Exchange!SpendCode(w)
      PROVE  Goal
  BY <1>6, <1>a, <1>b, <1>c DEF Exchange!SpendCode, GrantRead
<1>7. ASSUME NEW w \in Work, Exchange!FindUnspentCode(w)
      PROVE  Goal
  BY <1>7, <1>a, <1>b, <1>c DEF Exchange!FindUnspentCode,
      Exchange!FindUnspentCodeUnlocked, GrantRead
<1>8. ASSUME NEW w \in Work, Exchange!ReadAccountForIssuance(w)
      PROVE  Goal
  BY <1>8, <1>a, <1>b, <1>c DEF Exchange!ReadAccountForIssuance, GrantRead
<1>9. ASSUME NEW w \in Work, Exchange!Judge(w)
      PROVE  Goal
  <2>1. PICK p \in {"counting", "voiding"} : Judged(w, p)
    BY <1>9, JudgeDoes
  <2> QED BY <2>1, <1>a, <1>b, <1>c DEF Judged, GrantRead
<1>10. ASSUME NEW w \in Work, Exchange!AssertSessionLimit(w)
      PROVE  Goal
  BY <1>10, <1>a, <1>b, <1>c DEF Exchange!AssertSessionLimit, GrantRead
<1>11. ASSUME NEW w \in Work, Exchange!SpendVoid(w)
      PROVE  Goal
  BY <1>11, <1>a, <1>b, <1>c DEF Exchange!SpendVoid, GrantRead
<1>12. ASSUME NEW w \in Work, Exchange!IssuePair(w)
      PROVE  Goal
  BY <1>12, <1>a, <1>b, <1>c DEF Exchange!IssuePair, GrantRead
<1>13. ASSUME NEW w \in Work, Exchange!Abort(w)
      PROVE  Goal
  BY <1>13, <1>a, <1>b, <1>c DEF Exchange!Abort, GrantRead
<1>14. ASSUME NEW w \in Work, NEW t \in Txn, Exchange!Deny(w, t)
      PROVE  Goal
  BY <1>14, <1>a, <1>b, <1>c DEF Exchange!Deny, GrantRead, Exchange!NoWork
<1>15. ASSUME NEW w \in Work, NEW t \in Txn, NEW u \in User, Exchange!Approve(w, u, t)
      PROVE  Goal
  BY <1>15, <1>a, <1>b, <1>c DEF Exchange!Approve, GrantRead, Exchange!NoWork
<1>16. ASSUME NEW w \in Work, NEW t \in Txn, NEW v \in Work, NEW fits \in BOOLEAN,
             NEW jti \in ProofId \cup {None}, Exchange!Exchange(w, v, t, fits, jti)
      PROVE  Goal
  BY <1>16, <1>a, <1>b, <1>c DEF Exchange!Exchange, GrantRead, Exchange!NoWork
<1>17. ASSUME NEW u \in User, Exchange!BlockGrant(u)
      PROVE  Goal
  BY <1>17, <1>a, <1>b, <1>c DEF Exchange!BlockGrant, GrantRead, Exchange!Change,
      Exchange!Approvals, Exchange!AcctFree, Exchange!HoldsAcct, Exchange!NoGrant
<1>18. ASSUME NEW u \in User, NEW live \in BOOLEAN, Exchange!AdvanceAccount(u, live)
      PROVE  Goal
  BY <1>18, <1>a, <1>b, <1>c DEF Exchange!AdvanceAccount, GrantRead, Exchange!Change,
      Exchange!Approvals
<1>19. ASSUME Exchange!DisableApplication
      PROVE  Goal
  BY <1>19, <1>a, <1>b, <1>c DEF Exchange!DisableApplication, GrantRead,
      Exchange!Change, Exchange!Approvals
<1>20. ASSUME Exchange!EnableApplication
      PROVE  Goal
  BY <1>20, <1>a, <1>b, <1>c DEF Exchange!EnableApplication, GrantRead
<1>21. ASSUME Exchange!Tick
      PROVE  Goal
  BY <1>21, <1>a, <1>b, <1>c DEF Exchange!Tick, GrantRead
<1> QED
  BY <1>0, <1>1, <1>2, <1>3, <1>4, <1>5, <1>6, <1>7, <1>8, <1>9, <1>10, <1>11, <1>12,
      <1>13, <1>14, <1>15, <1>16, <1>17, <1>18, <1>19, <1>20, <1>21 DEF Exchange!Next

LEMMA WithdrawnBehindStep ==
  ASSUME Exchange!ExchangeAssumption, XInv, [Exchange!Next]_Exchange!vars,
         NEW r \in Work
  PROVE  WithdrawnBehind(r)'
<1> /\ work \in [Work -> RequestRow]
    /\ acct \in [User -> [live : BOOLEAN, version : Nat]]
    /\ app \in [enabled : BOOLEAN, version : Nat]
    /\ grant \in [User -> [allowed : BOOLEAN, version : Nat] \cup {Exchange!NoGrant}]
    /\ RequestSound(r)
  BY DEF XInv, XTyped, RequestsSound
<1>a. WithdrawnBehind(r) /\ AccountRead(r) /\ ApplicationRead(r) /\ GrantRead(r)
  BY DEF XInv, ApprovalsSound
<1>b. work[r].pc \in {"account", "client", "granting", "capturing", "coded"}
       => work[r].user \in User /\ work[r].kind = "approve"
  BY RequestNames
<1>c. (/\ work'[r] = work[r] /\ acct' = acct /\ app' = app /\ grant' = grant
       /\ r \in withdrawn' => r \in withdrawn) => WithdrawnBehind(r)'
  BY <1>a DEF WithdrawnBehind, Behind
<1> USE DEF RequestRow
<1>0. CASE UNCHANGED Exchange!vars
  BY <1>0, <1>a, <1>b, <1>c DEF Exchange!vars, WithdrawnBehind, Behind
<1> DEFINE Goal == WithdrawnBehind(r)'
<1>1. ASSUME NEW w \in Work, Exchange!FindPending(w)
      PROVE  Goal
  BY <1>1, <1>a, <1>b, <1>c DEF Exchange!FindPending, WithdrawnBehind, Behind
<1>2. ASSUME NEW w \in Work, Exchange!ClaimTransaction(w)
      PROVE  Goal
  BY <1>2, <1>a, <1>b, <1>c DEF Exchange!ClaimTransaction, WithdrawnBehind, Behind
<1>3. ASSUME NEW w \in Work, Exchange!AllowGrant(w)
      PROVE  Goal
  BY <1>3, <1>a, <1>b, <1>c DEF Exchange!AllowGrant, WithdrawnBehind, Behind
<1>4. ASSUME NEW w \in Work, Exchange!Rerun(w)
      PROVE  Goal
  BY <1>4, <1>a, <1>b, <1>c DEF Exchange!Rerun, WithdrawnBehind, Behind
<1>5. ASSUME NEW w \in Work, Exchange!CaptureGrantVersion(w)
      PROVE  Goal
  BY <1>5, <1>a, <1>b, <1>c DEF Exchange!CaptureGrantVersion, WithdrawnBehind, Behind,
      Exchange!NoGrant, Exchange!FirstGrant, GrantRead
<1>6. ASSUME NEW w \in Work, Exchange!SpendCode(w)
      PROVE  Goal
  BY <1>6, <1>a, <1>b, <1>c DEF Exchange!SpendCode, WithdrawnBehind, Behind
<1>7. ASSUME NEW w \in Work, Exchange!FindUnspentCode(w)
      PROVE  Goal
  BY <1>7, <1>a, <1>b, <1>c DEF Exchange!FindUnspentCode,
      Exchange!FindUnspentCodeUnlocked, WithdrawnBehind, Behind
<1>8. ASSUME NEW w \in Work, Exchange!ReadAccountForIssuance(w)
      PROVE  Goal
  BY <1>8, <1>a, <1>b, <1>c DEF Exchange!ReadAccountForIssuance, WithdrawnBehind, Behind
<1>9. ASSUME NEW w \in Work, Exchange!Judge(w)
      PROVE  Goal
  BY <1>9, <1>a, <1>b, <1>c DEF Exchange!Judge, WithdrawnBehind, Behind
<1>10. ASSUME NEW w \in Work, Exchange!AssertSessionLimit(w)
      PROVE  Goal
  BY <1>10, <1>a, <1>b, <1>c DEF Exchange!AssertSessionLimit, WithdrawnBehind, Behind
<1>11. ASSUME NEW w \in Work, Exchange!SpendVoid(w)
      PROVE  Goal
  BY <1>11, <1>a, <1>b, <1>c DEF Exchange!SpendVoid, WithdrawnBehind, Behind
<1>12. ASSUME NEW w \in Work, Exchange!IssuePair(w)
      PROVE  Goal
  BY <1>12, <1>a, <1>b, <1>c DEF Exchange!IssuePair, WithdrawnBehind, Behind
<1>13. ASSUME NEW w \in Work, Exchange!Abort(w)
      PROVE  Goal
  BY <1>13, <1>a, <1>b, <1>c DEF Exchange!Abort, WithdrawnBehind, Behind
<1>14. ASSUME NEW w \in Work, NEW t \in Txn, Exchange!Deny(w, t)
      PROVE  Goal
  BY <1>14, <1>a, <1>b, <1>c DEF Exchange!Deny, WithdrawnBehind, Behind,
      Exchange!NoWork, RequestSound
<1>15. ASSUME NEW w \in Work, NEW t \in Txn, NEW u \in User, Exchange!Approve(w, u, t)
      PROVE  Goal
  BY <1>15, <1>a, <1>b, <1>c DEF Exchange!Approve, WithdrawnBehind, Behind,
      Exchange!NoWork, RequestSound
<1>16. ASSUME NEW w \in Work, NEW t \in Txn, NEW v \in Work, NEW fits \in BOOLEAN,
             NEW jti \in ProofId \cup {None}, Exchange!Exchange(w, v, t, fits, jti)
      PROVE  Goal
  BY <1>16, <1>a, <1>b, <1>c DEF Exchange!Exchange, WithdrawnBehind, Behind,
      Exchange!NoWork, RequestSound
<1>17. ASSUME NEW u \in User, Exchange!BlockGrant(u)
      PROVE  Goal
  BY <1>17, <1>a, <1>b, <1>c DEF Exchange!BlockGrant, WithdrawnBehind, Behind,
      Exchange!Change, Exchange!Approvals, Exchange!AcctFree, Exchange!HoldsAcct,
      Exchange!NoGrant, GrantRead
<1>18. ASSUME NEW u \in User, NEW live \in BOOLEAN, Exchange!AdvanceAccount(u, live)
      PROVE  Goal
  BY <1>18, <1>a, <1>b, <1>c DEF Exchange!AdvanceAccount, WithdrawnBehind, Behind,
      Exchange!Change, Exchange!Approvals, AccountRead
<1>19. ASSUME Exchange!DisableApplication
      PROVE  Goal
  BY <1>19, <1>a, <1>b, <1>c DEF Exchange!DisableApplication, WithdrawnBehind, Behind,
      Exchange!Change, Exchange!Approvals, ApplicationRead
<1>20. ASSUME Exchange!EnableApplication
      PROVE  Goal
  BY <1>20, <1>a, <1>b, <1>c DEF Exchange!EnableApplication, WithdrawnBehind, Behind
<1>21. ASSUME Exchange!Tick
      PROVE  Goal
  BY <1>21, <1>a, <1>b, <1>c DEF Exchange!Tick, WithdrawnBehind, Behind
<1> QED
  BY <1>0, <1>1, <1>2, <1>3, <1>4, <1>5, <1>6, <1>7, <1>8, <1>9, <1>10, <1>11, <1>12,
      <1>13, <1>14, <1>15, <1>16, <1>17, <1>18, <1>19, <1>20, <1>21 DEF Exchange!Next

(* A session that holds authority after a step held it before.             *)
LEMMA StandsBefore ==
  ASSUME Exchange!ExchangeAssumption, XInv, [Exchange!Next]_Exchange!vars,
         NEW s \in sessions, Exchange!Stands(s)'
  PROVE  Exchange!Stands(s)
<1> /\ work \in [Work -> RequestRow]
    /\ acct \in [User -> [live : BOOLEAN, version : Nat]]
    /\ app \in [enabled : BOOLEAN, version : Nat]
    /\ grant \in [User -> [allowed : BOOLEAN, version : Nat] \cup {Exchange!NoGrant}]
    /\ s \in NativeSessionRow
  BY DEF XInv, XTyped
<1>d. s.code \in Work /\ s.user \in User
  BY DEF NativeSessionRow
<1>a. SessionSound(s) /\ AccountRead(s.code) /\ ApplicationRead(s.code)
        /\ GrantRead(s.code)
  BY <1>d DEF XInv, SessionsSound, ApprovalsSound
<1>b. /\ s.uv <= acct[s.user].version /\ s.cv <= app.version
      /\ s.cv = app.version => app.enabled
      /\ grant[s.user] # Exchange!NoGrant
  BY <1>a DEF SessionSound, AccountRead, ApplicationRead, GrantRead
<1>c. s.uv \in Int /\ s.cv \in Int /\ s.gv \in Int
  BY DEF NativeSessionRow
<1>0. CASE UNCHANGED Exchange!vars
  BY <1>0, <1>d, <1>b, <1>c DEF Exchange!vars, Exchange!Stands
<1> DEFINE Goal == Exchange!Stands(s)
<1>1. ASSUME NEW w \in Work, Exchange!FindPending(w)
      PROVE  Goal
  BY <1>1, <1>d, <1>b, <1>c DEF Exchange!FindPending, Exchange!Stands
<1>2. ASSUME NEW w \in Work, Exchange!ClaimTransaction(w)
      PROVE  Goal
  BY <1>2, <1>d, <1>b, <1>c DEF Exchange!ClaimTransaction, Exchange!Stands
<1>3. ASSUME NEW w \in Work, Exchange!AllowGrant(w)
      PROVE  Goal
  BY <1>3, <1>d, <1>b, <1>c DEF Exchange!AllowGrant, Exchange!Stands
<1>4. ASSUME NEW w \in Work, Exchange!Rerun(w)
      PROVE  Goal
  BY <1>4, <1>d, <1>b, <1>c DEF Exchange!Rerun, Exchange!Stands
<1>5. ASSUME NEW w \in Work, Exchange!CaptureGrantVersion(w)
      PROVE  Goal
  BY <1>5, <1>d, <1>b, <1>c DEF Exchange!CaptureGrantVersion, Exchange!Stands
<1>6. ASSUME NEW w \in Work, Exchange!SpendCode(w)
      PROVE  Goal
  BY <1>6, <1>d, <1>b, <1>c DEF Exchange!SpendCode, Exchange!Stands
<1>7. ASSUME NEW w \in Work, Exchange!FindUnspentCode(w)
      PROVE  Goal
  BY <1>7, <1>d, <1>b, <1>c DEF Exchange!FindUnspentCode,
      Exchange!FindUnspentCodeUnlocked, Exchange!Stands
<1>8. ASSUME NEW w \in Work, Exchange!ReadAccountForIssuance(w)
      PROVE  Goal
  BY <1>8, <1>d, <1>b, <1>c DEF Exchange!ReadAccountForIssuance, Exchange!Stands
<1>9. ASSUME NEW w \in Work, Exchange!Judge(w)
      PROVE  Goal
  BY <1>9, <1>d, <1>b, <1>c DEF Exchange!Judge, Exchange!Stands
<1>10. ASSUME NEW w \in Work, Exchange!AssertSessionLimit(w)
      PROVE  Goal
  BY <1>10, <1>d, <1>b, <1>c DEF Exchange!AssertSessionLimit, Exchange!Stands
<1>11. ASSUME NEW w \in Work, Exchange!SpendVoid(w)
      PROVE  Goal
  BY <1>11, <1>d, <1>b, <1>c DEF Exchange!SpendVoid, Exchange!Stands
<1>12. ASSUME NEW w \in Work, Exchange!IssuePair(w)
      PROVE  Goal
  BY <1>12, <1>d, <1>b, <1>c DEF Exchange!IssuePair, Exchange!Stands
<1>13. ASSUME NEW w \in Work, Exchange!Abort(w)
      PROVE  Goal
  BY <1>13, <1>d, <1>b, <1>c DEF Exchange!Abort, Exchange!Stands
<1>14. ASSUME NEW w \in Work, NEW t \in Txn, Exchange!Deny(w, t)
      PROVE  Goal
  BY <1>14, <1>d, <1>b, <1>c DEF Exchange!Deny, Exchange!Stands
<1>15. ASSUME NEW w \in Work, NEW t \in Txn, NEW u \in User, Exchange!Approve(w, u, t)
      PROVE  Goal
  BY <1>15, <1>d, <1>b, <1>c DEF Exchange!Approve, Exchange!Stands
<1>16. ASSUME NEW w \in Work, NEW t \in Txn, NEW v \in Work, NEW fits \in BOOLEAN,
             NEW jti \in ProofId \cup {None}, Exchange!Exchange(w, v, t, fits, jti)
      PROVE  Goal
  BY <1>16, <1>d, <1>b, <1>c DEF Exchange!Exchange, Exchange!Stands
<1>17. ASSUME NEW u \in User, Exchange!BlockGrant(u)
      PROVE  Goal
  BY <1>17, <1>d, <1>b, <1>c DEF Exchange!BlockGrant, Exchange!Stands, Exchange!Change,
      Exchange!Approvals
<1>18. ASSUME NEW u \in User, NEW live \in BOOLEAN, Exchange!AdvanceAccount(u, live)
      PROVE  Goal
  BY <1>18, <1>d, <1>b, <1>c DEF Exchange!AdvanceAccount, Exchange!Stands,
      Exchange!Change, Exchange!Approvals
<1>19. ASSUME Exchange!DisableApplication
      PROVE  Goal
  BY <1>19, <1>d, <1>b, <1>c DEF Exchange!DisableApplication, Exchange!Stands,
      Exchange!Change, Exchange!Approvals
<1>20. ASSUME Exchange!EnableApplication
      PROVE  Goal
  BY <1>20, <1>d, <1>b, <1>c DEF Exchange!EnableApplication, Exchange!Stands
<1>21. ASSUME Exchange!Tick
      PROVE  Goal
  BY <1>21, <1>d, <1>b, <1>c DEF Exchange!Tick, Exchange!Stands
<1> QED
  BY <1>0, <1>1, <1>2, <1>3, <1>4, <1>5, <1>6, <1>7, <1>8, <1>9, <1>10, <1>11, <1>12,
      <1>13, <1>14, <1>15, <1>16, <1>17, <1>18, <1>19, <1>20, <1>21 DEF Exchange!Next

LEMMA SessionsKept ==
  ASSUME Exchange!ExchangeAssumption, XInv, [Exchange!Next]_Exchange!vars
  PROVE  sessions' = sessions \/ \E z \in Work : Exchange!IssuePair(z)
<1>0. CASE UNCHANGED Exchange!vars
  BY <1>0 DEF Exchange!vars
<1> DEFINE Goal == sessions' = sessions \/ \E z \in Work : Exchange!IssuePair(z)
<1>1. ASSUME NEW w \in Work, Exchange!FindPending(w)
      PROVE  Goal
  BY <1>1 DEF Exchange!FindPending
<1>2. ASSUME NEW w \in Work, Exchange!ClaimTransaction(w)
      PROVE  Goal
  BY <1>2 DEF Exchange!ClaimTransaction
<1>3. ASSUME NEW w \in Work, Exchange!AllowGrant(w)
      PROVE  Goal
  BY <1>3 DEF Exchange!AllowGrant
<1>4. ASSUME NEW w \in Work, Exchange!Rerun(w)
      PROVE  Goal
  BY <1>4 DEF Exchange!Rerun
<1>5. ASSUME NEW w \in Work, Exchange!CaptureGrantVersion(w)
      PROVE  Goal
  BY <1>5 DEF Exchange!CaptureGrantVersion
<1>6. ASSUME NEW w \in Work, Exchange!SpendCode(w)
      PROVE  Goal
  BY <1>6 DEF Exchange!SpendCode
<1>7. ASSUME NEW w \in Work, Exchange!FindUnspentCode(w)
      PROVE  Goal
  BY <1>7 DEF Exchange!FindUnspentCode, Exchange!FindUnspentCodeUnlocked
<1>8. ASSUME NEW w \in Work, Exchange!ReadAccountForIssuance(w)
      PROVE  Goal
  BY <1>8 DEF Exchange!ReadAccountForIssuance
<1>9. ASSUME NEW w \in Work, Exchange!Judge(w)
      PROVE  Goal
  BY <1>9 DEF Exchange!Judge
<1>10. ASSUME NEW w \in Work, Exchange!AssertSessionLimit(w)
      PROVE  Goal
  BY <1>10 DEF Exchange!AssertSessionLimit
<1>11. ASSUME NEW w \in Work, Exchange!SpendVoid(w)
      PROVE  Goal
  BY <1>11 DEF Exchange!SpendVoid
<1>12. ASSUME NEW w \in Work, Exchange!IssuePair(w)
      PROVE  Goal
  BY <1>12 DEF Exchange!IssuePair
<1>13. ASSUME NEW w \in Work, Exchange!Abort(w)
      PROVE  Goal
  BY <1>13 DEF Exchange!Abort
<1>14. ASSUME NEW w \in Work, NEW t \in Txn, Exchange!Deny(w, t)
      PROVE  Goal
  BY <1>14 DEF Exchange!Deny
<1>15. ASSUME NEW w \in Work, NEW t \in Txn, NEW u \in User, Exchange!Approve(w, u, t)
      PROVE  Goal
  BY <1>15 DEF Exchange!Approve
<1>16. ASSUME NEW w \in Work, NEW t \in Txn, NEW v \in Work, NEW fits \in BOOLEAN,
             NEW jti \in ProofId \cup {None}, Exchange!Exchange(w, v, t, fits, jti)
      PROVE  Goal
  BY <1>16 DEF Exchange!Exchange
<1>17. ASSUME NEW u \in User, Exchange!BlockGrant(u)
      PROVE  Goal
  BY <1>17 DEF Exchange!BlockGrant
<1>18. ASSUME NEW u \in User, NEW live \in BOOLEAN, Exchange!AdvanceAccount(u, live)
      PROVE  Goal
  BY <1>18 DEF Exchange!AdvanceAccount
<1>19. ASSUME Exchange!DisableApplication
      PROVE  Goal
  BY <1>19 DEF Exchange!DisableApplication
<1>20. ASSUME Exchange!EnableApplication
      PROVE  Goal
  BY <1>20 DEF Exchange!EnableApplication
<1>21. ASSUME Exchange!Tick
      PROVE  Goal
  BY <1>21 DEF Exchange!Tick
<1> QED
  BY <1>0, <1>1, <1>2, <1>3, <1>4, <1>5, <1>6, <1>7, <1>8, <1>9, <1>10, <1>11, <1>12,
      <1>13, <1>14, <1>15, <1>16, <1>17, <1>18, <1>19, <1>20, <1>21 DEF Exchange!Next

(* Only IssuePair adds a session, one.                                     *)
LEMMA SessionAdded ==
  ASSUME Exchange!ExchangeAssumption, XInv, [Exchange!Next]_Exchange!vars,
         NEW s \in sessions', s \notin sessions
  PROVE  \E w \in Work :
           /\ work[w].pc = "spending" /\ Exchange!IssuePair(w) /\ work'[w].pc = "issued"
           /\ s = [by |-> w, code |-> work[w].code, user |-> work[w].user,
                   jti |-> work[w].jti, uv |-> work[w].uv, cv |-> work[w].cv,
                   gv |-> work[w].gv]
           /\ sessions' = sessions \cup {s}
           /\ ~txn[work[w].txn].consumed /\ ~Exchange!Replayed(w)
           /\ txn' = [txn EXCEPT ![work[w].txn].consumed = TRUE]
           /\ proofIds' = proofIds \cup ({work[w].jti} \ {None})
<1>1. \E z \in Work : Exchange!IssuePair(z)
  BY SessionsKept
<1>2. PICK w \in Work : Exchange!IssuePair(w)
  BY <1>1
<1>3. work \in [Work -> RequestRow]
  BY DEF XInv, XTyped
<1>4. work'[w].pc = "issued"
  BY <1>2, <1>3 DEF Exchange!IssuePair, RequestRow
<1> QED BY <1>2, <1>4 DEF Exchange!IssuePair

LEMMA ActiveGrows ==
  ASSUME Exchange!ExchangeAssumption, XInv, [Exchange!Next]_Exchange!vars,
         NEW u \in User
  PROVE  /\ Exchange!Active(u)' \subseteq Exchange!Active(u) \cup (sessions' \ sessions)
         /\ (\A w \in Work : work[w].pc = "spending" /\ work[w].user = u =>
                              work'[w].pc # "issued")
              => Exchange!Active(u)' \subseteq Exchange!Active(u)
<1>1. Exchange!Active(u)' \subseteq Exchange!Active(u) \cup (sessions' \ sessions)
  BY StandsBefore DEF Exchange!Active
<1>2. ASSUME NEW s \in Exchange!Active(u)', s \notin sessions
      PROVE  \E w \in Work : work[w].pc = "spending" /\ work[w].user = u
                             /\ work'[w].pc = "issued"
  <2>1. s \in sessions' /\ s.user = u
    BY <1>2 DEF Exchange!Active
  <2>2. PICK w \in Work :
          /\ work[w].pc = "spending" /\ work'[w].pc = "issued"
          /\ s = [by |-> w, code |-> work[w].code, user |-> work[w].user,
                  jti |-> work[w].jti, uv |-> work[w].uv, cv |-> work[w].cv,
                  gv |-> work[w].gv]
    BY <1>2, <2>1, SessionAdded
  <2> QED BY <2>1, <2>2
<1> QED BY <1>1, <1>2

LEMMA ActiveFinite ==
  ASSUME XInv, NEW u \in User
  PROVE  IsFiniteSet(Exchange!Active(u)) /\ Cardinality(Exchange!Active(u)) \in Nat
<1>1. Exchange!Active(u) \subseteq sessions /\ IsFiniteSet(sessions)
  BY DEF XInv, XTyped, Exchange!Active
<1> QED BY <1>1, FS_Subset, FS_CardinalityType

LEMMA ExchangesStep ==
  ASSUME Exchange!ExchangeAssumption, XInv, [Exchange!Next]_Exchange!vars
  PROVE  ExchangesSound'
<1> SUFFICES ASSUME NEW r \in Work
             PROVE  JudgedSound(r)'
  BY DEF ExchangesSound
<1> /\ work \in [Work -> RequestRow]
    /\ acct \in [User -> [live : BOOLEAN, version : Nat]]
    /\ RequestSound(r)
  BY DEF XInv, XTyped, RequestsSound
<1>a. JudgedSound(r)
  BY DEF XInv, ExchangesSound
<1>b. work[r].pc \in HasAccount =>
        /\ work[r].user \in User /\ work[r].code \in Work
        /\ work[work[r].code].pc = "coded" /\ work'[work[r].code] = work[work[r].code]
  BY RequestNames, CodeOfExchange, CodedStays
<1>c. (/\ work'[r] = work[r] /\ acct' = acct
       /\ work[r].code \in withdrawn => work[r].code \in withdrawn') => JudgedSound(r)'
  BY <1>a, <1>b DEF JudgedSound, HasAccount
<1> USE DEF RequestRow
<1>0. CASE UNCHANGED Exchange!vars
  BY <1>0, <1>a, <1>b, <1>c DEF Exchange!vars, JudgedSound, HasAccount
<1> DEFINE Goal == JudgedSound(r)'
<1>1. ASSUME NEW w \in Work, Exchange!FindPending(w)
      PROVE  Goal
  BY <1>1, <1>a, <1>b, <1>c DEF Exchange!FindPending, JudgedSound, HasAccount
<1>2. ASSUME NEW w \in Work, Exchange!ClaimTransaction(w)
      PROVE  Goal
  BY <1>2, <1>a, <1>b, <1>c DEF Exchange!ClaimTransaction, JudgedSound, HasAccount
<1>3. ASSUME NEW w \in Work, Exchange!AllowGrant(w)
      PROVE  Goal
  BY <1>3, <1>a, <1>b, <1>c DEF Exchange!AllowGrant, JudgedSound, HasAccount
<1>4. ASSUME NEW w \in Work, Exchange!Rerun(w)
      PROVE  Goal
  BY <1>4, <1>a, <1>b, <1>c DEF Exchange!Rerun, JudgedSound, HasAccount
<1>5. ASSUME NEW w \in Work, Exchange!CaptureGrantVersion(w)
      PROVE  Goal
  BY <1>5, <1>a, <1>b, <1>c DEF Exchange!CaptureGrantVersion, JudgedSound, HasAccount
<1>6. ASSUME NEW w \in Work, Exchange!SpendCode(w)
      PROVE  Goal
  BY <1>6, <1>a, <1>b, <1>c DEF Exchange!SpendCode, JudgedSound, HasAccount
<1>7. ASSUME NEW w \in Work, Exchange!FindUnspentCode(w)
      PROVE  Goal
  BY <1>7, <1>a, <1>b, <1>c DEF Exchange!FindUnspentCode,
      Exchange!FindUnspentCodeUnlocked, JudgedSound, HasAccount
<1>8. ASSUME NEW w \in Work, Exchange!ReadAccountForIssuance(w)
      PROVE  Goal
  BY <1>8, <1>a, <1>b, <1>c DEF Exchange!ReadAccountForIssuance, JudgedSound, HasAccount
<1>9. ASSUME NEW w \in Work, Exchange!Judge(w)
      PROVE  Goal
  <2>1. CASE r # w
    BY <1>9, <2>1, <1>c DEF Exchange!Judge, JudgedSound
  <2>2. CASE r = w
    <3> DEFINE c == work[w].code
    <3>1. /\ work[w].kind = "exchange" /\ work[w].pc = "read"
          /\ work[w].uv = acct[work[w].user].version
      BY <1>9, <1>a, <2>2, RequestNames DEF Exchange!Judge, HasAccount, JudgedSound
    <3>2. /\ c \in Work /\ work[c].pc = "coded" /\ work[w].user = work[c].user
          /\ txn[work[w].txn].uv = work[c].uv /\ txn[work[w].txn].cv = work[c].cv
          /\ txn[work[w].txn].gv = work[c].gv
      BY <3>1, CodeOfExchange DEF XInv, RequestsSound, RequestSound, HasAccount
    <3>3. work'[c] = work[c]
      BY <3>2, CodedStays
    <3>4. /\ AccountRead(c) /\ ApplicationRead(c) /\ GrantRead(c)
      BY <3>2 DEF XInv, ApprovalsSound
    <3>5. CASE Exchange!ValidAuthority(w)
      <4>1. /\ work'[w].pc = "counting" /\ work'[w].code = c /\ work'[w].uv = work[w].uv
            /\ work'[w].cv = app.version /\ work'[w].gv = grant[work[w].user].version
        BY <1>9, <3>5 DEF Exchange!Judge
      <4>2. /\ work[w].uv = work[c].uv /\ app.version = work[c].cv
            /\ grant[work[w].user].version = work[c].gv
        BY <3>2, <3>5 DEF Exchange!ValidAuthority
      <4> HIDE DEF c
      <4> QED BY <2>2, <3>3, <4>1, <4>2 DEF JudgedSound
    <3>6. CASE ~Exchange!ValidAuthority(w)
      <4>1. c \in withdrawn
        BY <3>1, <3>2, <3>4, <3>6
           DEF AccountRead, ApplicationRead, GrantRead, Exchange!ValidAuthority
      <4>2. work'[w].pc = "voiding" /\ work'[w].code = c /\ withdrawn' = withdrawn
        BY <1>9, <3>6 DEF Exchange!Judge
      <4> HIDE DEF c
      <4> QED BY <2>2, <4>1, <4>2 DEF JudgedSound
    <3> QED BY <3>5, <3>6
  <2> QED BY <2>1, <2>2
<1>10. ASSUME NEW w \in Work, Exchange!AssertSessionLimit(w)
      PROVE  Goal
  BY <1>10, <1>a, <1>b, <1>c DEF Exchange!AssertSessionLimit, JudgedSound, HasAccount
<1>11. ASSUME NEW w \in Work, Exchange!SpendVoid(w)
      PROVE  Goal
  BY <1>11, <1>a, <1>b, <1>c DEF Exchange!SpendVoid, JudgedSound, HasAccount
<1>12. ASSUME NEW w \in Work, Exchange!IssuePair(w)
      PROVE  Goal
  BY <1>12, <1>a, <1>b, <1>c DEF Exchange!IssuePair, JudgedSound, HasAccount
<1>13. ASSUME NEW w \in Work, Exchange!Abort(w)
      PROVE  Goal
  BY <1>13, <1>a, <1>b, <1>c DEF Exchange!Abort, JudgedSound, HasAccount
<1>14. ASSUME NEW w \in Work, NEW t \in Txn, Exchange!Deny(w, t)
      PROVE  Goal
  BY <1>14, <1>a, <1>b, <1>c DEF Exchange!Deny, JudgedSound, HasAccount, Exchange!NoWork
<1>15. ASSUME NEW w \in Work, NEW t \in Txn, NEW u \in User, Exchange!Approve(w, u, t)
      PROVE  Goal
  BY <1>15, <1>a, <1>b, <1>c DEF Exchange!Approve, JudgedSound, HasAccount,
      Exchange!NoWork
<1>16. ASSUME NEW w \in Work, NEW t \in Txn, NEW v \in Work, NEW fits \in BOOLEAN,
             NEW jti \in ProofId \cup {None}, Exchange!Exchange(w, v, t, fits, jti)
      PROVE  Goal
  BY <1>16, <1>a, <1>b, <1>c DEF Exchange!Exchange, JudgedSound, HasAccount,
      Exchange!NoWork
<1>17. ASSUME NEW u \in User, Exchange!BlockGrant(u)
      PROVE  Goal
  BY <1>17, <1>a, <1>b, <1>c DEF Exchange!BlockGrant, JudgedSound, HasAccount
<1>18. ASSUME NEW u \in User, NEW live \in BOOLEAN, Exchange!AdvanceAccount(u, live)
      PROVE  Goal
  BY <1>18, <1>a, <1>b, <1>c DEF Exchange!AdvanceAccount, JudgedSound, HasAccount,
      Exchange!AcctFree, Exchange!HoldsAcct
<1>19. ASSUME Exchange!DisableApplication
      PROVE  Goal
  BY <1>19, <1>a, <1>b, <1>c DEF Exchange!DisableApplication, JudgedSound, HasAccount
<1>20. ASSUME Exchange!EnableApplication
      PROVE  Goal
  BY <1>20, <1>a, <1>b, <1>c DEF Exchange!EnableApplication, JudgedSound, HasAccount
<1>21. ASSUME Exchange!Tick
      PROVE  Goal
  BY <1>21, <1>a, <1>b, <1>c DEF Exchange!Tick, JudgedSound, HasAccount
<1> QED
  BY <1>0, <1>1, <1>2, <1>3, <1>4, <1>5, <1>6, <1>7, <1>8, <1>9, <1>10, <1>11, <1>12,
      <1>13, <1>14, <1>15, <1>16, <1>17, <1>18, <1>19, <1>20, <1>21 DEF Exchange!Next

LEMMA SameCardinality == ASSUME NEW S PROVE Exchange!Cardinality(S) = Cardinality(S)
BY DEF Exchange!Cardinality, Cardinality

LEMMA BecomesSpending ==
  ASSUME Exchange!ExchangeAssumption, XInv, [Exchange!Next]_Exchange!vars,
         NEW r \in Work
  PROVE  work'[r].pc = "spending"
           => \/ work[r].pc = "spending" /\ work'[r] = work[r]
              \/ Exchange!AssertSessionLimit(r)
<1> work \in [Work -> RequestRow]
  BY DEF XInv, XTyped
<1> USE DEF RequestRow
<1>0. CASE UNCHANGED Exchange!vars
  BY <1>0 DEF Exchange!vars
<1> DEFINE Goal ==
         work'[r].pc = "spending"
           => \/ work[r].pc = "spending" /\ work'[r] = work[r]
              \/ Exchange!AssertSessionLimit(r)
<1>1. ASSUME NEW w \in Work, Exchange!FindPending(w)
      PROVE  Goal
  BY <1>1 DEF Exchange!FindPending
<1>2. ASSUME NEW w \in Work, Exchange!ClaimTransaction(w)
      PROVE  Goal
  BY <1>2 DEF Exchange!ClaimTransaction
<1>3. ASSUME NEW w \in Work, Exchange!AllowGrant(w)
      PROVE  Goal
  BY <1>3 DEF Exchange!AllowGrant
<1>4. ASSUME NEW w \in Work, Exchange!Rerun(w)
      PROVE  Goal
  BY <1>4 DEF Exchange!Rerun
<1>5. ASSUME NEW w \in Work, Exchange!CaptureGrantVersion(w)
      PROVE  Goal
  BY <1>5 DEF Exchange!CaptureGrantVersion
<1>6. ASSUME NEW w \in Work, Exchange!SpendCode(w)
      PROVE  Goal
  BY <1>6 DEF Exchange!SpendCode
<1>7. ASSUME NEW w \in Work, Exchange!FindUnspentCode(w)
      PROVE  Goal
  BY <1>7 DEF Exchange!FindUnspentCode, Exchange!FindUnspentCodeUnlocked
<1>8. ASSUME NEW w \in Work, Exchange!ReadAccountForIssuance(w)
      PROVE  Goal
  BY <1>8 DEF Exchange!ReadAccountForIssuance
<1>9. ASSUME NEW w \in Work, Exchange!Judge(w)
      PROVE  Goal
  BY <1>9 DEF Exchange!Judge
<1>10. ASSUME NEW w \in Work, Exchange!AssertSessionLimit(w)
      PROVE  Goal
  BY <1>10 DEF Exchange!AssertSessionLimit
<1>11. ASSUME NEW w \in Work, Exchange!SpendVoid(w)
      PROVE  Goal
  BY <1>11 DEF Exchange!SpendVoid
<1>12. ASSUME NEW w \in Work, Exchange!IssuePair(w)
      PROVE  Goal
  BY <1>12 DEF Exchange!IssuePair
<1>13. ASSUME NEW w \in Work, Exchange!Abort(w)
      PROVE  Goal
  BY <1>13 DEF Exchange!Abort
<1>14. ASSUME NEW w \in Work, NEW t \in Txn, Exchange!Deny(w, t)
      PROVE  Goal
  BY <1>14 DEF Exchange!Deny, Exchange!NoWork
<1>15. ASSUME NEW w \in Work, NEW t \in Txn, NEW u \in User, Exchange!Approve(w, u, t)
      PROVE  Goal
  BY <1>15 DEF Exchange!Approve, Exchange!NoWork
<1>16. ASSUME NEW w \in Work, NEW t \in Txn, NEW v \in Work, NEW fits \in BOOLEAN,
             NEW jti \in ProofId \cup {None}, Exchange!Exchange(w, v, t, fits, jti)
      PROVE  Goal
  BY <1>16 DEF Exchange!Exchange, Exchange!NoWork
<1>17. ASSUME NEW u \in User, Exchange!BlockGrant(u)
      PROVE  Goal
  BY <1>17 DEF Exchange!BlockGrant
<1>18. ASSUME NEW u \in User, NEW live \in BOOLEAN, Exchange!AdvanceAccount(u, live)
      PROVE  Goal
  BY <1>18 DEF Exchange!AdvanceAccount
<1>19. ASSUME Exchange!DisableApplication
      PROVE  Goal
  BY <1>19 DEF Exchange!DisableApplication
<1>20. ASSUME Exchange!EnableApplication
      PROVE  Goal
  BY <1>20 DEF Exchange!EnableApplication
<1>21. ASSUME Exchange!Tick
      PROVE  Goal
  BY <1>21 DEF Exchange!Tick
<1> QED
  BY <1>0, <1>1, <1>2, <1>3, <1>4, <1>5, <1>6, <1>7, <1>8, <1>9, <1>10, <1>11, <1>12,
      <1>13, <1>14, <1>15, <1>16, <1>17, <1>18, <1>19, <1>20, <1>21 DEF Exchange!Next

LEMMA RoomStep ==
  ASSUME Exchange!ExchangeAssumption, XInv, [Exchange!Next]_Exchange!vars
  PROVE  RoomKept'
<1> SUFFICES ASSUME NEW r \in Work, NEW u \in User,
                    work'[r].pc = "spending", work'[r].user = u
             PROVE  (Cardinality(Exchange!Active(u)) < MaxSessions)'
  BY DEF RoomKept, RoomFor
<1>1. work \in [Work -> RequestRow]
  BY DEF XInv, XTyped
<1>2. /\ work[r].user = u
      /\ Cardinality(Exchange!Active(u)) < MaxSessions
      /\ Exchange!Active(u)' \subseteq Exchange!Active(u)
  <2>1. CASE work[r].pc = "spending" /\ work'[r] = work[r]
    <3>1. Cardinality(Exchange!Active(u)) < MaxSessions
      BY <2>1 DEF XInv, RoomKept, RoomFor
    <3>2. ASSUME NEW w \in Work, work[w].pc = "spending", work[w].user = u
          PROVE  work'[w].pc # "issued"
      BY <2>1, <3>2 DEF XInv, RowsHeldOnce, Apart, Exchange!HoldsAcct
    <3> QED BY <2>1, <3>1, <3>2, ActiveGrows
  <2>2. CASE Exchange!AssertSessionLimit(r)
    <3>0. /\ work[r].user = u /\ sessions' = sessions
          /\ ~(Exchange!Cardinality(Exchange!Active(u)) >= MaxSessions)
      BY <1>1, <2>2 DEF Exchange!AssertSessionLimit, RequestRow
    <3>1. /\ work[r].user = u /\ sessions' = sessions
          /\ ~(Cardinality(Exchange!Active(u)) >= MaxSessions)
      BY <3>0, SameCardinality
    <3>2. Exchange!Active(u)' \subseteq Exchange!Active(u)
      BY <3>1, ActiveGrows
    <3> QED BY <3>1, <3>2, ActiveFinite DEF Exchange!ExchangeAssumption
  <2> QED BY <2>1, <2>2, BecomesSpending
<1>3. Cardinality(Exchange!Active(u)') <= Cardinality(Exchange!Active(u))
  BY <1>2, ActiveFinite, FS_Subset
<1>4. IsFiniteSet(Exchange!Active(u)') /\ Cardinality(Exchange!Active(u)') \in Nat
  BY <1>2, ActiveFinite, FS_Subset, FS_CardinalityType
<1> QED BY <1>2, <1>3, <1>4, ActiveFinite DEF Exchange!ExchangeAssumption

LEMMA SessionCapStep ==
  ASSUME Exchange!ExchangeAssumption, XInv, [Exchange!Next]_Exchange!vars
  PROVE  Exchange!SessionCap'
<1> SUFFICES ASSUME NEW u \in User
             PROVE  Cardinality(Exchange!Active(u)') <= MaxSessions
  BY SameCardinality DEF Exchange!SessionCap
<1>1. /\ Cardinality(Exchange!Active(u)) \in Nat /\ MaxSessions \in Nat
      /\ IsFiniteSet(Exchange!Active(u)) /\ Cardinality(Exchange!Active(u)) <= MaxSessions
  BY ActiveFinite, SameCardinality
     DEF XInv, Exchange!SessionCap, Exchange!ExchangeAssumption
<1>2. CASE Exchange!Active(u)' \subseteq Exchange!Active(u)
  <2>1. /\ IsFiniteSet(Exchange!Active(u)')
        /\ Cardinality(Exchange!Active(u)') <= Cardinality(Exchange!Active(u))
    BY <1>1, <1>2, FS_Subset
  <2>2. Cardinality(Exchange!Active(u)') \in Nat
    BY <2>1, FS_CardinalityType
  <2> QED BY <1>1, <2>1, <2>2
<1>3. CASE ~(Exchange!Active(u)' \subseteq Exchange!Active(u))
  <2>1. PICK w \in Work : work[w].pc = "spending" /\ work[w].user = u
    BY <1>3, ActiveGrows
  <2>2. Cardinality(Exchange!Active(u)) < MaxSessions
    BY <2>1 DEF XInv, RoomKept, RoomFor
  <2>3. PICK s : s \in Exchange!Active(u)' /\ s \notin Exchange!Active(u)
    BY <1>3
  <2>4. s \in sessions' /\ s \notin sessions
    BY <2>3, ActiveGrows DEF Exchange!Active
  <2>5. sessions' = sessions \cup {s}
    BY <2>4, SessionAdded
  <2>6. Exchange!Active(u)' \subseteq Exchange!Active(u) \cup {s}
    BY <2>5, ActiveGrows
  <2>7. /\ IsFiniteSet(Exchange!Active(u) \cup {s})
        /\ Cardinality(Exchange!Active(u) \cup {s}) = Cardinality(Exchange!Active(u)) + 1
    BY <1>1, <2>3, FS_AddElement
  <2>8. /\ IsFiniteSet(Exchange!Active(u)')
        /\ Cardinality(Exchange!Active(u)') <= Cardinality(Exchange!Active(u) \cup {s})
    BY <2>6, <2>7, FS_Subset
  <2>9. Cardinality(Exchange!Active(u)') \in Nat
    BY <2>8, FS_CardinalityType
  <2> QED BY <1>1, <2>2, <2>7, <2>8, <2>9
<1> QED BY <1>2, <1>3

LEMMA ProofIdsStay ==
  ASSUME Exchange!ExchangeAssumption, XInv, [Exchange!Next]_Exchange!vars
  PROVE  proofIds \subseteq proofIds' /\ sessions \subseteq sessions'
<1>0. CASE UNCHANGED Exchange!vars
  BY <1>0 DEF Exchange!vars
<1> DEFINE Goal == proofIds \subseteq proofIds' /\ sessions \subseteq sessions'
<1>1. ASSUME NEW w \in Work, Exchange!FindPending(w)
      PROVE  Goal
  BY <1>1 DEF Exchange!FindPending
<1>2. ASSUME NEW w \in Work, Exchange!ClaimTransaction(w)
      PROVE  Goal
  BY <1>2 DEF Exchange!ClaimTransaction
<1>3. ASSUME NEW w \in Work, Exchange!AllowGrant(w)
      PROVE  Goal
  BY <1>3 DEF Exchange!AllowGrant
<1>4. ASSUME NEW w \in Work, Exchange!Rerun(w)
      PROVE  Goal
  BY <1>4 DEF Exchange!Rerun
<1>5. ASSUME NEW w \in Work, Exchange!CaptureGrantVersion(w)
      PROVE  Goal
  BY <1>5 DEF Exchange!CaptureGrantVersion
<1>6. ASSUME NEW w \in Work, Exchange!SpendCode(w)
      PROVE  Goal
  BY <1>6 DEF Exchange!SpendCode
<1>7. ASSUME NEW w \in Work, Exchange!FindUnspentCode(w)
      PROVE  Goal
  BY <1>7 DEF Exchange!FindUnspentCode, Exchange!FindUnspentCodeUnlocked
<1>8. ASSUME NEW w \in Work, Exchange!ReadAccountForIssuance(w)
      PROVE  Goal
  BY <1>8 DEF Exchange!ReadAccountForIssuance
<1>9. ASSUME NEW w \in Work, Exchange!Judge(w)
      PROVE  Goal
  BY <1>9 DEF Exchange!Judge
<1>10. ASSUME NEW w \in Work, Exchange!AssertSessionLimit(w)
      PROVE  Goal
  BY <1>10 DEF Exchange!AssertSessionLimit
<1>11. ASSUME NEW w \in Work, Exchange!SpendVoid(w)
      PROVE  Goal
  BY <1>11 DEF Exchange!SpendVoid
<1>12. ASSUME NEW w \in Work, Exchange!IssuePair(w)
      PROVE  Goal
  BY <1>12 DEF Exchange!IssuePair
<1>13. ASSUME NEW w \in Work, Exchange!Abort(w)
      PROVE  Goal
  BY <1>13 DEF Exchange!Abort
<1>14. ASSUME NEW w \in Work, NEW t \in Txn, Exchange!Deny(w, t)
      PROVE  Goal
  BY <1>14 DEF Exchange!Deny
<1>15. ASSUME NEW w \in Work, NEW t \in Txn, NEW u \in User, Exchange!Approve(w, u, t)
      PROVE  Goal
  BY <1>15 DEF Exchange!Approve
<1>16. ASSUME NEW w \in Work, NEW t \in Txn, NEW v \in Work, NEW fits \in BOOLEAN,
             NEW jti \in ProofId \cup {None}, Exchange!Exchange(w, v, t, fits, jti)
      PROVE  Goal
  BY <1>16 DEF Exchange!Exchange
<1>17. ASSUME NEW u \in User, Exchange!BlockGrant(u)
      PROVE  Goal
  BY <1>17 DEF Exchange!BlockGrant
<1>18. ASSUME NEW u \in User, NEW live \in BOOLEAN, Exchange!AdvanceAccount(u, live)
      PROVE  Goal
  BY <1>18 DEF Exchange!AdvanceAccount
<1>19. ASSUME Exchange!DisableApplication
      PROVE  Goal
  BY <1>19 DEF Exchange!DisableApplication
<1>20. ASSUME Exchange!EnableApplication
      PROVE  Goal
  BY <1>20 DEF Exchange!EnableApplication
<1>21. ASSUME Exchange!Tick
      PROVE  Goal
  BY <1>21 DEF Exchange!Tick
<1> QED
  BY <1>0, <1>1, <1>2, <1>3, <1>4, <1>5, <1>6, <1>7, <1>8, <1>9, <1>10, <1>11, <1>12,
      <1>13, <1>14, <1>15, <1>16, <1>17, <1>18, <1>19, <1>20, <1>21 DEF Exchange!Next

LEMMA NewSessionSound ==
  ASSUME Exchange!ExchangeAssumption, XInv, [Exchange!Next]_Exchange!vars,
         NEW w \in Work, work[w].pc = "spending"
  PROVE  LET c == work[w].code IN
         /\ c \in Work /\ work[c].pc = "coded" /\ work'[c] = work[c]
         /\ work[w].user = work[c].user /\ work[w].uv = work[c].uv
         /\ work[w].cv = work[c].cv /\ work[w].gv = work[c].gv
         /\ work[c].txn = work[w].txn /\ work[w].txn \in Txn
         /\ txn[work[w].txn].code = c /\ work[w].jti \in ProofId \cup {None}
<1>1. work[w].kind = "exchange" /\ work[w] \in RequestRow
  BY RequestNames DEF HasAccount
<1>2. RequestSound(w) /\ JudgedSound(w)
  BY DEF XInv, RequestsSound, ExchangesSound
<1>3. work[w].code \in Work /\ work[work[w].code].pc = "coded"
  BY <1>1, CodeOfExchange
<1>4. work'[work[w].code] = work[work[w].code]
  BY <1>3, CodedStays
<1> QED
    BY <1>1, <1>2, <1>4, CodeOfExchange
       DEF RequestSound, JudgedSound, HasAccount, RequestRow

LEMMA SessionsStep ==
  ASSUME Exchange!ExchangeAssumption, XInv, [Exchange!Next]_Exchange!vars
  PROVE  SessionsSound'
<1> SUFFICES ASSUME NEW s \in sessions'
             PROVE  SessionSound(s)'
  BY DEF SessionsSound
<1> txn \in [Txn -> TransactionRow]
  BY DEF XInv, XTyped
<1>1. CASE s \in sessions
  <2> DEFINE c == s.code
             t == work[c].txn
  <2>1. SessionSound(s) /\ c \in Work
    BY <1>1 DEF XInv, XTyped, SessionsSound, NativeSessionRow
  <2>2. work'[c] = work[c]
    BY <2>1, CodedStays DEF SessionSound
  <2>3. t \in Txn /\ txn[t].code = c /\ c # None
    BY <2>1, RequestNames DEF XInv, AnswersSound, AnswerSound, SessionSound,
                              Exchange!ExchangeAssumption
  <2>4. txn'[t] = txn[t] \/ txn'[t] = [txn[t] EXCEPT !.consumed = TRUE]
    <3> HIDE DEF t
    <3> QED BY <2>3, AnsweredStays
  <2>5. txn'[t].consumed
    BY <2>1, <2>3, <2>4 DEF SessionSound, TransactionRow
  <2>6. s.jti \in proofIds' \cup {None}
    BY <2>1, ProofIdsStay DEF SessionSound
  <2> QED BY <2>1, <2>2, <2>5, <2>6 DEF SessionSound
<1>2. CASE s \notin sessions
  <2>1. PICK w \in Work :
           /\ work[w].pc = "spending"
           /\ s = [by |-> w, code |-> work[w].code, user |-> work[w].user,
                   jti |-> work[w].jti, uv |-> work[w].uv, cv |-> work[w].cv,
                   gv |-> work[w].gv]
           /\ txn' = [txn EXCEPT ![work[w].txn].consumed = TRUE]
           /\ proofIds' = proofIds \cup ({work[w].jti} \ {None})
    BY <1>2, SessionAdded
  <2>2. txn'[work[w].txn].consumed
    BY <2>1, NewSessionSound DEF TransactionRow
  <2> QED BY <2>1, <2>2, NewSessionSound DEF SessionSound
<1> QED BY <1>1, <1>2

LEMMA OneSessionPerCodeStep ==
  ASSUME Exchange!ExchangeAssumption, XInv, [Exchange!Next]_Exchange!vars
  PROVE  Exchange!OneSessionPerCode'
<1>1. ASSUME NEW s \in sessions', NEW r \in sessions, s \notin sessions
      PROVE  s.code # r.code /\ (s.jti = r.jti => s.jti = None)
  <2>1. PICK w \in Work :
           /\ work[w].pc = "spending"
           /\ s = [by |-> w, code |-> work[w].code, user |-> work[w].user,
                   jti |-> work[w].jti, uv |-> work[w].uv, cv |-> work[w].cv,
                   gv |-> work[w].gv]
           /\ ~txn[work[w].txn].consumed /\ ~Exchange!Replayed(w)
    BY <1>1, SessionAdded
  <2>2. SessionSound(r)
    BY DEF XInv, SessionsSound
  <2>3. work[s.code].txn = work[w].txn /\ s.jti = work[w].jti
    BY <2>1, NewSessionSound
  <2> QED BY <2>1, <2>2, <2>3 DEF SessionSound, Exchange!Replayed
<1>2. ASSUME NEW s \in sessions', NEW r \in sessions', s \notin sessions,
             r \notin sessions
      PROVE  s = r
  BY <1>2, SessionAdded
<1> QED BY <1>1, <1>2 DEF XInv, Exchange!OneSessionPerCode

(* Who was refused for good stays so.                                      *)
LEMMA RefusalsStay ==
  ASSUME Exchange!ExchangeAssumption, XInv, [Exchange!Next]_Exchange!vars,
         NEW c \in Work, work[c].pc \in {"denied", "misused", "coded"}
  PROVE  work'[c] = work[c] /\ (c \in withdrawn => c \in withdrawn')
<1> work \in [Work -> RequestRow]
  BY DEF XInv, XTyped
<1>0. CASE UNCHANGED Exchange!vars
  BY <1>0 DEF Exchange!vars
<1> DEFINE Goal == work'[c] = work[c] /\ (c \in withdrawn => c \in withdrawn')
<1>1. ASSUME NEW w \in Work, Exchange!FindPending(w)
      PROVE  Goal
  BY <1>1 DEF Exchange!FindPending
<1>2. ASSUME NEW w \in Work, Exchange!ClaimTransaction(w)
      PROVE  Goal
  BY <1>2 DEF Exchange!ClaimTransaction
<1>3. ASSUME NEW w \in Work, Exchange!AllowGrant(w)
      PROVE  Goal
  BY <1>3 DEF Exchange!AllowGrant
<1>4. ASSUME NEW w \in Work, Exchange!Rerun(w)
      PROVE  Goal
  BY <1>4 DEF Exchange!Rerun
<1>5. ASSUME NEW w \in Work, Exchange!CaptureGrantVersion(w)
      PROVE  Goal
  BY <1>5 DEF Exchange!CaptureGrantVersion
<1>6. ASSUME NEW w \in Work, Exchange!SpendCode(w)
      PROVE  Goal
  BY <1>6 DEF Exchange!SpendCode
<1>7. ASSUME NEW w \in Work, Exchange!FindUnspentCode(w)
      PROVE  Goal
  BY <1>7 DEF Exchange!FindUnspentCode, Exchange!FindUnspentCodeUnlocked
<1>8. ASSUME NEW w \in Work, Exchange!ReadAccountForIssuance(w)
      PROVE  Goal
  BY <1>8 DEF Exchange!ReadAccountForIssuance
<1>9. ASSUME NEW w \in Work, Exchange!Judge(w)
      PROVE  Goal
  BY <1>9 DEF Exchange!Judge
<1>10. ASSUME NEW w \in Work, Exchange!AssertSessionLimit(w)
      PROVE  Goal
  BY <1>10 DEF Exchange!AssertSessionLimit
<1>11. ASSUME NEW w \in Work, Exchange!SpendVoid(w)
      PROVE  Goal
  BY <1>11 DEF Exchange!SpendVoid
<1>12. ASSUME NEW w \in Work, Exchange!IssuePair(w)
      PROVE  Goal
  BY <1>12 DEF Exchange!IssuePair
<1>13. ASSUME NEW w \in Work, Exchange!Abort(w)
      PROVE  Goal
  BY <1>13 DEF Exchange!Abort
<1>14. ASSUME NEW w \in Work, NEW t \in Txn, Exchange!Deny(w, t)
      PROVE  Goal
  BY <1>14 DEF Exchange!Deny
<1>15. ASSUME NEW w \in Work, NEW t \in Txn, NEW u \in User, Exchange!Approve(w, u, t)
      PROVE  Goal
  BY <1>15 DEF Exchange!Approve
<1>16. ASSUME NEW w \in Work, NEW t \in Txn, NEW v \in Work, NEW fits \in BOOLEAN,
             NEW jti \in ProofId \cup {None}, Exchange!Exchange(w, v, t, fits, jti)
      PROVE  Goal
  BY <1>16 DEF Exchange!Exchange
<1>17. ASSUME NEW u \in User, Exchange!BlockGrant(u)
      PROVE  Goal
  BY <1>17 DEF Exchange!BlockGrant
<1>18. ASSUME NEW u \in User, NEW live \in BOOLEAN, Exchange!AdvanceAccount(u, live)
      PROVE  Goal
  BY <1>18 DEF Exchange!AdvanceAccount
<1>19. ASSUME Exchange!DisableApplication
      PROVE  Goal
  BY <1>19 DEF Exchange!DisableApplication
<1>20. ASSUME Exchange!EnableApplication
      PROVE  Goal
  BY <1>20 DEF Exchange!EnableApplication
<1>21. ASSUME Exchange!Tick
      PROVE  Goal
  BY <1>21 DEF Exchange!Tick
<1> QED
  BY <1>0, <1>1, <1>2, <1>3, <1>4, <1>5, <1>6, <1>7, <1>8, <1>9, <1>10, <1>11, <1>12,
      <1>13, <1>14, <1>15, <1>16, <1>17, <1>18, <1>19, <1>20, <1>21 DEF Exchange!Next

LEMMA SpentStep ==
  ASSUME Exchange!ExchangeAssumption, XInv, [Exchange!Next]_Exchange!vars
  PROVE  Exchange!SpentForAReason'
<1> SUFFICES ASSUME NEW a \in Txn
             PROVE  txn'[a].consumed => SpentReason(a)'
  BY DEF Exchange!SpentForAReason, SpentReason
<1> /\ work \in [Work -> RequestRow]
    /\ txn \in [Txn -> TransactionRow]
  BY DEF XInv, XTyped
<1>a. txn[a].consumed => SpentReason(a)'
  <2>1. SUFFICES ASSUME txn[a].consumed
                 PROVE  SpentReason(a)'
    OBVIOUS
  <2>2. SpentReason(a)
    BY <2>1 DEF XInv, Exchange!SpentForAReason, SpentReason
  <2>3. CASE \E w \in Work : work[w].pc \in {"denied", "misused"} /\ work[w].txn = a
    BY <2>3, RefusalsStay DEF SpentReason
  <2>4. CASE txn[a].code # None
    <3>1. txn'[a].code = txn[a].code
      BY <2>4, AnsweredStays DEF TransactionRow
    <3>2. txn[a].code \in Work /\ work[txn[a].code].pc = "coded"
      BY <2>4 DEF XInv, CodesSound, CodeSound, TransactionRow
    <3>3. txn[a].code \in withdrawn => txn[a].code \in withdrawn'
      BY <3>2, RefusalsStay
    <3>4. CASE \E w \in Work : work[w].pc \in {"denied", "misused"} /\ work[w].txn = a
      BY <2>3, <3>4
    <3>5. CASE txn[a].code \in withdrawn
      BY <3>1, <3>3, <3>5 DEF SpentReason
    <3>6. CASE \E s \in sessions : s.code = txn[a].code
      BY <3>1, <3>6, ProofIdsStay DEF SpentReason
    <3> QED BY <2>2, <3>4, <3>5, <3>6 DEF SpentReason
  <2>5. CASE txn[a].code = None
    <3>1. None \notin Work
      BY DEF Exchange!ExchangeAssumption
    <3>2. None \notin withdrawn /\ \A s \in sessions : s.code # None
      BY <3>1 DEF XInv, XTyped, NativeSessionRow
    <3> QED BY <2>2, <2>3, <2>5, <3>2 DEF SpentReason
  <2> QED BY <2>4, <2>5
<1> USE DEF TransactionRow
<1>0. CASE UNCHANGED Exchange!vars
  BY <1>0, <1>a DEF Exchange!vars
<1> DEFINE Goal == txn'[a].consumed => SpentReason(a)'
<1>1. ASSUME NEW w \in Work, Exchange!FindPending(w)
      PROVE  Goal
  BY <1>1, <1>a DEF Exchange!FindPending
<1>2. ASSUME NEW w \in Work, Exchange!ClaimTransaction(w)
      PROVE  Goal
  BY <1>2, <1>a DEF Exchange!ClaimTransaction
<1>3. ASSUME NEW w \in Work, Exchange!AllowGrant(w)
      PROVE  Goal
  BY <1>3, <1>a DEF Exchange!AllowGrant
<1>4. ASSUME NEW w \in Work, Exchange!Rerun(w)
      PROVE  Goal
  BY <1>4, <1>a DEF Exchange!Rerun
<1>5. ASSUME NEW w \in Work, Exchange!CaptureGrantVersion(w)
      PROVE  Goal
  <2>1. work[w].txn \in Txn /\ ~txn[work[w].txn].consumed
    BY <1>5, RequestNames
       DEF XInv, AnswersSound, AnswerSound, Exchange!CaptureGrantVersion
  <2>2. txn'[a].consumed => txn[a].consumed
    BY <1>5, <2>1 DEF Exchange!CaptureGrantVersion
  <2> QED BY <2>2, <1>a
<1>6. ASSUME NEW w \in Work, Exchange!SpendCode(w)
      PROVE  Goal
  <2>1. work[w].txn \in Txn
    BY <1>6, RequestNames DEF HasAccount, Exchange!SpendCode
  <2>2. CASE a = work[w].txn /\ ~txn[a].consumed /\ txn'[a].consumed
    <3>1. work'[w].pc = "misused" /\ work'[w].txn = a
      BY <1>6, <2>2 DEF Exchange!SpendCode, RequestRow
    <3> QED BY <3>1 DEF SpentReason
  <2>3. CASE ~(a = work[w].txn /\ ~txn[a].consumed /\ txn'[a].consumed)
    <3>1. txn'[a].consumed => txn[a].consumed
      BY <1>6, <2>1, <2>3 DEF Exchange!SpendCode
    <3> QED BY <3>1, <1>a
  <2> QED BY <2>2, <2>3
<1>7. ASSUME NEW w \in Work, Exchange!FindUnspentCode(w)
      PROVE  Goal
  BY <1>7, <1>a DEF Exchange!FindUnspentCode, Exchange!FindUnspentCodeUnlocked
<1>8. ASSUME NEW w \in Work, Exchange!ReadAccountForIssuance(w)
      PROVE  Goal
  BY <1>8, <1>a DEF Exchange!ReadAccountForIssuance
<1>9. ASSUME NEW w \in Work, Exchange!Judge(w)
      PROVE  Goal
  BY <1>9, <1>a DEF Exchange!Judge
<1>10. ASSUME NEW w \in Work, Exchange!AssertSessionLimit(w)
      PROVE  Goal
  BY <1>10, <1>a DEF Exchange!AssertSessionLimit
<1>11. ASSUME NEW w \in Work, Exchange!SpendVoid(w)
      PROVE  Goal
  <2>1. work[w].txn \in Txn
    BY <1>11, RequestNames DEF HasAccount, Exchange!SpendVoid
  <2>2. CASE a = work[w].txn /\ ~txn[a].consumed /\ txn'[a].consumed
    <3>1. work[w].code \in withdrawn /\ txn[a].code = work[w].code
      BY <1>11, <2>2, RequestNames, CodeOfExchange
         DEF XInv, ExchangesSound, JudgedSound, HasAccount, Exchange!SpendVoid
    <3>2. withdrawn' = withdrawn /\ txn'[a].code = txn[a].code
      BY <1>11, <2>1, <2>2 DEF Exchange!SpendVoid, TransactionRow
    <3> QED BY <3>1, <3>2 DEF SpentReason
  <2>3. CASE ~(a = work[w].txn /\ ~txn[a].consumed /\ txn'[a].consumed)
    <3>1. txn'[a].consumed => txn[a].consumed
      BY <1>11, <2>1, <2>3 DEF Exchange!SpendVoid
    <3> QED BY <3>1, <1>a
  <2> QED BY <2>2, <2>3
<1>12. ASSUME NEW w \in Work, Exchange!IssuePair(w)
      PROVE  Goal
  <2>1. work[w].txn \in Txn
    BY <1>12, RequestNames DEF HasAccount, Exchange!IssuePair
  <2>2. CASE a = work[w].txn /\ ~txn[a].consumed /\ txn'[a].consumed
    <3>1. txn[a].code = work[w].code
      BY <1>12, <2>2, NewSessionSound DEF Exchange!IssuePair
    <3>2. txn' = [txn EXCEPT ![work[w].txn].consumed = TRUE]
      BY <1>12, <2>2 DEF Exchange!IssuePair
    <3>3. txn'[a].code = txn[a].code
      BY <2>1, <2>2, <3>2 DEF TransactionRow
    <3> DEFINE n == [by |-> w, code |-> work[w].code, user |-> work[w].user,
                     jti |-> work[w].jti, uv |-> work[w].uv, cv |-> work[w].cv,
                     gv |-> work[w].gv]
    <3>4. n \in sessions'
      BY <1>12, <2>2 DEF Exchange!IssuePair
    <3>5. n.code = work[w].code
      OBVIOUS
    <3> HIDE DEF n
    <3>6. \E s \in sessions' : s.code = work[w].code
      BY <3>4, <3>5
    <3> QED BY <3>1, <3>3, <3>6 DEF SpentReason
  <2>3. CASE ~(a = work[w].txn /\ ~txn[a].consumed /\ txn'[a].consumed)
    <3>1. txn'[a].consumed => txn[a].consumed
      BY <1>12, <2>1, <2>3 DEF Exchange!IssuePair
    <3> QED BY <3>1, <1>a
  <2> QED BY <2>2, <2>3
<1>13. ASSUME NEW w \in Work, Exchange!Abort(w)
      PROVE  Goal
  BY <1>13, <1>a DEF Exchange!Abort
<1>14. ASSUME NEW w \in Work, NEW t \in Txn, Exchange!Deny(w, t)
      PROVE  Goal
  <2>1. CASE a = t
    <3>1. work'[w].pc = "denied" /\ work'[w].txn = t
      BY <1>14, NoWorkTyped DEF Exchange!Deny, RequestRow
    <3> QED BY <2>1, <3>1 DEF SpentReason
  <2>2. CASE a # t
    BY <1>14, <2>2, <1>a DEF Exchange!Deny
  <2> QED BY <2>1, <2>2
<1>15. ASSUME NEW w \in Work, NEW t \in Txn, NEW u \in User, Exchange!Approve(w, u, t)
      PROVE  Goal
  BY <1>15, <1>a DEF Exchange!Approve
<1>16. ASSUME NEW w \in Work, NEW t \in Txn, NEW v \in Work, NEW fits \in BOOLEAN,
             NEW jti \in ProofId \cup {None}, Exchange!Exchange(w, v, t, fits, jti)
      PROVE  Goal
  BY <1>16, <1>a DEF Exchange!Exchange
<1>17. ASSUME NEW u \in User, Exchange!BlockGrant(u)
      PROVE  Goal
  BY <1>17, <1>a DEF Exchange!BlockGrant
<1>18. ASSUME NEW u \in User, NEW live \in BOOLEAN, Exchange!AdvanceAccount(u, live)
      PROVE  Goal
  BY <1>18, <1>a DEF Exchange!AdvanceAccount
<1>19. ASSUME Exchange!DisableApplication
      PROVE  Goal
  BY <1>19, <1>a DEF Exchange!DisableApplication
<1>20. ASSUME Exchange!EnableApplication
      PROVE  Goal
  BY <1>20, <1>a DEF Exchange!EnableApplication
<1>21. ASSUME Exchange!Tick
      PROVE  Goal
  BY <1>21, <1>a DEF Exchange!Tick
<1> QED
  BY <1>0, <1>1, <1>2, <1>3, <1>4, <1>5, <1>6, <1>7, <1>8, <1>9, <1>10, <1>11, <1>12,
      <1>13, <1>14, <1>15, <1>16, <1>17, <1>18, <1>19, <1>20, <1>21 DEF Exchange!Next

LEMMA XInit ==
  ASSUME Exchange!ExchangeAssumption, Exchange!Init
  PROVE  XInv
<1> USE DEF Exchange!Init
<1>1. XTyped
  <2>1. Exchange!Pending \in TransactionRow
    BY DEF Exchange!Pending, TransactionRow, Exchange!ExchangeAssumption
  <2>2. now \in 0..MaxTime /\ changes \in 0..MaxChanges
    BY DEF Exchange!ExchangeAssumption
  <2>3. IsFiniteSet(sessions)
    BY FS_EmptySet
  <2> QED BY <2>1, <2>2, <2>3, NoWorkTyped DEF XTyped
<1>2. \A w \in Work : work[w].pc = "idle" /\ work[w].kind = "none"
  BY DEF Exchange!NoWork
<1>3. \A t \in Txn : txn[t].code = None /\ ~txn[t].consumed
  BY DEF Exchange!Pending
<1>4. RequestsSound /\ RowsHeldOnce /\ CodesSound /\ AnswersSound
  BY <1>2, <1>3 DEF RequestsSound, RequestSound, RowsHeldOnce, Apart, Exchange!HoldsTxn,
       Exchange!HoldsAcct, CodesSound, CodeSound, AnswersSound, AnswerSound
<1>5. ApprovalsSound /\ ExchangesSound /\ RoomKept
  BY <1>2 DEF ApprovalsSound, AccountRead, ApplicationRead, GrantRead, WithdrawnBehind,
       ExchangesSound, JudgedSound, RoomKept, RoomFor
<1>6. SessionsSound /\ Exchange!OneSessionPerCode /\ Exchange!SpentForAReason
  BY <1>3 DEF SessionsSound, Exchange!OneSessionPerCode, Exchange!SpentForAReason
<1>7. Exchange!SessionCap
  <2>1. \A u \in User : Exchange!Active(u) = {}
    BY DEF Exchange!Active
  <2> QED
      BY <2>1, SameCardinality, FS_EmptySet
         DEF Exchange!SessionCap, Exchange!ExchangeAssumption
<1> QED BY <1>1, <1>4, <1>5, <1>6, <1>7 DEF XInv

LEMMA XStep ==
  ASSUME Exchange!ExchangeAssumption, XInv, [Exchange!Next]_Exchange!vars
  PROVE  XInv'
<1>1. ApprovalsSound'
  BY AccountReadStep, ApplicationReadStep, GrantReadStep, WithdrawnBehindStep
     DEF ApprovalsSound
<1> QED BY <1>1, XTypedStep, RequestsStep, RowsHeldOnceStep, CodesStep, AnswersStep,
           ExchangesStep, RoomStep, SessionsStep, OneSessionPerCodeStep, SessionCapStep,
           SpentStep DEF XInv

LEMMA XSafe ==
  ASSUME Exchange!ExchangeAssumption, XInv
  PROVE  /\ Exchange!TypeOK /\ Exchange!OneSessionPerCode /\ Exchange!OneAnswer
         /\ Exchange!WithdrawnGivesNothing /\ Exchange!SessionCap
         /\ Exchange!SpentForAReason
<1>1. Exchange!TypeOK
  BY DEF XInv, XTyped, TransactionRow, RowsHeldOnce, Apart, Exchange!TypeOK,
         Exchange!TxnLocked, Exchange!AcctLocked
<1>2. Exchange!OneAnswer
  <2> SUFFICES ASSUME NEW w \in Work, work[w].pc = "coded"
               PROVE  /\ txn[work[w].txn].code = w
                      /\ txn[work[w].txn].user = work[w].user
                      /\ ~\E v \in Work : work[v].pc = "denied"
                           /\ work[v].txn = work[w].txn
    BY DEF Exchange!OneAnswer
  <2>1. work[w].txn \in Txn /\ txn[work[w].txn].code = w /\ w # None
    BY RequestNames DEF XInv, AnswersSound, AnswerSound, Exchange!ExchangeAssumption
  <2>2. CodeSound(work[w].txn)
    BY <2>1 DEF XInv, CodesSound
  <2>3. \A v \in Work : work[v].pc = "denied" => txn[work[v].txn].code = None
    BY DEF XInv, AnswersSound, AnswerSound
  <2> QED BY <2>1, <2>2, <2>3 DEF CodeSound
<1>3. Exchange!WithdrawnGivesNothing
  <2> SUFFICES ASSUME NEW s \in sessions, s.code \in withdrawn
               PROVE  ~Exchange!Stands(s)
    BY DEF Exchange!WithdrawnGivesNothing
  <2>1. SessionSound(s) /\ s.code \in Work
    BY DEF XInv, XTyped, SessionsSound, NativeSessionRow
  <2>2. Behind(s.code)
    BY <2>1 DEF XInv, ApprovalsSound, WithdrawnBehind, SessionSound
  <2>3. work[s.code].user \in User /\ work[s.code] \in RequestRow
    BY <2>1, RequestNames DEF SessionSound
  <2>4. /\ acct[s.user].version \in Nat /\ app.version \in Nat
        /\ grant[s.user].version \in Int
    BY <2>1, <2>3 DEF XInv, XTyped, SessionSound, Exchange!NoGrant
  <2> QED
      BY <2>1, <2>2, <2>3, <2>4 DEF SessionSound, Behind, Exchange!Stands, RequestRow
<1> QED BY <1>1, <1>2, <1>3 DEF XInv

(* One answer for each transaction, and one session for each code.         *)
THEOREM ExchangeSafe ==
  ASSUME Exchange!ExchangeAssumption
  PROVE  Exchange!Spec => [](/\ Exchange!OneSessionPerCode /\ Exchange!OneAnswer
                             /\ Exchange!WithdrawnGivesNothing /\ Exchange!SessionCap
                             /\ Exchange!SpentForAReason /\ Exchange!TypeOK
                             /\ OneSessionPerCode)
<1>1. Exchange!Init => XInv
  BY XInit
<1>2. XInv /\ [Exchange!Next]_Exchange!vars => XInv'
  BY XStep
<1>3. XInv => /\ Exchange!OneSessionPerCode /\ Exchange!OneAnswer
              /\ Exchange!WithdrawnGivesNothing /\ Exchange!SessionCap
              /\ Exchange!SpentForAReason /\ Exchange!TypeOK
              /\ OneSessionPerCode
  BY XSafe DEF OneSessionPerCode
<1> QED BY <1>1, <1>2, <1>3, PTL DEF Exchange!Spec

(***************************************************************************)
(* Sign-in links (MagicLink).                                              *)
(***************************************************************************)

LinkRow ==
  [st : {"none", "asking", "stored"}, by : Browser \cup {None}, nonce : Link \cup {None},
   at : 0..MaxTime, deleted : BOOLEAN, spent : BOOLEAN, delivered : BOOLEAN]
VisitRow ==
  [pc : Links!Past \cup {"idle", "look", "owner", "claim", "confirm", "invalid"},
   by : Browser \cup {None}, link : Link \cup {None}, confirm : BOOLEAN,
   nonce : Link \cup {None}, sess : {"nobody", "owner", "other"}, at : 0..MaxTime,
   checked : 0..MaxTime, owes : BOOLEAN]

LTyped ==
  /\ now \in 0..MaxTime
  /\ link \in [Link -> LinkRow]
  /\ counter \in [st : {"none", "open"}, n : Nat, started : 0..MaxTime]
  /\ cookie \in [Browser -> Link \cup {None}]
  /\ signed \in [Browser -> {"nobody", "owner", "other"}]
  /\ account \in [st : {"none", "live", "deleted"}, verified : BOOLEAN]
  /\ reserved \in BOOLEAN /\ barred \in BOOLEAN
  /\ visit \in [Visit -> VisitRow]

(* A nonce belongs to the browser whose request drew it.                   *)
NonceOf(n, b) == n \in Link /\ link[n].st # "none" /\ link[n].by = b

LinkSound(l) ==
  /\ link[l].delivered => link[l].st = "stored"
  /\ link[l].st # "none" => link[l].by \in Browser /\ NonceOf(link[l].nonce, link[l].by)

CookieSound(b) == cookie[b] # None => NonceOf(cookie[b], b)

(* What a visit carries ...                                                *)
VisitSound(v) == LET x == visit[v] IN
  x.pc # "idle" => /\ x.link \in Link /\ link[x.link].delivered
                   /\ x.by \in Browser
                   /\ x.nonce # None => NonceOf(x.nonce, x.by)

(* ... what was found out of its link when it got where it is ...          *)
ClaimSound(v) == LET x == visit[v] IN
  /\ x.pc \in Links!Past \cup {"owner", "claim"} /\ ~x.confirm => link[x.link].by = x.by
  /\ x.pc \in Links!Past => link[x.link].spent
  /\ x.pc \in {"verify", "create", "taken", "complete", "signed_in", "challenged"} =>
       x.checked < Links!ExpiresAt(x.link)

(* ... and of the account, which never stops being there.                  *)
AccountSound(v) ==
  /\ visit[v].pc \in {"verify", "complete"} => account.st # "none"
  /\ visit[v].pc = "taken" => account.st # "none" \/ barred
  /\ visit[v].pc = "refused" => barred

LinksSound == \A l \in Link : LinkSound(l)
CookiesSound == \A b \in Browser : CookieSound(b)
VisitsSound == \A v \in Visit : VisitSound(v) /\ ClaimSound(v) /\ AccountSound(v)
Barred == account.st = "deleted" \/ reserved => barred

LInv ==
  /\ LTyped /\ LinksSound /\ CookiesSound /\ VisitsSound /\ Barred
  /\ Links!OneSignInPerLink

USE DEF Links!Goto

LEMMA LinkTypedStep ==
  ASSUME Links!LinkAssumption, LInv, [Links!Next]_Links!vars
  PROVE  link' \in [Link -> LinkRow]
<1>a. LTyped
  BY DEF LInv
<1>0. CASE UNCHANGED Links!vars
  BY <1>0, <1>a DEF Links!vars, LTyped, LinkRow
<1> DEFINE Goal == link' \in [Link -> LinkRow]
<1>1. ASSUME NEW l \in Link, NEW b \in Browser, Links!Request(l, b)
      PROVE  Goal
  <2> DEFINE x == [link[l] EXCEPT !.st = "asking", !.by = b, !.nonce = Links!Bind(l, b),
                               !.at = now, !.deleted = account.st = "deleted"]
  <2>1. link[l] \in LinkRow /\ Links!Bind(l, b) \in Link \cup {None}
    BY <1>a DEF LTyped, Links!Bind
  <2>2. now \in 0..MaxTime
    BY <1>a DEF LTyped
  <2>3. x \in LinkRow
    BY <2>1, <2>2 DEF LinkRow
  <2>4. link' = [link EXCEPT ![l] = x]
    BY <1>1 DEF Links!Request
  <2> HIDE DEF x
  <2> QED BY <2>3, <2>4, <1>a DEF LTyped
<1>2. ASSUME NEW l \in Link, NEW arrives \in BOOLEAN, Links!Store(l, arrives)
      PROVE  Goal
  <2>1. link[l] \in LinkRow
    BY <1>a DEF LTyped
  <2> DEFINE mailed == ~link[l].deleted
               /\ Links!TakeRequestSlot(link[l].at).n <= MaxPerHour
             x == [link[l] EXCEPT !.st = "stored", !.spent = ~mailed,
               !.delivered = arrives]
  <2>2. mailed \in BOOLEAN
    OBVIOUS
  <2>3. link' = [link EXCEPT ![l].st = "stored", ![l].spent = ~mailed,
                             ![l].delivered = arrives]
    BY <1>2 DEF Links!Store
  <2> HIDE DEF mailed
  <2>4. x \in LinkRow
    BY <2>1, <2>2 DEF LinkRow
  <2>5. link' = [link EXCEPT ![l] = x]
    BY <2>1, <2>3, <1>a DEF LTyped
  <2> HIDE DEF x
  <2> QED BY <2>4, <2>5, <1>a DEF LTyped
<1>3. ASSUME NEW v \in Visit, NEW l \in Link, NEW b \in Browser, NEW c \in BOOLEAN,
             Links!Verify(v, l, b, c)
      PROVE  Goal
  BY <1>3, <1>a DEF Links!Verify, LTyped, LinkRow
<1>4. ASSUME NEW v \in Visit, Links!Look(v)
      PROVE  Goal
  BY <1>4, <1>a DEF Links!Look, Links!SameBrowser, LTyped, LinkRow
<1>5. ASSUME NEW v \in Visit, Links!ClaimLink(v)
      PROVE  Goal
  <2>1. visit[v].link \in Link
    BY <1>5 DEF LInv, VisitsSound, VisitSound, Links!ClaimLink
  <2>2. link' = link \/ link' = [link EXCEPT ![visit[v].link].spent = TRUE]
    BY <1>5 DEF Links!ClaimLink
  <2>3. CASE link' = [link EXCEPT ![visit[v].link].spent = TRUE]
    <3> DEFINE k == visit[v].link
    <3>1. link[k] \in LinkRow /\ k \in Link
      BY <2>1, <1>a DEF LTyped
    <3> HIDE DEF k
    <3>2. [link[k] EXCEPT !.spent = TRUE] \in LinkRow
      BY <3>1 DEF LinkRow
    <3>3. link' = [link EXCEPT ![k] = [link[k] EXCEPT !.spent = TRUE]]
      BY <2>3 DEF k
    <3> QED BY <3>1, <3>2, <3>3, <1>a DEF LTyped
  <2> QED BY <2>2, <2>3, <1>a DEF LTyped
<1>6. ASSUME NEW v \in Visit, NEW owes \in BOOLEAN, Links!ResolveUser(v, owes)
      PROVE  Goal
  BY <1>6, <1>a DEF Links!ResolveUser, LTyped, LinkRow
<1>7. ASSUME NEW v \in Visit, Links!MarkVerified(v)
      PROVE  Goal
  BY <1>7, <1>a DEF Links!MarkVerified, LTyped, LinkRow
<1>8. ASSUME NEW v \in Visit, Links!CreateUser(v)
      PROVE  Goal
  BY <1>8, <1>a DEF Links!CreateUser, LTyped, LinkRow
<1>9. ASSUME NEW v \in Visit, NEW owes \in BOOLEAN, Links!AddressTaken(v, owes)
      PROVE  Goal
  BY <1>9, <1>a DEF Links!AddressTaken, LTyped, LinkRow
<1>10. ASSUME NEW v \in Visit, NEW issued \in BOOLEAN, Links!CompleteSignIn(v, issued)
      PROVE  Goal
  BY <1>10, <1>a DEF Links!CompleteSignIn, Links!Release, LTyped, LinkRow
<1>11. ASSUME NEW v \in Visit, NEW stands \in BOOLEAN, Links!LookAtOwner(v, stands)
      PROVE  Goal
  BY <1>11, <1>a DEF Links!LookAtOwner, LTyped, LinkRow
<1>12. ASSUME Links!RemoveCounter
      PROVE  Goal
  BY <1>12, <1>a DEF Links!RemoveCounter, LTyped, LinkRow
<1>13. ASSUME Links!DeleteAccount
      PROVE  Goal
  BY <1>13, <1>a DEF Links!DeleteAccount, LTyped, LinkRow
<1>14. ASSUME Links!ReservedElsewhere
      PROVE  Goal
  BY <1>14, <1>a DEF Links!ReservedElsewhere, LTyped, LinkRow
<1>15. ASSUME Links!Tick
      PROVE  Goal
  BY <1>15, <1>a DEF Links!Tick, LTyped, LinkRow
<1>16. ASSUME NEW verified \in BOOLEAN, Links!CreatedElsewhere(verified)
      PROVE  Goal
  BY <1>16, <1>a DEF Links!CreatedElsewhere, LTyped, LinkRow
<1> QED
  BY <1>0, <1>1, <1>2, <1>3, <1>4, <1>5, <1>6, <1>7, <1>8, <1>9, <1>10, <1>11, <1>12,
      <1>13, <1>14, <1>15, <1>16 DEF Links!Next

LEMMA VisitTypedStep ==
  ASSUME Links!LinkAssumption, LInv, [Links!Next]_Links!vars
  PROVE  visit' \in [Visit -> VisitRow]
<1>a. LTyped
  BY DEF LInv
<1>0. CASE UNCHANGED Links!vars
  BY <1>0, <1>a DEF Links!vars, LTyped, VisitRow, Links!Past
<1> DEFINE Goal == visit' \in [Visit -> VisitRow]
<1>1. ASSUME NEW l \in Link, NEW b \in Browser, Links!Request(l, b)
      PROVE  Goal
  BY <1>1, <1>a DEF Links!Request, Links!Bind, LTyped, VisitRow, Links!Past
<1>2. ASSUME NEW l \in Link, NEW arrives \in BOOLEAN, Links!Store(l, arrives)
      PROVE  Goal
  BY <1>2, <1>a DEF Links!Store, Links!TakeRequestSlot, LTyped, VisitRow, Links!Past
<1>3. ASSUME NEW v \in Visit, NEW l \in Link, NEW b \in Browser, NEW c \in BOOLEAN,
             Links!Verify(v, l, b, c)
      PROVE  Goal
  BY <1>3, <1>a DEF Links!Verify, LTyped, VisitRow, Links!Past, Links!LinkAssumption
<1>4. ASSUME NEW v \in Visit, Links!Look(v)
      PROVE  Goal
  BY <1>4, <1>a DEF Links!Look, Links!SameBrowser, LTyped, VisitRow, Links!Past
<1>5. ASSUME NEW v \in Visit, Links!ClaimLink(v)
      PROVE  Goal
  BY SMTT(60), <1>5, <1>a DEF Links!ClaimLink, LTyped, VisitRow, Links!Past
<1>6. ASSUME NEW v \in Visit, NEW owes \in BOOLEAN, Links!ResolveUser(v, owes)
      PROVE  Goal
  BY <1>6, <1>a DEF Links!ResolveUser, LTyped, VisitRow, Links!Past
<1>7. ASSUME NEW v \in Visit, Links!MarkVerified(v)
      PROVE  Goal
  <2>1. visit[v] \in VisitRow
    BY <1>a DEF LTyped
  <2>2. [visit[v] EXCEPT !.pc = "complete"] \in VisitRow
    BY <2>1 DEF VisitRow, Links!Past
  <2>3. visit' = [visit EXCEPT ![v] = [visit[v] EXCEPT !.pc = "complete"]]
    BY <1>7 DEF Links!MarkVerified
  <2> QED BY <2>2, <2>3, <1>a DEF LTyped
<1>8. ASSUME NEW v \in Visit, Links!CreateUser(v)
      PROVE  Goal
  BY <1>8, <1>a DEF Links!CreateUser, LTyped, VisitRow, Links!Past
<1>9. ASSUME NEW v \in Visit, NEW owes \in BOOLEAN, Links!AddressTaken(v, owes)
      PROVE  Goal
  BY <1>9, <1>a DEF Links!AddressTaken, LTyped, VisitRow, Links!Past
<1>10. ASSUME NEW v \in Visit, NEW issued \in BOOLEAN, Links!CompleteSignIn(v, issued)
      PROVE  Goal
  <2>1. PICK p \in {"challenged", "signed_in", "refused", "unissued"} :
               visit' = [visit EXCEPT ![v].pc = p]
    BY <1>10 DEF Links!CompleteSignIn
  <2>2. visit[v] \in VisitRow
    BY <1>a DEF LTyped
  <2>3. [visit[v] EXCEPT !.pc = p] \in VisitRow
    BY <2>2 DEF VisitRow, Links!Past
  <2>4. visit' = [visit EXCEPT ![v] = [visit[v] EXCEPT !.pc = p]]
    BY <2>1
  <2> QED BY <2>3, <2>4, <1>a DEF LTyped
<1>11. ASSUME NEW v \in Visit, NEW stands \in BOOLEAN, Links!LookAtOwner(v, stands)
      PROVE  Goal
  BY <1>11, <1>a DEF Links!LookAtOwner, LTyped, VisitRow, Links!Past
<1>12. ASSUME Links!RemoveCounter
      PROVE  Goal
  BY <1>12, <1>a DEF Links!RemoveCounter, LTyped, VisitRow, Links!Past
<1>13. ASSUME Links!DeleteAccount
      PROVE  Goal
  BY <1>13, <1>a DEF Links!DeleteAccount, LTyped, VisitRow, Links!Past
<1>14. ASSUME Links!ReservedElsewhere
      PROVE  Goal
  BY <1>14, <1>a DEF Links!ReservedElsewhere, LTyped, VisitRow, Links!Past
<1>15. ASSUME Links!Tick
      PROVE  Goal
  BY <1>15, <1>a DEF Links!Tick, LTyped, VisitRow, Links!Past
<1>16. ASSUME NEW verified \in BOOLEAN, Links!CreatedElsewhere(verified)
      PROVE  Goal
  BY <1>16, <1>a DEF Links!CreatedElsewhere, LTyped, VisitRow, Links!Past
<1> QED
  BY <1>0, <1>1, <1>2, <1>3, <1>4, <1>5, <1>6, <1>7, <1>8, <1>9, <1>10, <1>11, <1>12,
      <1>13, <1>14, <1>15, <1>16 DEF Links!Next

LEMMA OthersTypedStep ==
  ASSUME Links!LinkAssumption, LInv, [Links!Next]_Links!vars
  PROVE  (now' \in 0..MaxTime /\ reserved' \in BOOLEAN /\ barred' \in BOOLEAN
          /\ cookie' \in [Browser -> Link \cup {None}]
          /\ signed' \in [Browser -> {"nobody", "owner", "other"}]
          /\ account' \in [st : {"none", "live", "deleted"}, verified : BOOLEAN])
<1>a. LTyped
  BY DEF LInv
<1>0. CASE UNCHANGED Links!vars
  BY <1>0, <1>a DEF Links!vars, LTyped, LinkRow
<1> DEFINE Goal ==
         (now' \in 0..MaxTime /\ reserved' \in BOOLEAN /\ barred' \in BOOLEAN
          /\ cookie' \in [Browser -> Link \cup {None}]
          /\ signed' \in [Browser -> {"nobody", "owner", "other"}]
          /\ account' \in [st : {"none", "live", "deleted"}, verified : BOOLEAN])
<1>1. ASSUME NEW l \in Link, NEW b \in Browser, Links!Request(l, b)
      PROVE  Goal
  BY <1>1, <1>a DEF Links!Request, Links!Bind, LTyped, LinkRow
<1>2. ASSUME NEW l \in Link, NEW arrives \in BOOLEAN, Links!Store(l, arrives)
      PROVE  Goal
  BY <1>2, <1>a DEF Links!Store, Links!TakeRequestSlot, LTyped, LinkRow
<1>3. ASSUME NEW v \in Visit, NEW l \in Link, NEW b \in Browser, NEW c \in BOOLEAN,
             Links!Verify(v, l, b, c)
      PROVE  Goal
  BY <1>3, <1>a DEF Links!Verify, LTyped, LinkRow
<1>4. ASSUME NEW v \in Visit, Links!Look(v)
      PROVE  Goal
  BY <1>4, <1>a DEF Links!Look, Links!SameBrowser, LTyped, LinkRow
<1>5. ASSUME NEW v \in Visit, Links!ClaimLink(v)
      PROVE  Goal
  BY <1>5, <1>a DEF Links!ClaimLink, LTyped, LinkRow
<1>6. ASSUME NEW v \in Visit, NEW owes \in BOOLEAN, Links!ResolveUser(v, owes)
      PROVE  Goal
  BY <1>6, <1>a DEF Links!ResolveUser, LTyped, LinkRow
<1>7. ASSUME NEW v \in Visit, Links!MarkVerified(v)
      PROVE  Goal
  BY <1>7, <1>a DEF Links!MarkVerified, LTyped, LinkRow
<1>8. ASSUME NEW v \in Visit, Links!CreateUser(v)
      PROVE  Goal
  <2>1. account' = account \/ account' = [st |-> "live", verified |-> TRUE]
    BY <1>8 DEF Links!CreateUser
  <2>2. account' \in [st : {"none", "live", "deleted"}, verified : BOOLEAN]
    <3>1. [st |-> "live", verified |-> TRUE]
            \in [st : {"none", "live", "deleted"}, verified : BOOLEAN]
      OBVIOUS
    <3> QED BY <2>1, <3>1, <1>a DEF LTyped
  <2>3. UNCHANGED <<now, reserved, barred, cookie, signed>>
    BY <1>8 DEF Links!CreateUser
  <2> QED BY <2>2, <2>3, <1>a DEF LTyped
<1>9. ASSUME NEW v \in Visit, NEW owes \in BOOLEAN, Links!AddressTaken(v, owes)
      PROVE  Goal
  BY <1>9, <1>a DEF Links!AddressTaken, LTyped, LinkRow
<1>10. ASSUME NEW v \in Visit, NEW issued \in BOOLEAN, Links!CompleteSignIn(v, issued)
      PROVE  Goal
  BY <1>10, <1>a DEF Links!CompleteSignIn, Links!Release, LTyped, LinkRow
<1>11. ASSUME NEW v \in Visit, NEW stands \in BOOLEAN, Links!LookAtOwner(v, stands)
      PROVE  Goal
  BY <1>11, <1>a DEF Links!LookAtOwner, LTyped, LinkRow
<1>12. ASSUME Links!RemoveCounter
      PROVE  Goal
  BY <1>12, <1>a DEF Links!RemoveCounter, LTyped, LinkRow
<1>13. ASSUME Links!DeleteAccount
      PROVE  Goal
  BY <1>13, <1>a DEF Links!DeleteAccount, LTyped, LinkRow
<1>14. ASSUME Links!ReservedElsewhere
      PROVE  Goal
  BY <1>14, <1>a DEF Links!ReservedElsewhere, LTyped, LinkRow
<1>15. ASSUME Links!Tick
      PROVE  Goal
  BY <1>15, <1>a DEF Links!Tick, LTyped, LinkRow, Links!LinkAssumption
<1>16. ASSUME NEW verified \in BOOLEAN, Links!CreatedElsewhere(verified)
      PROVE  Goal
  BY <1>16, <1>a DEF Links!CreatedElsewhere, LTyped, LinkRow
<1> QED
  BY <1>0, <1>1, <1>2, <1>3, <1>4, <1>5, <1>6, <1>7, <1>8, <1>9, <1>10, <1>11, <1>12,
      <1>13, <1>14, <1>15, <1>16 DEF Links!Next

LEMMA CounterTypedStep ==
  ASSUME Links!LinkAssumption, LInv, [Links!Next]_Links!vars
  PROVE  counter' \in [st : {"none", "open"}, n : Nat, started : 0..MaxTime]
<1>a. LTyped
  BY DEF LInv
<1>0. CASE UNCHANGED Links!vars
  BY <1>0, <1>a DEF Links!vars, LTyped, LinkRow
<1> DEFINE Goal == counter' \in [st : {"none", "open"}, n : Nat, started : 0..MaxTime]
<1>1. ASSUME NEW l \in Link, NEW b \in Browser, Links!Request(l, b)
      PROVE  Goal
  BY <1>1, <1>a DEF Links!Request, Links!Bind, LTyped, LinkRow
<1>2. ASSUME NEW l \in Link, NEW arrives \in BOOLEAN, Links!Store(l, arrives)
      PROVE  Goal
  BY <1>2, <1>a DEF Links!Store, Links!TakeRequestSlot, LTyped, LinkRow
<1>3. ASSUME NEW v \in Visit, NEW l \in Link, NEW b \in Browser, NEW c \in BOOLEAN,
             Links!Verify(v, l, b, c)
      PROVE  Goal
  BY <1>3, <1>a DEF Links!Verify, LTyped, LinkRow
<1>4. ASSUME NEW v \in Visit, Links!Look(v)
      PROVE  Goal
  BY <1>4, <1>a DEF Links!Look, Links!SameBrowser, LTyped, LinkRow
<1>5. ASSUME NEW v \in Visit, Links!ClaimLink(v)
      PROVE  Goal
  BY <1>5, <1>a DEF Links!ClaimLink, LTyped, LinkRow
<1>6. ASSUME NEW v \in Visit, NEW owes \in BOOLEAN, Links!ResolveUser(v, owes)
      PROVE  Goal
  BY <1>6, <1>a DEF Links!ResolveUser, LTyped, LinkRow
<1>7. ASSUME NEW v \in Visit, Links!MarkVerified(v)
      PROVE  Goal
  BY <1>7, <1>a DEF Links!MarkVerified, LTyped, LinkRow
<1>8. ASSUME NEW v \in Visit, Links!CreateUser(v)
      PROVE  Goal
  BY <1>8, <1>a DEF Links!CreateUser, LTyped, LinkRow
<1>9. ASSUME NEW v \in Visit, NEW owes \in BOOLEAN, Links!AddressTaken(v, owes)
      PROVE  Goal
  BY <1>9, <1>a DEF Links!AddressTaken, LTyped, LinkRow
<1>10. ASSUME NEW v \in Visit, NEW issued \in BOOLEAN, Links!CompleteSignIn(v, issued)
      PROVE  Goal
  BY <1>10, <1>a DEF Links!CompleteSignIn, Links!Release, LTyped, LinkRow
<1>11. ASSUME NEW v \in Visit, NEW stands \in BOOLEAN, Links!LookAtOwner(v, stands)
      PROVE  Goal
  BY <1>11, <1>a DEF Links!LookAtOwner, LTyped, LinkRow
<1>12. ASSUME Links!RemoveCounter
      PROVE  Goal
  BY <1>12, <1>a DEF Links!RemoveCounter, LTyped, LinkRow, Links!LinkAssumption
<1>13. ASSUME Links!DeleteAccount
      PROVE  Goal
  BY <1>13, <1>a DEF Links!DeleteAccount, LTyped, LinkRow
<1>14. ASSUME Links!ReservedElsewhere
      PROVE  Goal
  BY <1>14, <1>a DEF Links!ReservedElsewhere, LTyped, LinkRow
<1>15. ASSUME Links!Tick
      PROVE  Goal
  BY <1>15, <1>a DEF Links!Tick, LTyped, LinkRow
<1>16. ASSUME NEW verified \in BOOLEAN, Links!CreatedElsewhere(verified)
      PROVE  Goal
  BY <1>16, <1>a DEF Links!CreatedElsewhere, LTyped, LinkRow
<1> QED
  BY <1>0, <1>1, <1>2, <1>3, <1>4, <1>5, <1>6, <1>7, <1>8, <1>9, <1>10, <1>11, <1>12,
      <1>13, <1>14, <1>15, <1>16 DEF Links!Next

LEMMA NonceStays ==
  ASSUME NEW n, NEW holder, Links!LinkAssumption, LInv, [Links!Next]_Links!vars,
         NonceOf(n, holder)
  PROVE  NonceOf(n, holder)'
<1>a. LTyped /\ NonceOf(n, holder)
  BY DEF LInv
<1>0. CASE UNCHANGED Links!vars
  BY <1>0, <1>a DEF Links!vars, NonceOf, LTyped, LinkRow
<1> DEFINE Goal == NonceOf(n, holder)'
<1>1. ASSUME NEW l \in Link, NEW b \in Browser, Links!Request(l, b)
      PROVE  Goal
  BY <1>1, <1>a DEF Links!Request, Links!Bind, NonceOf, LTyped, LinkRow
<1>2. ASSUME NEW l \in Link, NEW arrives \in BOOLEAN, Links!Store(l, arrives)
      PROVE  Goal
  BY <1>2, <1>a DEF Links!Store, Links!TakeRequestSlot, NonceOf, LTyped, LinkRow
<1>3. ASSUME NEW v \in Visit, NEW l \in Link, NEW b \in Browser, NEW c \in BOOLEAN,
             Links!Verify(v, l, b, c)
      PROVE  Goal
  BY <1>3, <1>a DEF Links!Verify, NonceOf, LTyped, LinkRow
<1>4. ASSUME NEW v \in Visit, Links!Look(v)
      PROVE  Goal
  BY <1>4, <1>a DEF Links!Look, Links!SameBrowser, NonceOf, LTyped, LinkRow
<1>5. ASSUME NEW v \in Visit, Links!ClaimLink(v)
      PROVE  Goal
  BY <1>5, <1>a DEF Links!ClaimLink, NonceOf, LTyped, LinkRow
<1>6. ASSUME NEW v \in Visit, NEW owes \in BOOLEAN, Links!ResolveUser(v, owes)
      PROVE  Goal
  BY <1>6, <1>a DEF Links!ResolveUser, NonceOf, LTyped, LinkRow
<1>7. ASSUME NEW v \in Visit, Links!MarkVerified(v)
      PROVE  Goal
  BY <1>7, <1>a DEF Links!MarkVerified, NonceOf, LTyped, LinkRow
<1>8. ASSUME NEW v \in Visit, Links!CreateUser(v)
      PROVE  Goal
  BY <1>8, <1>a DEF Links!CreateUser, NonceOf, LTyped, LinkRow
<1>9. ASSUME NEW v \in Visit, NEW owes \in BOOLEAN, Links!AddressTaken(v, owes)
      PROVE  Goal
  BY <1>9, <1>a DEF Links!AddressTaken, NonceOf, LTyped, LinkRow
<1>10. ASSUME NEW v \in Visit, NEW issued \in BOOLEAN, Links!CompleteSignIn(v, issued)
      PROVE  Goal
  BY <1>10, <1>a DEF Links!CompleteSignIn, Links!Release, NonceOf, LTyped, LinkRow
<1>11. ASSUME NEW v \in Visit, NEW stands \in BOOLEAN, Links!LookAtOwner(v, stands)
      PROVE  Goal
  BY <1>11, <1>a DEF Links!LookAtOwner, NonceOf, LTyped, LinkRow
<1>12. ASSUME Links!RemoveCounter
      PROVE  Goal
  BY <1>12, <1>a DEF Links!RemoveCounter, NonceOf, LTyped, LinkRow
<1>13. ASSUME Links!DeleteAccount
      PROVE  Goal
  BY <1>13, <1>a DEF Links!DeleteAccount, NonceOf, LTyped, LinkRow
<1>14. ASSUME Links!ReservedElsewhere
      PROVE  Goal
  BY <1>14, <1>a DEF Links!ReservedElsewhere, NonceOf, LTyped, LinkRow
<1>15. ASSUME Links!Tick
      PROVE  Goal
  BY <1>15, <1>a DEF Links!Tick, NonceOf, LTyped, LinkRow
<1>16. ASSUME NEW verified \in BOOLEAN, Links!CreatedElsewhere(verified)
      PROVE  Goal
  BY <1>16, <1>a DEF Links!CreatedElsewhere, NonceOf, LTyped, LinkRow
<1> QED
  BY <1>0, <1>1, <1>2, <1>3, <1>4, <1>5, <1>6, <1>7, <1>8, <1>9, <1>10, <1>11, <1>12,
      <1>13, <1>14, <1>15, <1>16 DEF Links!Next

LEMMA MailedStays ==
  ASSUME NEW k, Links!LinkAssumption, LInv, [Links!Next]_Links!vars, k \in Link,
         link[k].delivered
  PROVE  (/\ link'[k].delivered /\ link'[k].st = "stored"
          /\ (link[k].spent => link'[k].spent)
           /\ link'[k].by = link[k].by /\ link'[k].at = link[k].at
           /\ link'[k].nonce = link[k].nonce)
<1>a. LTyped /\ link[k] \in LinkRow /\ link[k].delivered /\ link[k].st = "stored"
  BY DEF LInv, LTyped, LinksSound, LinkSound
<1>0. CASE UNCHANGED Links!vars
  BY <1>0, <1>a DEF Links!vars, LTyped, LinkRow
<1> DEFINE Goal ==
         (/\ link'[k].delivered /\ link'[k].st = "stored"
          /\ (link[k].spent => link'[k].spent)
           /\ link'[k].by = link[k].by /\ link'[k].at = link[k].at
           /\ link'[k].nonce = link[k].nonce)
<1>1. ASSUME NEW l \in Link, NEW b \in Browser, Links!Request(l, b)
      PROVE  Goal
  BY <1>1, <1>a DEF Links!Request, Links!Bind, LTyped, LinkRow
<1>2. ASSUME NEW l \in Link, NEW arrives \in BOOLEAN, Links!Store(l, arrives)
      PROVE  Goal
  BY <1>2, <1>a DEF Links!Store, Links!TakeRequestSlot, LTyped, LinkRow
<1>3. ASSUME NEW v \in Visit, NEW l \in Link, NEW b \in Browser, NEW c \in BOOLEAN,
             Links!Verify(v, l, b, c)
      PROVE  Goal
  BY <1>3, <1>a DEF Links!Verify, LTyped, LinkRow
<1>4. ASSUME NEW v \in Visit, Links!Look(v)
      PROVE  Goal
  BY <1>4, <1>a DEF Links!Look, Links!SameBrowser, LTyped, LinkRow
<1>5. ASSUME NEW v \in Visit, Links!ClaimLink(v)
      PROVE  Goal
  BY <1>5, <1>a DEF Links!ClaimLink, LTyped, LinkRow
<1>6. ASSUME NEW v \in Visit, NEW owes \in BOOLEAN, Links!ResolveUser(v, owes)
      PROVE  Goal
  BY <1>6, <1>a DEF Links!ResolveUser, LTyped, LinkRow
<1>7. ASSUME NEW v \in Visit, Links!MarkVerified(v)
      PROVE  Goal
  BY <1>7, <1>a DEF Links!MarkVerified, LTyped, LinkRow
<1>8. ASSUME NEW v \in Visit, Links!CreateUser(v)
      PROVE  Goal
  BY <1>8, <1>a DEF Links!CreateUser, LTyped, LinkRow
<1>9. ASSUME NEW v \in Visit, NEW owes \in BOOLEAN, Links!AddressTaken(v, owes)
      PROVE  Goal
  BY <1>9, <1>a DEF Links!AddressTaken, LTyped, LinkRow
<1>10. ASSUME NEW v \in Visit, NEW issued \in BOOLEAN, Links!CompleteSignIn(v, issued)
      PROVE  Goal
  BY <1>10, <1>a DEF Links!CompleteSignIn, Links!Release, LTyped, LinkRow
<1>11. ASSUME NEW v \in Visit, NEW stands \in BOOLEAN, Links!LookAtOwner(v, stands)
      PROVE  Goal
  BY <1>11, <1>a DEF Links!LookAtOwner, LTyped, LinkRow
<1>12. ASSUME Links!RemoveCounter
      PROVE  Goal
  BY <1>12, <1>a DEF Links!RemoveCounter, LTyped, LinkRow
<1>13. ASSUME Links!DeleteAccount
      PROVE  Goal
  BY <1>13, <1>a DEF Links!DeleteAccount, LTyped, LinkRow
<1>14. ASSUME Links!ReservedElsewhere
      PROVE  Goal
  BY <1>14, <1>a DEF Links!ReservedElsewhere, LTyped, LinkRow
<1>15. ASSUME Links!Tick
      PROVE  Goal
  BY <1>15, <1>a DEF Links!Tick, LTyped, LinkRow
<1>16. ASSUME NEW verified \in BOOLEAN, Links!CreatedElsewhere(verified)
      PROVE  Goal
  BY <1>16, <1>a DEF Links!CreatedElsewhere, LTyped, LinkRow
<1> QED
  BY <1>0, <1>1, <1>2, <1>3, <1>4, <1>5, <1>6, <1>7, <1>8, <1>9, <1>10, <1>11, <1>12,
      <1>13, <1>14, <1>15, <1>16 DEF Links!Next

LEMMA LinksStep ==
  ASSUME NEW n, Links!LinkAssumption, LInv, [Links!Next]_Links!vars, n \in Link
  PROVE  LinkSound(n)'
<1>a. LTyped /\ LinkSound(n)
  BY DEF LInv, LinksSound
<1>b. \A m, holder : NonceOf(m, holder) => NonceOf(m, holder)'
  BY NonceStays
<1>0. CASE UNCHANGED Links!vars
  BY <1>0, <1>a, <1>b DEF Links!vars, LinkSound, LTyped, LinkRow
<1> DEFINE Goal == LinkSound(n)'
<1>1. ASSUME NEW l \in Link, NEW b \in Browser, Links!Request(l, b)
      PROVE  Goal
  <2>1. CASE n = l
    <3>1. /\ link'[n].st = "asking" /\ link'[n].by = b /\ link'[n].nonce = Links!Bind(l,
               b)
          /\ link'[n].delivered = link[n].delivered
      BY <1>1, <2>1, <1>a DEF Links!Request, LTyped, LinkRow
    <3>2. ~link[n].delivered
      BY <1>1, <2>1, <1>a DEF Links!Request, LinkSound
    <3>3. CookieSound(b)
      BY DEF LInv, CookiesSound
    <3>4. PICK m : m = Links!Bind(l, b)
      OBVIOUS
    <3>5. NonceOf(m, b)'
      BY <3>1, <3>3, <3>4, <1>b, <2>1 DEF Links!Bind, CookieSound, NonceOf
    <3> QED BY <3>1, <3>2, <3>4, <3>5 DEF LinkSound
  <2>2. CASE n # l
    BY <1>1, <2>2, <1>a, <1>b DEF Links!Request, LinkSound, LTyped
  <2> QED BY <2>1, <2>2
<1>2. ASSUME NEW l \in Link, NEW arrives \in BOOLEAN, Links!Store(l, arrives)
      PROVE  Goal
  BY <1>2, <1>a, <1>b DEF Links!Store, Links!TakeRequestSlot, LinkSound, LTyped, LinkRow
<1>3. ASSUME NEW v \in Visit, NEW l \in Link, NEW b \in Browser, NEW c \in BOOLEAN,
             Links!Verify(v, l, b, c)
      PROVE  Goal
  BY <1>3, <1>a, <1>b DEF Links!Verify, LinkSound, LTyped, LinkRow
<1>4. ASSUME NEW v \in Visit, Links!Look(v)
      PROVE  Goal
  BY <1>4, <1>a, <1>b DEF Links!Look, Links!SameBrowser, LinkSound, LTyped, LinkRow
<1>5. ASSUME NEW v \in Visit, Links!ClaimLink(v)
      PROVE  Goal
  BY <1>5, <1>a, <1>b DEF Links!ClaimLink, LinkSound, LTyped, LinkRow
<1>6. ASSUME NEW v \in Visit, NEW owes \in BOOLEAN, Links!ResolveUser(v, owes)
      PROVE  Goal
  BY <1>6, <1>a, <1>b DEF Links!ResolveUser, LinkSound, LTyped, LinkRow
<1>7. ASSUME NEW v \in Visit, Links!MarkVerified(v)
      PROVE  Goal
  BY <1>7, <1>a, <1>b DEF Links!MarkVerified, LinkSound, LTyped, LinkRow
<1>8. ASSUME NEW v \in Visit, Links!CreateUser(v)
      PROVE  Goal
  BY <1>8, <1>a, <1>b DEF Links!CreateUser, LinkSound, LTyped, LinkRow
<1>9. ASSUME NEW v \in Visit, NEW owes \in BOOLEAN, Links!AddressTaken(v, owes)
      PROVE  Goal
  BY <1>9, <1>a, <1>b DEF Links!AddressTaken, LinkSound, LTyped, LinkRow
<1>10. ASSUME NEW v \in Visit, NEW issued \in BOOLEAN, Links!CompleteSignIn(v, issued)
      PROVE  Goal
  BY <1>10, <1>a, <1>b DEF Links!CompleteSignIn, Links!Release, LinkSound, LTyped,
      LinkRow
<1>11. ASSUME NEW v \in Visit, NEW stands \in BOOLEAN, Links!LookAtOwner(v, stands)
      PROVE  Goal
  BY <1>11, <1>a, <1>b DEF Links!LookAtOwner, LinkSound, LTyped, LinkRow
<1>12. ASSUME Links!RemoveCounter
      PROVE  Goal
  BY <1>12, <1>a, <1>b DEF Links!RemoveCounter, LinkSound, LTyped, LinkRow
<1>13. ASSUME Links!DeleteAccount
      PROVE  Goal
  BY <1>13, <1>a, <1>b DEF Links!DeleteAccount, LinkSound, LTyped, LinkRow
<1>14. ASSUME Links!ReservedElsewhere
      PROVE  Goal
  BY <1>14, <1>a, <1>b DEF Links!ReservedElsewhere, LinkSound, LTyped, LinkRow
<1>15. ASSUME Links!Tick
      PROVE  Goal
  BY <1>15, <1>a, <1>b DEF Links!Tick, LinkSound, LTyped, LinkRow
<1>16. ASSUME NEW verified \in BOOLEAN, Links!CreatedElsewhere(verified)
      PROVE  Goal
  BY <1>16, <1>a, <1>b DEF Links!CreatedElsewhere, LinkSound, LTyped, LinkRow
<1> QED
  BY <1>0, <1>1, <1>2, <1>3, <1>4, <1>5, <1>6, <1>7, <1>8, <1>9, <1>10, <1>11, <1>12,
      <1>13, <1>14, <1>15, <1>16 DEF Links!Next

LEMMA CookiesStep ==
  ASSUME NEW h, Links!LinkAssumption, LInv, [Links!Next]_Links!vars, h \in Browser
  PROVE  CookieSound(h)'
<1>a. LTyped /\ CookieSound(h)
  BY DEF LInv, CookiesSound
<1>b. \A m, holder : NonceOf(m, holder) => NonceOf(m, holder)'
  BY NonceStays
<1>0. CASE UNCHANGED Links!vars
  BY <1>0, <1>a, <1>b DEF Links!vars, CookieSound, LTyped
<1> DEFINE Goal == CookieSound(h)'
<1>1. ASSUME NEW l \in Link, NEW b \in Browser, Links!Request(l, b)
      PROVE  Goal
  BY <1>1, <1>a, <1>b DEF Links!Request, Links!Bind, CookieSound, LTyped
<1>2. ASSUME NEW l \in Link, NEW arrives \in BOOLEAN, Links!Store(l, arrives)
      PROVE  Goal
  <2>1. NonceOf(link[l].nonce, link[l].by)
    BY <1>2 DEF Links!Store, LInv, LinksSound, LinkSound
  <2> QED BY <1>2, <2>1, <1>a, <1>b DEF Links!Store, CookieSound, LTyped
<1>3. ASSUME NEW v \in Visit, NEW l \in Link, NEW b \in Browser, NEW c \in BOOLEAN,
             Links!Verify(v, l, b, c)
      PROVE  Goal
  BY <1>3, <1>a, <1>b DEF Links!Verify, CookieSound, LTyped
<1>4. ASSUME NEW v \in Visit, Links!Look(v)
      PROVE  Goal
  BY <1>4, <1>a, <1>b DEF Links!Look, Links!SameBrowser, CookieSound, LTyped
<1>5. ASSUME NEW v \in Visit, Links!ClaimLink(v)
      PROVE  Goal
  BY <1>5, <1>a, <1>b DEF Links!ClaimLink, CookieSound, LTyped
<1>6. ASSUME NEW v \in Visit, NEW owes \in BOOLEAN, Links!ResolveUser(v, owes)
      PROVE  Goal
  BY <1>6, <1>a, <1>b DEF Links!ResolveUser, CookieSound, LTyped
<1>7. ASSUME NEW v \in Visit, Links!MarkVerified(v)
      PROVE  Goal
  BY <1>7, <1>a, <1>b DEF Links!MarkVerified, CookieSound, LTyped
<1>8. ASSUME NEW v \in Visit, Links!CreateUser(v)
      PROVE  Goal
  BY <1>8, <1>a, <1>b DEF Links!CreateUser, CookieSound, LTyped
<1>9. ASSUME NEW v \in Visit, NEW owes \in BOOLEAN, Links!AddressTaken(v, owes)
      PROVE  Goal
  BY <1>9, <1>a, <1>b DEF Links!AddressTaken, CookieSound, LTyped
<1>10. ASSUME NEW v \in Visit, NEW issued \in BOOLEAN, Links!CompleteSignIn(v, issued)
      PROVE  Goal
  BY <1>10, <1>a, <1>b DEF Links!CompleteSignIn, Links!Release, CookieSound, LTyped
<1>11. ASSUME NEW v \in Visit, NEW stands \in BOOLEAN, Links!LookAtOwner(v, stands)
      PROVE  Goal
  BY <1>11, <1>a, <1>b DEF Links!LookAtOwner, CookieSound, LTyped
<1>12. ASSUME Links!RemoveCounter
      PROVE  Goal
  BY <1>12, <1>a, <1>b DEF Links!RemoveCounter, CookieSound, LTyped
<1>13. ASSUME Links!DeleteAccount
      PROVE  Goal
  BY <1>13, <1>a, <1>b DEF Links!DeleteAccount, CookieSound, LTyped
<1>14. ASSUME Links!ReservedElsewhere
      PROVE  Goal
  BY <1>14, <1>a, <1>b DEF Links!ReservedElsewhere, CookieSound, LTyped
<1>15. ASSUME Links!Tick
      PROVE  Goal
  BY <1>15, <1>a, <1>b DEF Links!Tick, CookieSound, LTyped
<1>16. ASSUME NEW verified \in BOOLEAN, Links!CreatedElsewhere(verified)
      PROVE  Goal
  BY <1>16, <1>a, <1>b DEF Links!CreatedElsewhere, CookieSound, LTyped
<1> QED
  BY <1>0, <1>1, <1>2, <1>3, <1>4, <1>5, <1>6, <1>7, <1>8, <1>9, <1>10, <1>11, <1>12,
      <1>13, <1>14, <1>15, <1>16 DEF Links!Next

LEMMA VisitsStep ==
  ASSUME NEW x, Links!LinkAssumption, LInv, [Links!Next]_Links!vars, x \in Visit
  PROVE  VisitSound(x)'
<1>a. LTyped /\ VisitSound(x)
  BY DEF LInv, VisitsSound
<1>b. \A m, holder : NonceOf(m, holder) => NonceOf(m, holder)'
  BY NonceStays
<1>c. \A k \in Link : link[k].delivered => link'[k].delivered
  BY MailedStays
<1>0. CASE UNCHANGED Links!vars
  BY <1>0, <1>a, <1>b, <1>c DEF Links!vars, VisitSound, LTyped, VisitRow
<1> DEFINE Goal == VisitSound(x)'
<1>1. ASSUME NEW l \in Link, NEW b \in Browser, Links!Request(l, b)
      PROVE  Goal
  BY <1>1, <1>a, <1>b, <1>c DEF Links!Request, Links!Bind, VisitSound, LTyped, VisitRow
<1>2. ASSUME NEW l \in Link, NEW arrives \in BOOLEAN, Links!Store(l, arrives)
      PROVE  Goal
  BY <1>2, <1>a, <1>b, <1>c DEF Links!Store, Links!TakeRequestSlot, VisitSound, LTyped,
      VisitRow
<1>3. ASSUME NEW v \in Visit, NEW l \in Link, NEW b \in Browser, NEW c \in BOOLEAN,
             Links!Verify(v, l, b, c)
      PROVE  Goal
  <2>1. CASE x = v
    <3>1. /\ visit'[x].link = l /\ visit'[x].by = b /\ visit'[x].nonce = cookie[b]
          /\ link[l].delivered
      BY <1>3, <2>1, <1>a DEF Links!Verify, LTyped
    <3>2. CookieSound(b)
      BY DEF LInv, CookiesSound
    <3> QED BY <3>1, <3>2, <1>b, <1>c DEF VisitSound, CookieSound
  <2>2. CASE x # v
    BY <1>3, <2>2, <1>a, <1>b, <1>c DEF Links!Verify, VisitSound, LTyped
  <2> QED BY <2>1, <2>2
<1>4. ASSUME NEW v \in Visit, Links!Look(v)
      PROVE  Goal
  BY <1>4, <1>a, <1>b, <1>c DEF Links!Look, Links!SameBrowser, VisitSound, LTyped,
      VisitRow
<1>5. ASSUME NEW v \in Visit, Links!ClaimLink(v)
      PROVE  Goal
  BY <1>5, <1>a, <1>b, <1>c DEF Links!ClaimLink, VisitSound, LTyped, VisitRow
<1>6. ASSUME NEW v \in Visit, NEW owes \in BOOLEAN, Links!ResolveUser(v, owes)
      PROVE  Goal
  BY <1>6, <1>a, <1>b, <1>c DEF Links!ResolveUser, VisitSound, LTyped, VisitRow
<1>7. ASSUME NEW v \in Visit, Links!MarkVerified(v)
      PROVE  Goal
  BY <1>7, <1>a, <1>b, <1>c DEF Links!MarkVerified, VisitSound, LTyped, VisitRow
<1>8. ASSUME NEW v \in Visit, Links!CreateUser(v)
      PROVE  Goal
  <2>1. visit[v].pc = "create" /\ \E p : visit' = [visit EXCEPT ![v].pc = p]
    BY <1>8 DEF Links!CreateUser
  <2>2. /\ visit'[x].link = visit[x].link /\ visit'[x].by = visit[x].by
        /\ visit'[x].nonce = visit[x].nonce
        /\ visit[x].pc = "idle" => visit'[x].pc = "idle"
    BY <2>1, <1>a DEF LTyped, VisitRow
  <2> QED BY <2>2, <1>a, <1>b, <1>c DEF VisitSound
<1>9. ASSUME NEW v \in Visit, NEW owes \in BOOLEAN, Links!AddressTaken(v, owes)
      PROVE  Goal
  BY <1>9, <1>a, <1>b, <1>c DEF Links!AddressTaken, VisitSound, LTyped, VisitRow
<1>10. ASSUME NEW v \in Visit, NEW issued \in BOOLEAN, Links!CompleteSignIn(v, issued)
      PROVE  Goal
  BY <1>10, <1>a, <1>b, <1>c DEF Links!CompleteSignIn, Links!Release, VisitSound,
      LTyped, VisitRow
<1>11. ASSUME NEW v \in Visit, NEW stands \in BOOLEAN, Links!LookAtOwner(v, stands)
      PROVE  Goal
  BY <1>11, <1>a, <1>b, <1>c DEF Links!LookAtOwner, VisitSound, LTyped, VisitRow
<1>12. ASSUME Links!RemoveCounter
      PROVE  Goal
  BY <1>12, <1>a, <1>b, <1>c DEF Links!RemoveCounter, VisitSound, LTyped, VisitRow
<1>13. ASSUME Links!DeleteAccount
      PROVE  Goal
  BY <1>13, <1>a, <1>b, <1>c DEF Links!DeleteAccount, VisitSound, LTyped, VisitRow
<1>14. ASSUME Links!ReservedElsewhere
      PROVE  Goal
  BY <1>14, <1>a, <1>b, <1>c DEF Links!ReservedElsewhere, VisitSound, LTyped, VisitRow
<1>15. ASSUME Links!Tick
      PROVE  Goal
  BY <1>15, <1>a, <1>b, <1>c DEF Links!Tick, VisitSound, LTyped, VisitRow
<1>16. ASSUME NEW verified \in BOOLEAN, Links!CreatedElsewhere(verified)
      PROVE  Goal
  BY <1>16, <1>a, <1>b, <1>c DEF Links!CreatedElsewhere, VisitSound, LTyped, VisitRow
<1> QED
  BY <1>0, <1>1, <1>2, <1>3, <1>4, <1>5, <1>6, <1>7, <1>8, <1>9, <1>10, <1>11, <1>12,
      <1>13, <1>14, <1>15, <1>16 DEF Links!Next

LEMMA ClaimsStep ==
  ASSUME NEW x, Links!LinkAssumption, LInv, [Links!Next]_Links!vars, x \in Visit
  PROVE  ClaimSound(x)'
<1>a. LTyped /\ VisitSound(x) /\ ClaimSound(x)
  BY DEF LInv, VisitsSound
<1>c. \A k \in Link : link[k].delivered =>
        /\ link[k].spent => link'[k].spent
        /\ link'[k].by = link[k].by /\ link'[k].at = link[k].at
  BY MailedStays
<1>0. CASE UNCHANGED Links!vars
  BY <1>0, <1>a, <1>c DEF Links!vars, VisitSound, ClaimSound, LTyped, VisitRow,
      Links!Past, Links!ExpiresAt
<1> DEFINE Goal == ClaimSound(x)'
<1>1. ASSUME NEW l \in Link, NEW b \in Browser, Links!Request(l, b)
      PROVE  Goal
  BY <1>1, <1>a, <1>c DEF Links!Request, Links!Bind, VisitSound, ClaimSound, LTyped,
      VisitRow, Links!Past, Links!ExpiresAt
<1>2. ASSUME NEW l \in Link, NEW arrives \in BOOLEAN, Links!Store(l, arrives)
      PROVE  Goal
  BY <1>2, <1>a, <1>c DEF Links!Store, Links!TakeRequestSlot, VisitSound, ClaimSound,
      LTyped, VisitRow, Links!Past, Links!ExpiresAt
<1>3. ASSUME NEW v \in Visit, NEW l \in Link, NEW b \in Browser, NEW c \in BOOLEAN,
             Links!Verify(v, l, b, c)
      PROVE  Goal
  BY <1>3, <1>a, <1>c DEF Links!Verify, VisitSound, ClaimSound, LTyped, VisitRow,
      Links!Past, Links!ExpiresAt
<1>4. ASSUME NEW v \in Visit, Links!Look(v)
      PROVE  Goal
  <2>1. CASE x = v
    <3>1. /\ visit'[x].by = visit[x].by /\ visit'[x].link = visit[x].link
          /\ link' = link /\ visit[x].link \in Link
          /\ visit'[x].pc \in {"invalid", "confirm", "claim", "owner"}
      BY <1>4, <2>1, <1>a DEF Links!Look, LTyped, VisitRow, VisitSound
    <3>2. visit'[x].pc \in {"claim", "owner"} => Links!SameBrowser(x)
      <4> SUFFICES ASSUME ~Links!SameBrowser(x)
                   PROVE  visit'[x].pc \in {"invalid", "confirm"}
        OBVIOUS
      <4> DEFINE late == link[visit[v].link].spent
                           \/ Links!ExpiresAt(visit[v].link) <= visit[v].at
      <4>1. ~Links!SameBrowser(v)
        BY <2>1
      <4>2. visit' = [visit EXCEPT ![v].pc = IF late THEN "invalid" ELSE "confirm"]
        BY <1>4, <4>1 DEF Links!Look
      <4> HIDE DEF late
      <4> QED BY <2>1, <4>2, <1>a DEF LTyped, VisitRow
    <3>3. Links!SameBrowser(x) => link[visit[x].link].by = visit[x].by
      BY <1>4, <2>1, <1>a, <3>1
         DEF Links!Look, Links!SameBrowser, VisitSound, NonceOf, LInv, LinksSound,
           LinkSound
    <3> QED BY <3>1, <3>2, <3>3 DEF ClaimSound, Links!Past
  <2>2. CASE x # v
    BY <1>4, <2>2, <1>a, <1>c DEF Links!Look, VisitSound, ClaimSound, LTyped, VisitRow,
       Links!Past, Links!ExpiresAt
  <2> QED BY <2>1, <2>2
<1>5. ASSUME NEW v \in Visit, Links!ClaimLink(v)
      PROVE  Goal
  <2>1. CASE x = v
    <3>1. /\ visit'[x].by = visit[x].by /\ visit'[x].link = visit[x].link
          /\ visit'[x].confirm = visit[x].confirm /\ visit[x].pc = "claim"
          /\ visit'[x].pc \in {"invalid", "resolve"} /\ visit[x].link \in Link
      BY <1>5, <2>1, <1>a DEF Links!ClaimLink, LTyped, VisitRow, VisitSound
    <3>2. visit'[x].pc = "resolve" => link'[visit[x].link].spent
      BY <1>5, <2>1, <3>1, <1>a DEF Links!ClaimLink, LTyped, LinkRow, VisitRow
    <3>3. link'[visit[x].link].by = link[visit[x].link].by
      BY <1>5, <2>1, <3>1, <1>a DEF Links!ClaimLink, LTyped, LinkRow
    <3> QED BY <3>1, <3>2, <3>3, <1>a DEF ClaimSound, Links!Past
  <2>2. CASE x # v
    BY <1>5, <2>2, <1>a, <1>c
       DEF Links!ClaimLink, VisitSound, ClaimSound, LTyped, VisitRow,
       Links!Past, Links!ExpiresAt
  <2> QED BY <2>1, <2>2
<1>6. ASSUME NEW v \in Visit, NEW owes \in BOOLEAN, Links!ResolveUser(v, owes)
      PROVE  Goal
  BY <1>6, <1>a, <1>c DEF Links!ResolveUser, VisitSound, ClaimSound, LTyped, VisitRow,
      Links!Past, Links!ExpiresAt
<1>7. ASSUME NEW v \in Visit, Links!MarkVerified(v)
      PROVE  Goal
  BY <1>7, <1>a, <1>c DEF Links!MarkVerified, VisitSound, ClaimSound, LTyped, VisitRow,
      Links!Past, Links!ExpiresAt
<1>8. ASSUME NEW v \in Visit, Links!CreateUser(v)
      PROVE  Goal
  BY <1>8, <1>a, <1>c DEF Links!CreateUser, VisitSound, ClaimSound, LTyped, VisitRow,
      Links!Past, Links!ExpiresAt
<1>9. ASSUME NEW v \in Visit, NEW owes \in BOOLEAN, Links!AddressTaken(v, owes)
      PROVE  Goal
  BY <1>9, <1>a, <1>c DEF Links!AddressTaken, VisitSound, ClaimSound, LTyped, VisitRow,
      Links!Past, Links!ExpiresAt
<1>10. ASSUME NEW v \in Visit, NEW issued \in BOOLEAN, Links!CompleteSignIn(v, issued)
      PROVE  Goal
  BY <1>10, <1>a, <1>c DEF Links!CompleteSignIn, Links!Release, VisitSound,
      ClaimSound, LTyped, VisitRow, Links!Past, Links!ExpiresAt
<1>11. ASSUME NEW v \in Visit, NEW stands \in BOOLEAN, Links!LookAtOwner(v, stands)
      PROVE  Goal
  BY <1>11, <1>a, <1>c DEF Links!LookAtOwner, VisitSound, ClaimSound, LTyped, VisitRow,
      Links!Past, Links!ExpiresAt
<1>12. ASSUME Links!RemoveCounter
      PROVE  Goal
  BY <1>12, <1>a, <1>c DEF Links!RemoveCounter, VisitSound, ClaimSound, LTyped,
      VisitRow, Links!Past, Links!ExpiresAt
<1>13. ASSUME Links!DeleteAccount
      PROVE  Goal
  BY <1>13, <1>a, <1>c DEF Links!DeleteAccount, VisitSound, ClaimSound, LTyped,
      VisitRow, Links!Past, Links!ExpiresAt
<1>14. ASSUME Links!ReservedElsewhere
      PROVE  Goal
  BY <1>14, <1>a, <1>c DEF Links!ReservedElsewhere, VisitSound, ClaimSound, LTyped,
      VisitRow, Links!Past, Links!ExpiresAt
<1>15. ASSUME Links!Tick
      PROVE  Goal
  BY <1>15, <1>a, <1>c DEF Links!Tick, VisitSound, ClaimSound, LTyped, VisitRow,
      Links!Past, Links!ExpiresAt
<1>16. ASSUME NEW verified \in BOOLEAN, Links!CreatedElsewhere(verified)
      PROVE  Goal
  BY <1>16, <1>a, <1>c DEF Links!CreatedElsewhere, VisitSound, ClaimSound, LTyped,
      VisitRow, Links!Past, Links!ExpiresAt
<1> QED
  BY <1>0, <1>1, <1>2, <1>3, <1>4, <1>5, <1>6, <1>7, <1>8, <1>9, <1>10, <1>11, <1>12,
      <1>13, <1>14, <1>15, <1>16 DEF Links!Next

LEMMA AccountsStep ==
  ASSUME NEW x, Links!LinkAssumption, LInv, [Links!Next]_Links!vars, x \in Visit
  PROVE  AccountSound(x)'
<1>a. LTyped /\ AccountSound(x) /\ Barred
  BY DEF LInv, VisitsSound
<1>0. CASE UNCHANGED Links!vars
  BY <1>0, <1>a DEF Links!vars, AccountSound, Barred, LTyped, VisitRow
<1> DEFINE Goal == AccountSound(x)'
<1>1. ASSUME NEW l \in Link, NEW b \in Browser, Links!Request(l, b)
      PROVE  Goal
  BY <1>1, <1>a DEF Links!Request, Links!Bind, AccountSound, Barred, LTyped, VisitRow
<1>2. ASSUME NEW l \in Link, NEW arrives \in BOOLEAN, Links!Store(l, arrives)
      PROVE  Goal
  BY <1>2, <1>a DEF Links!Store, Links!TakeRequestSlot, AccountSound, Barred, LTyped,
      VisitRow
<1>3. ASSUME NEW v \in Visit, NEW l \in Link, NEW b \in Browser, NEW c \in BOOLEAN,
             Links!Verify(v, l, b, c)
      PROVE  Goal
  BY <1>3, <1>a DEF Links!Verify, AccountSound, Barred, LTyped, VisitRow
<1>4. ASSUME NEW v \in Visit, Links!Look(v)
      PROVE  Goal
  BY <1>4, <1>a DEF Links!Look, Links!SameBrowser, AccountSound, Barred, LTyped,
      VisitRow
<1>5. ASSUME NEW v \in Visit, Links!ClaimLink(v)
      PROVE  Goal
  BY <1>5, <1>a DEF Links!ClaimLink, AccountSound, Barred, LTyped, VisitRow
<1>6. ASSUME NEW v \in Visit, NEW owes \in BOOLEAN, Links!ResolveUser(v, owes)
      PROVE  Goal
  BY <1>6, <1>a DEF Links!ResolveUser, AccountSound, Barred, LTyped, VisitRow
<1>7. ASSUME NEW v \in Visit, Links!MarkVerified(v)
      PROVE  Goal
  BY <1>7, <1>a DEF Links!MarkVerified, AccountSound, Barred, LTyped, VisitRow
<1>8. ASSUME NEW v \in Visit, Links!CreateUser(v)
      PROVE  Goal
  BY <1>8, <1>a DEF Links!CreateUser, AccountSound, Barred, LTyped, VisitRow
<1>9. ASSUME NEW v \in Visit, NEW owes \in BOOLEAN, Links!AddressTaken(v, owes)
      PROVE  Goal
  <2>1. CASE x = v
    <3>1. account.st \in {"none", "live", "deleted"}
      BY <1>a DEF LTyped
    <3>2. /\ UNCHANGED <<account, barred>> /\ visit[x].pc = "taken"
          /\ visit'[x].pc \in {"refused", "complete", "verify"}
          /\ (visit'[x].pc = "refused") <=> (account.st # "live")
      BY <1>9, <2>1, <1>a DEF Links!AddressTaken, LTyped, VisitRow
    <3>3. account.st # "live" => barred
      BY <3>1, <3>2, <1>a DEF AccountSound, Barred
    <3> QED BY <3>2, <3>3, <1>a DEF AccountSound
  <2>2. CASE x # v
    BY <1>9, <2>2, <1>a DEF Links!AddressTaken, AccountSound, LTyped
  <2> QED BY <2>1, <2>2
<1>10. ASSUME NEW v \in Visit, NEW issued \in BOOLEAN, Links!CompleteSignIn(v, issued)
      PROVE  Goal
  BY <1>10, <1>a DEF Links!CompleteSignIn, Links!Release, AccountSound, Barred,
      LTyped, VisitRow
<1>11. ASSUME NEW v \in Visit, NEW stands \in BOOLEAN, Links!LookAtOwner(v, stands)
      PROVE  Goal
  BY <1>11, <1>a DEF Links!LookAtOwner, AccountSound, Barred, LTyped, VisitRow
<1>12. ASSUME Links!RemoveCounter
      PROVE  Goal
  BY <1>12, <1>a DEF Links!RemoveCounter, AccountSound, Barred, LTyped, VisitRow
<1>13. ASSUME Links!DeleteAccount
      PROVE  Goal
  BY <1>13, <1>a DEF Links!DeleteAccount, AccountSound, Barred, LTyped, VisitRow
<1>14. ASSUME Links!ReservedElsewhere
      PROVE  Goal
  BY <1>14, <1>a DEF Links!ReservedElsewhere, AccountSound, Barred, LTyped, VisitRow
<1>15. ASSUME Links!Tick
      PROVE  Goal
  BY <1>15, <1>a DEF Links!Tick, AccountSound, Barred, LTyped, VisitRow
<1>16. ASSUME NEW verified \in BOOLEAN, Links!CreatedElsewhere(verified)
      PROVE  Goal
  BY <1>16, <1>a DEF Links!CreatedElsewhere, AccountSound, Barred, LTyped, VisitRow
<1> QED
  BY <1>0, <1>1, <1>2, <1>3, <1>4, <1>5, <1>6, <1>7, <1>8, <1>9, <1>10, <1>11, <1>12,
      <1>13, <1>14, <1>15, <1>16 DEF Links!Next

LEMMA BarredStep ==
  ASSUME Links!LinkAssumption, LInv, [Links!Next]_Links!vars
  PROVE  Barred'
<1>a. LTyped /\ Barred
  BY DEF LInv
<1>0. CASE UNCHANGED Links!vars
  BY <1>0, <1>a DEF Links!vars, Barred, LTyped
<1>1. ASSUME NEW l \in Link, NEW b \in Browser, Links!Request(l, b)
      PROVE  Barred'
  BY <1>1, <1>a DEF Links!Request, Links!Bind, Barred, LTyped
<1>2. ASSUME NEW l \in Link, NEW arrives \in BOOLEAN, Links!Store(l, arrives)
      PROVE  Barred'
  BY <1>2, <1>a DEF Links!Store, Links!TakeRequestSlot, Barred, LTyped
<1>3. ASSUME NEW v \in Visit, NEW l \in Link, NEW b \in Browser, NEW c \in BOOLEAN,
             Links!Verify(v, l, b, c)
      PROVE  Barred'
  BY <1>3, <1>a DEF Links!Verify, Barred, LTyped
<1>4. ASSUME NEW v \in Visit, Links!Look(v)
      PROVE  Barred'
  BY <1>4, <1>a DEF Links!Look, Links!SameBrowser, Barred, LTyped
<1>5. ASSUME NEW v \in Visit, Links!ClaimLink(v)
      PROVE  Barred'
  BY <1>5, <1>a DEF Links!ClaimLink, Barred, LTyped
<1>6. ASSUME NEW v \in Visit, NEW owes \in BOOLEAN, Links!ResolveUser(v, owes)
      PROVE  Barred'
  BY <1>6, <1>a DEF Links!ResolveUser, Barred, LTyped
<1>7. ASSUME NEW v \in Visit, Links!MarkVerified(v)
      PROVE  Barred'
  BY <1>7, <1>a DEF Links!MarkVerified, Barred, LTyped
<1>8. ASSUME NEW v \in Visit, Links!CreateUser(v)
      PROVE  Barred'
  BY <1>8, <1>a DEF Links!CreateUser, Barred, LTyped
<1>9. ASSUME NEW v \in Visit, NEW owes \in BOOLEAN, Links!AddressTaken(v, owes)
      PROVE  Barred'
  BY <1>9, <1>a DEF Links!AddressTaken, Barred, LTyped
<1>10. ASSUME NEW v \in Visit, NEW issued \in BOOLEAN, Links!CompleteSignIn(v, issued)
      PROVE  Barred'
  BY <1>10, <1>a DEF Links!CompleteSignIn, Links!Release, Barred, LTyped
<1>11. ASSUME NEW v \in Visit, NEW stands \in BOOLEAN, Links!LookAtOwner(v, stands)
      PROVE  Barred'
  BY <1>11, <1>a DEF Links!LookAtOwner, Barred, LTyped
<1>12. ASSUME Links!RemoveCounter
      PROVE  Barred'
  BY <1>12, <1>a DEF Links!RemoveCounter, Barred, LTyped
<1>13. ASSUME Links!DeleteAccount
      PROVE  Barred'
  BY <1>13, <1>a DEF Links!DeleteAccount, Barred, LTyped
<1>14. ASSUME Links!ReservedElsewhere
      PROVE  Barred'
  BY <1>14, <1>a DEF Links!ReservedElsewhere, Barred, LTyped
<1>15. ASSUME Links!Tick
      PROVE  Barred'
  BY <1>15, <1>a DEF Links!Tick, Barred, LTyped
<1>16. ASSUME NEW verified \in BOOLEAN, Links!CreatedElsewhere(verified)
      PROVE  Barred'
  BY <1>16, <1>a DEF Links!CreatedElsewhere, Barred, LTyped
<1> QED
  BY <1>0, <1>1, <1>2, <1>3, <1>4, <1>5, <1>6, <1>7, <1>8, <1>9, <1>10, <1>11, <1>12,
      <1>13, <1>14, <1>15, <1>16 DEF Links!Next

LEMMA OneSignInStep ==
  ASSUME Links!LinkAssumption, LInv, [Links!Next]_Links!vars
  PROVE  Links!OneSignInPerLink'
<1>a. LTyped /\ Links!OneSignInPerLink
  BY DEF LInv
<1>0. CASE UNCHANGED Links!vars
  BY <1>0, <1>a DEF Links!vars, Links!OneSignInPerLink, Links!InUse, Links!Past, LTyped,
      VisitRow
<1> DEFINE Goal == Links!OneSignInPerLink'
<1>1. ASSUME NEW l \in Link, NEW b \in Browser, Links!Request(l, b)
      PROVE  Goal
  BY <1>1, <1>a DEF Links!Request, Links!Bind, Links!OneSignInPerLink, Links!InUse,
      Links!Past, LTyped, VisitRow
<1>2. ASSUME NEW l \in Link, NEW arrives \in BOOLEAN, Links!Store(l, arrives)
      PROVE  Goal
  BY <1>2, <1>a DEF Links!Store, Links!TakeRequestSlot, Links!OneSignInPerLink,
      Links!InUse, Links!Past, LTyped, VisitRow
<1>3. ASSUME NEW v \in Visit, NEW l \in Link, NEW b \in Browser, NEW c \in BOOLEAN,
             Links!Verify(v, l, b, c)
      PROVE  Goal
  BY <1>3, <1>a DEF Links!Verify, Links!OneSignInPerLink, Links!InUse, Links!Past,
      LTyped, VisitRow
<1>4. ASSUME NEW v \in Visit, Links!Look(v)
      PROVE  Goal
  BY <1>4, <1>a DEF Links!Look, Links!SameBrowser, Links!OneSignInPerLink, Links!InUse,
      Links!Past, LTyped, VisitRow
<1>5. ASSUME NEW v \in Visit, Links!ClaimLink(v)
      PROVE  Goal
  <2> SUFFICES ASSUME NEW x \in Visit, NEW y \in Visit, visit'[x].pc \in Links!Past,
                      visit'[y].pc \in Links!Past, visit'[x].link = visit'[y].link
               PROVE  x = y
    BY DEF Links!OneSignInPerLink, Links!InUse
  <2>1. \A z \in Visit : visit'[z].link = visit[z].link
    BY <1>5, <1>a DEF Links!ClaimLink, LTyped, VisitRow
  <2>2. \A z \in Visit : visit'[z].pc \in Links!Past =>
          visit[z].pc \in Links!Past \/ (z = v /\ ~link[visit[v].link].spent)
    BY <1>5, <1>a DEF Links!ClaimLink, LTyped, VisitRow, Links!Past
  <2>3. \A z \in Visit : visit[z].pc \in Links!Past => link[visit[z].link].spent
    BY DEF LInv, VisitsSound, ClaimSound
  <2> QED BY <2>1, <2>2, <2>3, <1>a DEF Links!OneSignInPerLink, Links!InUse
<1>6. ASSUME NEW v \in Visit, NEW owes \in BOOLEAN, Links!ResolveUser(v, owes)
      PROVE  Goal
  BY <1>6, <1>a DEF Links!ResolveUser, Links!OneSignInPerLink, Links!InUse, Links!Past,
      LTyped, VisitRow
<1>7. ASSUME NEW v \in Visit, Links!MarkVerified(v)
      PROVE  Goal
  BY <1>7, <1>a DEF Links!MarkVerified, Links!OneSignInPerLink, Links!InUse, Links!Past,
      LTyped, VisitRow
<1>8. ASSUME NEW v \in Visit, Links!CreateUser(v)
      PROVE  Goal
  BY <1>8, <1>a DEF Links!CreateUser, Links!OneSignInPerLink, Links!InUse, Links!Past,
      LTyped, VisitRow
<1>9. ASSUME NEW v \in Visit, NEW owes \in BOOLEAN, Links!AddressTaken(v, owes)
      PROVE  Goal
  BY <1>9, <1>a DEF Links!AddressTaken, Links!OneSignInPerLink, Links!InUse, Links!Past,
      LTyped, VisitRow
<1>10. ASSUME NEW v \in Visit, NEW issued \in BOOLEAN, Links!CompleteSignIn(v, issued)
      PROVE  Goal
  <2> SUFFICES ASSUME NEW x \in Visit, NEW y \in Visit, visit'[x].pc \in Links!Past,
                      visit'[y].pc \in Links!Past, visit'[x].link = visit'[y].link
               PROVE  x = y
    BY DEF Links!OneSignInPerLink, Links!InUse
  <2>1. visit[v].pc = "complete" /\ \E p : visit' = [visit EXCEPT ![v].pc = p]
    BY <1>10 DEF Links!CompleteSignIn
  <2>2. visit[v].pc \in Links!Past
    BY <2>1 DEF Links!Past
  <2>3. \A z \in Visit : visit'[z].link = visit[z].link
    BY <2>1, <1>a DEF LTyped, VisitRow
  <2>4. \A z \in Visit : visit'[z].pc \in Links!Past => visit[z].pc \in Links!Past
    BY <2>1, <2>2, <1>a DEF LTyped, VisitRow
  <2> QED BY <2>3, <2>4, <1>a DEF Links!OneSignInPerLink, Links!InUse
<1>11. ASSUME NEW v \in Visit, NEW stands \in BOOLEAN, Links!LookAtOwner(v, stands)
      PROVE  Goal
  BY <1>11, <1>a DEF Links!LookAtOwner, Links!OneSignInPerLink, Links!InUse, Links!Past,
      LTyped, VisitRow
<1>12. ASSUME Links!RemoveCounter
      PROVE  Goal
  BY <1>12, <1>a DEF Links!RemoveCounter, Links!OneSignInPerLink, Links!InUse,
      Links!Past, LTyped, VisitRow
<1>13. ASSUME Links!DeleteAccount
      PROVE  Goal
  BY <1>13, <1>a DEF Links!DeleteAccount, Links!OneSignInPerLink, Links!InUse,
      Links!Past, LTyped, VisitRow
<1>14. ASSUME Links!ReservedElsewhere
      PROVE  Goal
  BY <1>14, <1>a DEF Links!ReservedElsewhere, Links!OneSignInPerLink, Links!InUse,
      Links!Past, LTyped, VisitRow
<1>15. ASSUME Links!Tick
      PROVE  Goal
  BY <1>15, <1>a DEF Links!Tick, Links!OneSignInPerLink, Links!InUse, Links!Past,
      LTyped, VisitRow
<1>16. ASSUME NEW verified \in BOOLEAN, Links!CreatedElsewhere(verified)
      PROVE  Goal
  BY <1>16, <1>a DEF Links!CreatedElsewhere, Links!OneSignInPerLink, Links!InUse,
      Links!Past, LTyped, VisitRow
<1> QED
  BY <1>0, <1>1, <1>2, <1>3, <1>4, <1>5, <1>6, <1>7, <1>8, <1>9, <1>10, <1>11, <1>12,
      <1>13, <1>14, <1>15, <1>16 DEF Links!Next

LEMMA LInit ==
  ASSUME Links!LinkAssumption, Links!Init
  PROVE  LInv
<1> USE DEF Links!Init, Links!NoLink, Links!NoVisit, Links!LinkAssumption
<1>1. LTyped
  <2>1. 0 \in 0..MaxTime
    OBVIOUS
  <2>2. Links!NoLink \in LinkRow /\ Links!NoVisit \in VisitRow
    BY <2>1 DEF LinkRow, VisitRow, Links!Past
  <2>3. counter \in [st : {"none", "open"}, n : Nat, started : 0..MaxTime]
    BY <2>1
  <2>4. account \in [st : {"none", "live", "deleted"}, verified : BOOLEAN]
    <3>1. /\ [st |-> "none", verified |-> FALSE]
               \in [st : {"none", "live", "deleted"}, verified : BOOLEAN]
          /\ [st |-> "live", verified |-> FALSE]
               \in [st : {"none", "live", "deleted"}, verified : BOOLEAN]
      OBVIOUS
    <3>2. \/ account = [st |-> "none", verified |-> FALSE]
          \/ account = [st |-> "live", verified |-> FALSE]
      OBVIOUS
    <3> QED BY <3>1, <3>2
  <2>5. link \in [Link -> LinkRow] /\ visit \in [Visit -> VisitRow]
    BY <2>2
  <2> QED BY <2>1, <2>3, <2>4, <2>5 DEF LTyped
<1>2. LinksSound /\ CookiesSound /\ VisitsSound /\ Barred
  BY DEF LinksSound, LinkSound, CookiesSound, CookieSound, VisitsSound, VisitSound,
         ClaimSound, AccountSound, Barred, Links!Past
<1>3. Links!OneSignInPerLink
  BY DEF Links!OneSignInPerLink, Links!InUse, Links!Past
<1> QED BY <1>1, <1>2, <1>3 DEF LInv

LEMMA LStep ==
  ASSUME Links!LinkAssumption, LInv, [Links!Next]_Links!vars
  PROVE  LInv'
<1>1. LTyped'
  BY LinkTypedStep, VisitTypedStep, OthersTypedStep, CounterTypedStep DEF LTyped
<1>2. LinksSound' /\ CookiesSound'
  BY LinksStep, CookiesStep DEF LinksSound, CookiesSound
<1>3. VisitsSound'
  BY VisitsStep, ClaimsStep, AccountsStep DEF VisitsSound
<1> QED BY <1>1, <1>2, <1>3, BarredStep, OneSignInStep DEF LInv

(* MagicLinkService: a link signs in once, in time, and without a          *)
(* confirmation only where it was asked for; and it is turned away before  *)
(* the issuance of a session only if the account was deleted or somebody   *)
(* reserved the address.  Issuance itself may refuse it.                   *)
THEOREM LinkSafe ==
  ASSUME Links!LinkAssumption
  PROVE  Links!Spec => [](Links!LinkSignsInOnce /\ LinkSignsInOnce)
<1>1. Links!Init => LInv
  BY LInit
<1>2. LInv /\ [Links!Next]_Links!vars => LInv'
  BY LStep
<1>3. LInv => Links!LinkSignsInOnce /\ LinkSignsInOnce
  <2>1. LInv => Links!TypeOK
    BY DEF LInv, LTyped, VisitRow, VisitsSound, ClaimSound, Links!TypeOK, Links!InUse,
           Links!Past
  <2>2. LInv => Links!OnlyWhereAsked /\ Links!NotAfterExpiry /\ Links!ReachesTheAccount
    BY
       DEF LInv, VisitsSound, ClaimSound, AccountSound, Links!InUse,
           Links!OnlyWhereAsked,
           Links!NotAfterExpiry, Links!ReachesTheAccount
  <2> QED BY <2>1, <2>2 DEF LInv, Links!LinkSignsInOnce, LinkSignsInOnce
<1> QED BY <1>1, <1>2, <1>3, PTL DEF Links!Spec

(***************************************************************************)
(* Addresses (AddressClaims).                                              *)
(***************************************************************************)

AccountRow ==
  [live : BOOLEAN, email : Addr \cup {None}, pending : Addr \cup {None}, gen : Nat]
ClaimRow == [owner : User \cup Work \cup {None}, lapses : Nat]
CodeRow == [code : Work \cup {"first", None}, user : User \cup {None}, gen : Nat, exp :
  Nat]
UnitRow ==
  [kind : {"none", "create", "save", "send", "confirm"},
   pc : {"idle", "claim", "accounts", "user", "write", "consume", "holds", "done",
         "taken", "refused", "aborted", "conflict"},
   user : User \cup {None}, addr : Addr \cup {None}, email : Addr \cup {None},
   gen : Nat, code : Work \cup {"first", None}, at : Nat, exp : Nat]

CTyped ==
  /\ now \in 0..MaxTime
  /\ acct \in [User \cup Work -> AccountRow]
  /\ claim \in [Addr -> ClaimRow]
  /\ rec \in [Addr -> CodeRow]
  /\ work \in [Work -> UnitRow]
  /\ held \in [Work -> SUBSET ({"claim", "user", "code"} \X (Addr \cup User))]

OnWay == {"claim", "accounts", "user", "write", "consume", "holds"}

(* What a unit of work names while it is on its way ...                    *)
UnitSound(w) == LET x == work[w] IN
  /\ x.pc = "idle" <=> x.kind = "none"
  /\ x.pc \in OnWay =>
       /\ x.addr \in Addr
       /\ x.kind # "create" => x.user \in User
       /\ x.kind = "create" => x.pc \in {"claim", "accounts", "write"}
       /\ x.kind \in {"save", "send"} => x.pc \in {"user", "claim", "accounts", "write"}
       /\ x.kind = "confirm" => x.pc \in {"consume", "user", "holds", "write"}
  /\ x.at <= now
  /\ ~(x.kind = "create" /\ x.pc = "done") => acct[w].email = None
  /\ x.pc # "conflict"

(* ... and which locks it holds.                                           *)
LocksSound(w) == LET x == work[w] IN
  /\ x.pc \notin OnWay => held[w] = {}
  /\ \A l \in held[w] : ~Claims!HeldByOther(w, l)
  /\ x.kind \in {"save", "send"} /\ x.pc \in {"claim", "accounts", "write"}
       => <<"user", x.user>> \in held[w]
  /\ x.kind = "confirm" /\ x.pc \in {"holds", "write"} => <<"user", x.user>> \in held[w]
  /\ x.kind # "confirm" /\ x.pc \in {"accounts", "write"}
       => <<"claim", x.addr>> \in held[w]
  /\ x.kind = "confirm" /\ x.pc = "write" => <<"claim", x.addr>> \in held[w]

(* What a unit of work found under its locks still stands.                 *)
FoundSound(w) == LET x == work[w]
                     c == claim[x.addr] IN
  /\ <<"user", x.user>> \in held[w] =>
       /\ acct[x.user].live /\ acct[x.user].gen = x.gen
       /\ x.kind \in {"send", "confirm"} => acct[x.user].pending = x.addr
  /\ x.kind # "confirm" /\ x.pc \in {"accounts", "write"} =>
       c.owner \in {None, Claims!Owner(w)} \/ c.lapses <= x.at
  /\ x.kind # "confirm" /\ x.pc = "write" =>
       Claims!OnAddress(x.addr) \subseteq {Claims!Owner(w)}
  /\ x.kind = "confirm" /\ x.pc = "write" => c.owner = x.user

UnitsSound == \A w \in Work : UnitSound(w)
UnitLocks == \A w \in Work : LocksSound(w)
UnitsFound == \A w \in Work : FoundSound(w)

(* A claim keeps the accounts of others off its address.                   *)
ClaimKeepsOff(a) == claim[a].owner # None
  => Claims!OnAddress(a) \subseteq {claim[a].owner}

(* The claim of a user is on the address it waits for, or has lapsed.      *)
ClaimIsPending(a) ==
  claim[a].owner \in User /\ acct[claim[a].owner].pending # a => claim[a].lapses <= now

(* A code is of a user and of no later generation.                         *)
CodeOfUser(a) ==
  rec[a].code # None => rec[a].user \in User /\ rec[a].gen <= acct[rec[a].user].gen

CodeClaimed(a) ==
  (/\ rec[a].code # None /\ rec[a].exp > now
   /\ acct[rec[a].user].live /\ acct[rec[a].user].gen = rec[a].gen
   /\ acct[rec[a].user].pending = a)
    => claim[a].owner = rec[a].user /\ claim[a].lapses >= rec[a].exp

ClaimsSound == \A a \in Addr : ClaimKeepsOff(a) /\ ClaimIsPending(a)
CodesClaimed == \A a \in Addr : CodeOfUser(a) /\ CodeClaimed(a)

CInv == CTyped /\ UnitsSound /\ UnitLocks /\ UnitsFound /\ ClaimsSound /\ CodesClaimed

USE DEF Claims!Goto, Claims!GotoNow, Claims!Take, Claims!Rollback, Claims!Commit

LEMMA UnitTypedStep ==
  ASSUME Claims!ClaimsAssumption, CInv, [Claims!Next]_Claims!vars
  PROVE  work' \in [Work -> UnitRow]
<1>a. CTyped
  BY DEF CInv
<1>0. CASE UNCHANGED Claims!vars
  BY <1>0, <1>a DEF Claims!vars, CTyped, UnitRow
<1> DEFINE Goal == work' \in [Work -> UnitRow]
<1>1. ASSUME NEW w \in Work, Claims!Claim(w)
      PROVE  Goal
  BY <1>1, <1>a DEF Claims!Claim, CTyped, UnitRow
<1>2. ASSUME NEW w \in Work, Claims!ClaimAccounts(w)
      PROVE  Goal
  BY <1>2, <1>a DEF Claims!ClaimAccounts, CTyped, UnitRow
<1>3. ASSUME NEW w \in Work, Claims!TakeUser(w)
      PROVE  Goal
  BY <1>3, <1>a DEF Claims!TakeUser, CTyped, UnitRow
<1>4. ASSUME NEW w \in Work, Claims!InsertAccount(w)
      PROVE  Goal
  BY <1>4, <1>a DEF Claims!InsertAccount, CTyped, UnitRow
<1>5. ASSUME NEW w \in Work, Claims!SaveIdentity(w)
      PROVE  Goal
  BY <1>5, <1>a DEF Claims!SaveIdentity, CTyped, UnitRow
<1>6. ASSUME NEW w \in Work, Claims!PutCode(w)
      PROVE  Goal
  BY <1>6, <1>a DEF Claims!PutCode, CTyped, UnitRow
<1>7. ASSUME NEW w \in Work, Claims!ConsumeCode(w)
      PROVE  Goal
  BY <1>7, <1>a DEF Claims!ConsumeCode, CTyped, UnitRow
<1>8. ASSUME NEW w \in Work, Claims!HoldsLiveClaim(w)
      PROVE  Goal
  BY <1>8, <1>a DEF Claims!HoldsLiveClaim, CTyped, UnitRow
<1>9. ASSUME NEW w \in Work, Claims!ConfirmAddress(w)
      PROVE  Goal
  BY <1>9, <1>a DEF Claims!ConfirmAddress, CTyped, UnitRow
<1>10. ASSUME NEW w \in Work, Claims!Abort(w)
      PROVE  Goal
  BY <1>10, <1>a DEF Claims!Abort, CTyped, UnitRow
<1>11. ASSUME NEW w \in Work, NEW a \in Addr, Claims!CreateAccount(w, a)
      PROVE  Goal
  <2> DEFINE x ==
       [Claims!NoWork EXCEPT !.kind = "create", !.pc = "claim", !.addr = a, !.at = now]
  <2>0. now \in Nat /\ now + ExpiresIn \in Nat
    BY <1>a DEF CTyped, Claims!ClaimsAssumption
  <2>1. x \in UnitRow
    BY <1>a, <2>0
       DEF CTyped, UnitRow, AccountRow, CodeRow, Claims!NoWork, Claims!ClaimsAssumption
  <2>2. work' = [work EXCEPT ![w] = x]
    BY <1>11 DEF Claims!CreateAccount
  <2> HIDE DEF x
  <2> QED BY <2>1, <2>2, <1>a DEF CTyped
<1>12. ASSUME NEW w \in Work, NEW a \in Addr, Claims!Confirm(w, a)
      PROVE  Goal
  <2> DEFINE x ==
       [Claims!NoWork EXCEPT !.kind = "confirm", !.pc = "consume", !.addr = a,
                        !.user = rec[a].user, !.gen = rec[a].gen, !.code = rec[a].code]
  <2>0. now \in Nat /\ now + ExpiresIn \in Nat
    BY <1>a DEF CTyped, Claims!ClaimsAssumption
  <2>1. x \in UnitRow
    BY <1>a, <2>0
       DEF CTyped, UnitRow, AccountRow, CodeRow, Claims!NoWork, Claims!ClaimsAssumption
  <2>2. work' = [work EXCEPT ![w] = x]
    BY <1>12 DEF Claims!Confirm
  <2> HIDE DEF x
  <2> QED BY <2>1, <2>2, <1>a DEF CTyped
<1>13. ASSUME NEW w \in Work, NEW u \in User, NEW a \in Addr, Claims!UpdateUser(w, u, a)
      PROVE  Goal
  <2> DEFINE x ==
       [Claims!NoWork EXCEPT !.kind = "save", !.pc = "user", !.user = u, !.addr = a,
                        !.email = acct[u].email, !.gen = acct[u].gen]
  <2>0. now \in Nat /\ now + ExpiresIn \in Nat
    BY <1>a DEF CTyped, Claims!ClaimsAssumption
  <2>1. x \in UnitRow
    BY <1>a, <2>0
       DEF CTyped, UnitRow, AccountRow, CodeRow, Claims!NoWork, Claims!ClaimsAssumption
  <2>2. work' = [work EXCEPT ![w] = x]
    BY <1>13 DEF Claims!UpdateUser
  <2> HIDE DEF x
  <2> QED BY <2>1, <2>2, <1>a DEF CTyped
<1>14. ASSUME NEW w \in Work, NEW u \in User, Claims!SendConfirmation(w, u)
      PROVE  Goal
  <2> DEFINE x == [Claims!NoWork EXCEPT !.kind = "send", !.pc = "user", !.user = u,
                        !.addr = acct[u].pending, !.gen = acct[u].gen,
                          !.exp = now + ExpiresIn]
  <2>0. now \in Nat /\ now + ExpiresIn \in Nat
    BY <1>a DEF CTyped, Claims!ClaimsAssumption
  <2>1. x \in UnitRow
    BY <1>a, <2>0
       DEF CTyped, UnitRow, AccountRow, CodeRow, Claims!NoWork, Claims!ClaimsAssumption
  <2>2. work' = [work EXCEPT ![w] = x]
    BY <1>14 DEF Claims!SendConfirmation
  <2> HIDE DEF x
  <2> QED BY <2>1, <2>2, <1>a DEF CTyped
<1>15. ASSUME NEW u \in User, Claims!Deactivate(u)
      PROVE  Goal
  BY <1>15, <1>a DEF Claims!Deactivate, CTyped, UnitRow
<1>16. ASSUME Claims!Tick
      PROVE  Goal
  BY <1>16, <1>a DEF Claims!Tick, CTyped, UnitRow
<1> QED
  BY <1>0, <1>1, <1>2, <1>3, <1>4, <1>5, <1>6, <1>7, <1>8, <1>9, <1>10, <1>11, <1>12,
      <1>13, <1>14, <1>15, <1>16 DEF Claims!Next

LEMMA HeldTypedStep ==
  ASSUME Claims!ClaimsAssumption, CInv, [Claims!Next]_Claims!vars
  PROVE  held' \in [Work -> SUBSET ({"claim", "user", "code"} \X (Addr \cup User))]
<1>a. CTyped /\ \A w \in Work : UnitSound(w)
  BY DEF CInv, UnitsSound
<1>0. CASE UNCHANGED Claims!vars
  BY <1>0, <1>a DEF Claims!vars, CTyped, UnitSound, OnWay
<1> DEFINE Goal ==
         held' \in [Work -> SUBSET ({"claim", "user", "code"} \X (Addr \cup User))]
<1>1. ASSUME NEW w \in Work, Claims!Claim(w)
      PROVE  Goal
  BY <1>1, <1>a DEF Claims!Claim, CTyped, UnitSound, OnWay
<1>2. ASSUME NEW w \in Work, Claims!ClaimAccounts(w)
      PROVE  Goal
  BY <1>2, <1>a DEF Claims!ClaimAccounts, CTyped, UnitSound, OnWay
<1>3. ASSUME NEW w \in Work, Claims!TakeUser(w)
      PROVE  Goal
  BY <1>3, <1>a DEF Claims!TakeUser, CTyped, UnitSound, OnWay
<1>4. ASSUME NEW w \in Work, Claims!InsertAccount(w)
      PROVE  Goal
  BY <1>4, <1>a DEF Claims!InsertAccount, CTyped, UnitSound, OnWay
<1>5. ASSUME NEW w \in Work, Claims!SaveIdentity(w)
      PROVE  Goal
  BY <1>5, <1>a DEF Claims!SaveIdentity, CTyped, UnitSound, OnWay
<1>6. ASSUME NEW w \in Work, Claims!PutCode(w)
      PROVE  Goal
  BY <1>6, <1>a DEF Claims!PutCode, CTyped, UnitSound, OnWay
<1>7. ASSUME NEW w \in Work, Claims!ConsumeCode(w)
      PROVE  Goal
  BY <1>7, <1>a DEF Claims!ConsumeCode, CTyped, UnitSound, OnWay
<1>8. ASSUME NEW w \in Work, Claims!HoldsLiveClaim(w)
      PROVE  Goal
  BY <1>8, <1>a DEF Claims!HoldsLiveClaim, CTyped, UnitSound, OnWay
<1>9. ASSUME NEW w \in Work, Claims!ConfirmAddress(w)
      PROVE  Goal
  BY <1>9, <1>a DEF Claims!ConfirmAddress, CTyped, UnitSound, OnWay
<1>10. ASSUME NEW w \in Work, Claims!Abort(w)
      PROVE  Goal
  BY <1>10, <1>a DEF Claims!Abort, CTyped, UnitSound, OnWay
<1>11. ASSUME NEW w \in Work, NEW a \in Addr, Claims!CreateAccount(w, a)
      PROVE  Goal
  BY <1>11, <1>a DEF Claims!CreateAccount, CTyped, UnitSound, OnWay
<1>12. ASSUME NEW w \in Work, NEW a \in Addr, Claims!Confirm(w, a)
      PROVE  Goal
  BY <1>12, <1>a DEF Claims!Confirm, CTyped, UnitSound, OnWay
<1>13. ASSUME NEW w \in Work, NEW u \in User, NEW a \in Addr, Claims!UpdateUser(w, u, a)
      PROVE  Goal
  BY <1>13, <1>a DEF Claims!UpdateUser, CTyped, UnitSound, OnWay
<1>14. ASSUME NEW w \in Work, NEW u \in User, Claims!SendConfirmation(w, u)
      PROVE  Goal
  BY <1>14, <1>a DEF Claims!SendConfirmation, CTyped, UnitSound, OnWay
<1>15. ASSUME NEW u \in User, Claims!Deactivate(u)
      PROVE  Goal
  BY <1>15, <1>a DEF Claims!Deactivate, CTyped, UnitSound, OnWay
<1>16. ASSUME Claims!Tick
      PROVE  Goal
  BY <1>16, <1>a DEF Claims!Tick, CTyped, UnitSound, OnWay
<1> QED
  BY <1>0, <1>1, <1>2, <1>3, <1>4, <1>5, <1>6, <1>7, <1>8, <1>9, <1>10, <1>11, <1>12,
      <1>13, <1>14, <1>15, <1>16 DEF Claims!Next

LEMMA AcctTypedStep ==
  ASSUME Claims!ClaimsAssumption, CInv, [Claims!Next]_Claims!vars
  PROVE  acct' \in [User \cup Work -> AccountRow]
<1>a. CTyped /\ \A w \in Work : UnitSound(w)
  BY DEF CInv, UnitsSound
<1>0. CASE UNCHANGED Claims!vars
  BY <1>0, <1>a DEF Claims!vars, CTyped, UnitSound, OnWay, AccountRow, UnitRow
<1> DEFINE Goal == acct' \in [User \cup Work -> AccountRow]
<1>1. ASSUME NEW w \in Work, Claims!Claim(w)
      PROVE  Goal
  BY <1>1, <1>a DEF Claims!Claim, CTyped, UnitSound, OnWay, AccountRow, UnitRow
<1>2. ASSUME NEW w \in Work, Claims!ClaimAccounts(w)
      PROVE  Goal
  BY <1>2, <1>a DEF Claims!ClaimAccounts, CTyped, UnitSound, OnWay, AccountRow, UnitRow
<1>3. ASSUME NEW w \in Work, Claims!TakeUser(w)
      PROVE  Goal
  BY <1>3, <1>a DEF Claims!TakeUser, CTyped, UnitSound, OnWay, AccountRow, UnitRow
<1>4. ASSUME NEW w \in Work, Claims!InsertAccount(w)
      PROVE  Goal
  <2> DEFINE b == work[w].addr
  <2>1. acct[w] \in AccountRow /\ b \in Addr
    BY <1>4, <1>a DEF CTyped, UnitSound, OnWay, Claims!InsertAccount
  <2>2. acct' = acct \/ acct' = [acct EXCEPT ![w].live = TRUE, ![w].email = b]
    BY <1>4 DEF Claims!InsertAccount
  <2> HIDE DEF b
  <2>3. [acct[w] EXCEPT !.live = TRUE, !.email = b] \in AccountRow
    BY <2>1 DEF AccountRow
  <2>4. \/ acct' = acct
        \/ acct' = [acct EXCEPT ![w] = [acct[w] EXCEPT !.live = TRUE, !.email = b]]
    BY <2>2, <1>a DEF CTyped
  <2> QED BY <2>3, <2>4, <1>a DEF CTyped
<1>5. ASSUME NEW w \in Work, Claims!SaveIdentity(w)
      PROVE  Goal
  BY SMTT(60), <1>5, <1>a DEF Claims!SaveIdentity, CTyped, UnitSound, OnWay, AccountRow, UnitRow
<1>6. ASSUME NEW w \in Work, Claims!PutCode(w)
      PROVE  Goal
  BY <1>6, <1>a DEF Claims!PutCode, CTyped, UnitSound, OnWay, AccountRow, UnitRow
<1>7. ASSUME NEW w \in Work, Claims!ConsumeCode(w)
      PROVE  Goal
  BY <1>7, <1>a DEF Claims!ConsumeCode, CTyped, UnitSound, OnWay, AccountRow, UnitRow
<1>8. ASSUME NEW w \in Work, Claims!HoldsLiveClaim(w)
      PROVE  Goal
  BY <1>8, <1>a DEF Claims!HoldsLiveClaim, CTyped, UnitSound, OnWay, AccountRow, UnitRow
<1>9. ASSUME NEW w \in Work, Claims!ConfirmAddress(w)
      PROVE  Goal
  BY SMTT(60), <1>9, <1>a DEF Claims!ConfirmAddress, CTyped, UnitSound, OnWay, AccountRow, UnitRow
<1>10. ASSUME NEW w \in Work, Claims!Abort(w)
      PROVE  Goal
  BY <1>10, <1>a DEF Claims!Abort, CTyped, UnitSound, OnWay, AccountRow, UnitRow
<1>11. ASSUME NEW w \in Work, NEW a \in Addr, Claims!CreateAccount(w, a)
      PROVE  Goal
  BY <1>11, <1>a DEF Claims!CreateAccount, CTyped, UnitSound, OnWay, AccountRow, UnitRow
<1>12. ASSUME NEW w \in Work, NEW a \in Addr, Claims!Confirm(w, a)
      PROVE  Goal
  BY <1>12, <1>a DEF Claims!Confirm, CTyped, UnitSound, OnWay, AccountRow, UnitRow
<1>13. ASSUME NEW w \in Work, NEW u \in User, NEW a \in Addr, Claims!UpdateUser(w, u, a)
      PROVE  Goal
  BY <1>13, <1>a DEF Claims!UpdateUser, CTyped, UnitSound, OnWay, AccountRow, UnitRow
<1>14. ASSUME NEW w \in Work, NEW u \in User, Claims!SendConfirmation(w, u)
      PROVE  Goal
  BY <1>14, <1>a DEF Claims!SendConfirmation, CTyped, UnitSound, OnWay, AccountRow,
      UnitRow
<1>15. ASSUME NEW u \in User, Claims!Deactivate(u)
      PROVE  Goal
  <2>1. acct[u] \in AccountRow
    BY <1>a DEF CTyped
  <2>2. [acct[u] EXCEPT !.live = FALSE] \in AccountRow
    BY <2>1 DEF AccountRow
  <2>3. acct' = [acct EXCEPT ![u] = [acct[u] EXCEPT !.live = FALSE]]
    BY <1>15, <1>a DEF Claims!Deactivate
  <2> QED BY <2>2, <2>3, <1>a DEF CTyped
<1>16. ASSUME Claims!Tick
      PROVE  Goal
  BY <1>16, <1>a DEF Claims!Tick, CTyped, UnitSound, OnWay, AccountRow, UnitRow
<1> QED
  BY <1>0, <1>1, <1>2, <1>3, <1>4, <1>5, <1>6, <1>7, <1>8, <1>9, <1>10, <1>11, <1>12,
      <1>13, <1>14, <1>15, <1>16 DEF Claims!Next

LEMMA ClaimTypedStep ==
  ASSUME Claims!ClaimsAssumption, CInv, [Claims!Next]_Claims!vars
  PROVE  claim' \in [Addr -> ClaimRow]
<1>a. CTyped /\ \A w \in Work : UnitSound(w)
  BY DEF CInv, UnitsSound
<1>0. CASE UNCHANGED Claims!vars
  BY <1>0, <1>a DEF Claims!vars, CTyped, UnitSound, OnWay, ClaimRow, UnitRow,
      Claims!NoClaim, Claims!ClaimsAssumption
<1> DEFINE Goal == claim' \in [Addr -> ClaimRow]
<1>1. ASSUME NEW w \in Work, Claims!Claim(w)
      PROVE  Goal
  BY <1>1, <1>a DEF Claims!Claim, CTyped, UnitSound, OnWay, ClaimRow, UnitRow,
      Claims!NoClaim, Claims!ClaimsAssumption
<1>2. ASSUME NEW w \in Work, Claims!ClaimAccounts(w)
      PROVE  Goal
  BY <1>2, <1>a DEF Claims!ClaimAccounts, CTyped, UnitSound, OnWay, ClaimRow, UnitRow,
      Claims!NoClaim, Claims!ClaimsAssumption
<1>3. ASSUME NEW w \in Work, Claims!TakeUser(w)
      PROVE  Goal
  BY <1>3, <1>a DEF Claims!TakeUser, CTyped, UnitSound, OnWay, ClaimRow, UnitRow,
      Claims!NoClaim, Claims!ClaimsAssumption
<1>4. ASSUME NEW w \in Work, Claims!InsertAccount(w)
      PROVE  Goal
  BY <1>4, <1>a DEF Claims!InsertAccount, CTyped, UnitSound, OnWay, ClaimRow, UnitRow,
      Claims!NoClaim, Claims!ClaimsAssumption
<1>5. ASSUME NEW w \in Work, Claims!SaveIdentity(w)
      PROVE  Goal
  BY <1>5, <1>a DEF Claims!SaveIdentity, CTyped, UnitSound, OnWay, ClaimRow, UnitRow,
      Claims!NoClaim, Claims!ClaimsAssumption
<1>6. ASSUME NEW w \in Work, Claims!PutCode(w)
      PROVE  Goal
  <2>1. work[w] \in UnitRow /\ work[w].user \in User /\ work[w].addr \in Addr
    BY <1>6, <1>a DEF CTyped, UnitSound, OnWay, Claims!PutCode
  <2>2. [owner |-> work[w].user, lapses |-> Claims!ClaimedUntil(w)] \in ClaimRow
    BY <2>1 DEF UnitRow, ClaimRow, Claims!ClaimedUntil
  <2>3. \/ claim' = claim
        \/ claim' = [claim EXCEPT ![work[w].addr] = [owner |-> work[w].user,
             lapses |-> Claims!ClaimedUntil(w)]]
    BY <1>6 DEF Claims!PutCode
  <2>4. now' = now
    BY <1>6 DEF Claims!PutCode
  <2> QED BY <2>1, <2>2, <2>3, <2>4, <1>a DEF CTyped
<1>7. ASSUME NEW w \in Work, Claims!ConsumeCode(w)
      PROVE  Goal
  BY <1>7, <1>a DEF Claims!ConsumeCode, CTyped, UnitSound, OnWay, ClaimRow, UnitRow,
      Claims!NoClaim, Claims!ClaimsAssumption
<1>8. ASSUME NEW w \in Work, Claims!HoldsLiveClaim(w)
      PROVE  Goal
  BY <1>8, <1>a DEF Claims!HoldsLiveClaim, CTyped, UnitSound, OnWay, ClaimRow, UnitRow,
      Claims!NoClaim, Claims!ClaimsAssumption
<1>9. ASSUME NEW w \in Work, Claims!ConfirmAddress(w)
      PROVE  Goal
  <2>1. Claims!NoClaim \in ClaimRow
    BY DEF ClaimRow, Claims!NoClaim
  <2>2. \/ claim' = claim
        \/ claim' = [claim EXCEPT ![work[w].addr] =
                       IF claim[work[w].addr].owner = work[w].user THEN Claims!NoClaim
                       ELSE claim[work[w].addr]]
    BY <1>9 DEF Claims!ConfirmAddress
  <2> QED BY <2>1, <2>2, <1>a DEF CTyped
<1>10. ASSUME NEW w \in Work, Claims!Abort(w)
      PROVE  Goal
  BY <1>10, <1>a DEF Claims!Abort, CTyped, UnitSound, OnWay, ClaimRow, UnitRow,
      Claims!NoClaim, Claims!ClaimsAssumption
<1>11. ASSUME NEW w \in Work, NEW a \in Addr, Claims!CreateAccount(w, a)
      PROVE  Goal
  BY <1>11, <1>a DEF Claims!CreateAccount, CTyped, UnitSound, OnWay, ClaimRow, UnitRow,
      Claims!NoClaim, Claims!ClaimsAssumption
<1>12. ASSUME NEW w \in Work, NEW a \in Addr, Claims!Confirm(w, a)
      PROVE  Goal
  BY <1>12, <1>a DEF Claims!Confirm, CTyped, UnitSound, OnWay, ClaimRow, UnitRow,
      Claims!NoClaim, Claims!ClaimsAssumption
<1>13. ASSUME NEW w \in Work, NEW u \in User, NEW a \in Addr, Claims!UpdateUser(w, u, a)
      PROVE  Goal
  BY <1>13, <1>a DEF Claims!UpdateUser, CTyped, UnitSound, OnWay, ClaimRow, UnitRow,
      Claims!NoClaim, Claims!ClaimsAssumption
<1>14. ASSUME NEW w \in Work, NEW u \in User, Claims!SendConfirmation(w, u)
      PROVE  Goal
  BY <1>14, <1>a DEF Claims!SendConfirmation, CTyped, UnitSound, OnWay, ClaimRow,
      UnitRow, Claims!NoClaim, Claims!ClaimsAssumption
<1>15. ASSUME NEW u \in User, Claims!Deactivate(u)
      PROVE  Goal
  BY <1>15, <1>a DEF Claims!Deactivate, CTyped, UnitSound, OnWay, ClaimRow, UnitRow,
      Claims!NoClaim, Claims!ClaimsAssumption
<1>16. ASSUME Claims!Tick
      PROVE  Goal
  BY <1>16, <1>a DEF Claims!Tick, CTyped, UnitSound, OnWay, ClaimRow, UnitRow,
      Claims!NoClaim, Claims!ClaimsAssumption
<1> QED
  BY <1>0, <1>1, <1>2, <1>3, <1>4, <1>5, <1>6, <1>7, <1>8, <1>9, <1>10, <1>11, <1>12,
      <1>13, <1>14, <1>15, <1>16 DEF Claims!Next

LEMMA CodeTypedStep ==
  ASSUME Claims!ClaimsAssumption, CInv, [Claims!Next]_Claims!vars
  PROVE  (rec' \in [Addr -> CodeRow] /\ now' \in 0..MaxTime)
<1>a. CTyped /\ \A w \in Work : UnitSound(w)
  BY DEF CInv, UnitsSound
<1>0. CASE UNCHANGED Claims!vars
  BY <1>0, <1>a DEF Claims!vars, CTyped, UnitSound, OnWay, CodeRow, UnitRow,
      Claims!NoCode, Claims!ClaimsAssumption
<1> DEFINE Goal == (rec' \in [Addr -> CodeRow] /\ now' \in 0..MaxTime)
<1>1. ASSUME NEW w \in Work, Claims!Claim(w)
      PROVE  Goal
  BY <1>1, <1>a DEF Claims!Claim, CTyped, UnitSound, OnWay, CodeRow, UnitRow,
      Claims!NoCode, Claims!ClaimsAssumption
<1>2. ASSUME NEW w \in Work, Claims!ClaimAccounts(w)
      PROVE  Goal
  BY <1>2, <1>a DEF Claims!ClaimAccounts, CTyped, UnitSound, OnWay, CodeRow, UnitRow,
      Claims!NoCode, Claims!ClaimsAssumption
<1>3. ASSUME NEW w \in Work, Claims!TakeUser(w)
      PROVE  Goal
  BY <1>3, <1>a DEF Claims!TakeUser, CTyped, UnitSound, OnWay, CodeRow, UnitRow,
      Claims!NoCode, Claims!ClaimsAssumption
<1>4. ASSUME NEW w \in Work, Claims!InsertAccount(w)
      PROVE  Goal
  BY <1>4, <1>a DEF Claims!InsertAccount, CTyped, UnitSound, OnWay, CodeRow, UnitRow,
      Claims!NoCode, Claims!ClaimsAssumption
<1>5. ASSUME NEW w \in Work, Claims!SaveIdentity(w)
      PROVE  Goal
  BY <1>5, <1>a DEF Claims!SaveIdentity, CTyped, UnitSound, OnWay, CodeRow, UnitRow,
      Claims!NoCode, Claims!ClaimsAssumption
<1>6. ASSUME NEW w \in Work, Claims!PutCode(w)
      PROVE  Goal
  <2>1. work[w] \in UnitRow /\ work[w].user \in User /\ work[w].addr \in Addr
    BY <1>6, <1>a DEF CTyped, UnitSound, OnWay, Claims!PutCode
  <2>2. [code |-> w, user |-> work[w].user, gen |-> work[w].gen, exp |-> work[w].exp]
          \in CodeRow
    BY <2>1 DEF UnitRow, CodeRow
  <2>3. \/ rec' = rec
        \/ rec' = [rec EXCEPT ![work[w].addr] =
             [code |-> w, user |-> work[w].user, gen |-> work[w].gen,
               exp |-> work[w].exp]]
    BY <1>6 DEF Claims!PutCode
  <2>4. now' = now
    BY <1>6 DEF Claims!PutCode
  <2> QED BY <2>1, <2>2, <2>3, <2>4, <1>a DEF CTyped
<1>7. ASSUME NEW w \in Work, Claims!ConsumeCode(w)
      PROVE  Goal
  BY <1>7, <1>a DEF Claims!ConsumeCode, CTyped, UnitSound, OnWay, CodeRow, UnitRow,
      Claims!NoCode, Claims!ClaimsAssumption
<1>8. ASSUME NEW w \in Work, Claims!HoldsLiveClaim(w)
      PROVE  Goal
  BY <1>8, <1>a DEF Claims!HoldsLiveClaim, CTyped, UnitSound, OnWay, CodeRow, UnitRow,
      Claims!NoCode, Claims!ClaimsAssumption
<1>9. ASSUME NEW w \in Work, Claims!ConfirmAddress(w)
      PROVE  Goal
  BY SMTT(60), <1>9, <1>a DEF Claims!ConfirmAddress, CTyped, UnitSound, OnWay, CodeRow, UnitRow,
      Claims!NoCode, Claims!ClaimsAssumption
<1>10. ASSUME NEW w \in Work, Claims!Abort(w)
      PROVE  Goal
  BY <1>10, <1>a DEF Claims!Abort, CTyped, UnitSound, OnWay, CodeRow, UnitRow,
      Claims!NoCode, Claims!ClaimsAssumption
<1>11. ASSUME NEW w \in Work, NEW a \in Addr, Claims!CreateAccount(w, a)
      PROVE  Goal
  BY <1>11, <1>a DEF Claims!CreateAccount, CTyped, UnitSound, OnWay, CodeRow, UnitRow,
      Claims!NoCode, Claims!ClaimsAssumption
<1>12. ASSUME NEW w \in Work, NEW a \in Addr, Claims!Confirm(w, a)
      PROVE  Goal
  BY <1>12, <1>a DEF Claims!Confirm, CTyped, UnitSound, OnWay, CodeRow, UnitRow,
      Claims!NoCode, Claims!ClaimsAssumption
<1>13. ASSUME NEW w \in Work, NEW u \in User, NEW a \in Addr, Claims!UpdateUser(w, u, a)
      PROVE  Goal
  BY <1>13, <1>a DEF Claims!UpdateUser, CTyped, UnitSound, OnWay, CodeRow, UnitRow,
      Claims!NoCode, Claims!ClaimsAssumption
<1>14. ASSUME NEW w \in Work, NEW u \in User, Claims!SendConfirmation(w, u)
      PROVE  Goal
  BY <1>14, <1>a DEF Claims!SendConfirmation, CTyped, UnitSound, OnWay, CodeRow,
      UnitRow, Claims!NoCode, Claims!ClaimsAssumption
<1>15. ASSUME NEW u \in User, Claims!Deactivate(u)
      PROVE  Goal
  BY <1>15, <1>a DEF Claims!Deactivate, CTyped, UnitSound, OnWay, CodeRow, UnitRow,
      Claims!NoCode, Claims!ClaimsAssumption
<1>16. ASSUME Claims!Tick
      PROVE  Goal
  BY <1>16, <1>a DEF Claims!Tick, CTyped, UnitSound, OnWay, CodeRow, UnitRow,
      Claims!NoCode, Claims!ClaimsAssumption
<1> QED
  BY <1>0, <1>1, <1>2, <1>3, <1>4, <1>5, <1>6, <1>7, <1>8, <1>9, <1>10, <1>11, <1>12,
      <1>13, <1>14, <1>15, <1>16 DEF Claims!Next

LEMMA NoConflict ==
  ASSUME NEW z, Claims!ClaimsAssumption, CInv, [Claims!Next]_Claims!vars, z \in Work
  PROVE  work'[z].pc # "conflict"
<1>a. CTyped /\ \A w \in Work : UnitSound(w) /\ FoundSound(w)
  BY DEF CInv, UnitsSound, UnitsFound
<1>0. CASE UNCHANGED Claims!vars
  BY <1>0, <1>a DEF Claims!vars, CTyped, UnitSound, UnitRow
<1> DEFINE Goal == work'[z].pc # "conflict"
<1>1. ASSUME NEW w \in Work, Claims!Claim(w)
      PROVE  Goal
  BY <1>1, <1>a DEF Claims!Claim, CTyped, UnitSound, UnitRow
<1>2. ASSUME NEW w \in Work, Claims!ClaimAccounts(w)
      PROVE  Goal
  BY <1>2, <1>a DEF Claims!ClaimAccounts, CTyped, UnitSound, UnitRow
<1>3. ASSUME NEW w \in Work, Claims!TakeUser(w)
      PROVE  Goal
  BY <1>3, <1>a DEF Claims!TakeUser, CTyped, UnitSound, UnitRow
<1>4. ASSUME NEW w \in Work, Claims!InsertAccount(w)
      PROVE  Goal
  <2>1. Claims!OnAddress(work[w].addr) = {}
    <3>1. Claims!OnAddress(work[w].addr) \subseteq {w} /\ work[w].addr \in Addr
      BY <1>4, <1>a DEF Claims!InsertAccount, FoundSound, UnitSound, OnWay, Claims!Owner
    <3>2. acct[w].email = None /\ None \notin Addr
      BY <1>4, <1>a DEF Claims!InsertAccount, UnitSound, Claims!ClaimsAssumption
    <3> QED BY <3>1, <3>2 DEF Claims!OnAddress
  <2>2. work' = [work EXCEPT ![w].pc = "done"]
    BY <1>4, <2>1 DEF Claims!InsertAccount
  <2> QED BY <2>2, <1>a DEF CTyped, UnitSound, UnitRow
<1>5. ASSUME NEW w \in Work, Claims!SaveIdentity(w)
      PROVE  Goal
  BY <1>5, <1>a DEF Claims!SaveIdentity, CTyped, UnitSound, UnitRow
<1>6. ASSUME NEW w \in Work, Claims!PutCode(w)
      PROVE  Goal
  BY <1>6, <1>a DEF Claims!PutCode, CTyped, UnitSound, UnitRow
<1>7. ASSUME NEW w \in Work, Claims!ConsumeCode(w)
      PROVE  Goal
  BY SMTT(60), <1>7, <1>a DEF Claims!ConsumeCode, CTyped, UnitSound, UnitRow
<1>8. ASSUME NEW w \in Work, Claims!HoldsLiveClaim(w)
      PROVE  Goal
  <2>1. work' = [work EXCEPT ![w].pc = "write"] \/ work' =
          [work EXCEPT ![w].pc = "refused"]
    BY <1>8 DEF Claims!HoldsLiveClaim
  <2>2. work[z].pc # "conflict"
    BY <1>a DEF UnitSound
  <2> QED BY <2>1, <2>2, <1>a DEF CTyped, UnitRow
<1>9. ASSUME NEW w \in Work, Claims!ConfirmAddress(w)
      PROVE  Goal
  <2>1. Claims!OnAddress(work[w].addr) \ {work[w].user} = {}
    <3>1. claim[work[w].addr].owner = work[w].user /\ work[w].addr \in Addr
      BY <1>9, <1>a DEF Claims!ConfirmAddress, FoundSound, UnitSound, OnWay
    <3>2. work[w].user \in User /\ None \notin User
      BY <1>9, <1>a DEF Claims!ConfirmAddress, UnitSound, OnWay, Claims!ClaimsAssumption
    <3>3. ClaimKeepsOff(work[w].addr)
      BY <3>1 DEF CInv, ClaimsSound
    <3> QED BY <3>1, <3>2, <3>3 DEF ClaimKeepsOff
  <2>2. work' = [work EXCEPT ![w].pc = "done"]
    BY <1>9, <2>1 DEF Claims!ConfirmAddress
  <2> QED BY <2>2, <1>a DEF CTyped, UnitSound, UnitRow
<1>10. ASSUME NEW w \in Work, Claims!Abort(w)
      PROVE  Goal
  BY <1>10, <1>a DEF Claims!Abort, CTyped, UnitSound, UnitRow
<1>11. ASSUME NEW w \in Work, NEW a \in Addr, Claims!CreateAccount(w, a)
      PROVE  Goal
  BY <1>11, <1>a DEF Claims!CreateAccount, CTyped, UnitSound, UnitRow
<1>12. ASSUME NEW w \in Work, NEW a \in Addr, Claims!Confirm(w, a)
      PROVE  Goal
  BY <1>12, <1>a DEF Claims!Confirm, CTyped, UnitSound, UnitRow
<1>13. ASSUME NEW w \in Work, NEW u \in User, NEW a \in Addr, Claims!UpdateUser(w, u, a)
      PROVE  Goal
  BY <1>13, <1>a DEF Claims!UpdateUser, CTyped, UnitSound, UnitRow
<1>14. ASSUME NEW w \in Work, NEW u \in User, Claims!SendConfirmation(w, u)
      PROVE  Goal
  BY <1>14, <1>a DEF Claims!SendConfirmation, CTyped, UnitSound, UnitRow
<1>15. ASSUME NEW u \in User, Claims!Deactivate(u)
      PROVE  Goal
  BY <1>15, <1>a DEF Claims!Deactivate, CTyped, UnitSound, UnitRow
<1>16. ASSUME Claims!Tick
      PROVE  Goal
  BY <1>16, <1>a DEF Claims!Tick, CTyped, UnitSound, UnitRow
<1> QED
  BY <1>0, <1>1, <1>2, <1>3, <1>4, <1>5, <1>6, <1>7, <1>8, <1>9, <1>10, <1>11, <1>12,
      <1>13, <1>14, <1>15, <1>16 DEF Claims!Next

LEMMA UnitsStep ==
  ASSUME NEW z, Claims!ClaimsAssumption, CInv, [Claims!Next]_Claims!vars, z \in Work
  PROVE  UnitSound(z)'
<1>a. CTyped /\ UnitSound(z) /\ now \in Nat
  BY DEF CInv, UnitsSound, CTyped
<1>b. \A w \in Work : UnitSound(w)
  BY DEF CInv, UnitsSound
<1>c. work'[z] = work[z] /\ acct'[z] = acct[z] /\ now' \in Nat /\ now' >= now
       => UnitSound(z)'
  BY <1>a, NoConflict DEF UnitSound, CTyped, UnitRow
<1>d. work'[z].pc # "conflict"
  BY NoConflict
<1>0. CASE UNCHANGED Claims!vars
  BY <1>0, <1>a, <1>c DEF Claims!vars, CTyped
<1> DEFINE Goal == UnitSound(z)'
<1>1. ASSUME NEW w \in Work, Claims!Claim(w)
      PROVE  Goal
  <2>1. CASE z # w
    BY <1>1, <2>1, <1>a, <1>c DEF Claims!Claim, CTyped
  <2>2. CASE z = w
    BY <1>1, <2>2, <1>a, <1>d DEF Claims!Claim, CTyped, UnitSound, UnitRow, OnWay
  <2> QED BY <2>1, <2>2
<1>2. ASSUME NEW w \in Work, Claims!ClaimAccounts(w)
      PROVE  Goal
  <2>1. CASE z # w
    BY <1>2, <2>1, <1>a, <1>c DEF Claims!ClaimAccounts, CTyped
  <2>2. CASE z = w
    BY <1>2, <2>2, <1>a, <1>d
       DEF Claims!ClaimAccounts, CTyped, UnitSound, UnitRow, OnWay
  <2> QED BY <2>1, <2>2
<1>3. ASSUME NEW w \in Work, Claims!TakeUser(w)
      PROVE  Goal
  <2>1. CASE z # w
    BY <1>3, <2>1, <1>a, <1>c DEF Claims!TakeUser, CTyped
  <2>2. CASE z = w
    BY <1>3, <2>2, <1>a, <1>d DEF Claims!TakeUser, CTyped, UnitSound, UnitRow, OnWay
  <2> QED BY <2>1, <2>2
<1>4. ASSUME NEW w \in Work, Claims!InsertAccount(w)
      PROVE  Goal
  <2>1. CASE z # w
    BY <1>4, <2>1, <1>a, <1>c DEF Claims!InsertAccount, CTyped
  <2>2. CASE z = w
    BY <1>4, <2>2, <1>a, <1>d
       DEF Claims!InsertAccount, CTyped, UnitSound, UnitRow, OnWay
  <2> QED BY <2>1, <2>2
<1>5. ASSUME NEW w \in Work, Claims!SaveIdentity(w)
      PROVE  Goal
  <2>1. CASE z # w
    <3>1. work[w].user \in User /\ work[w].user # z
      BY <1>5, <1>b DEF Claims!SaveIdentity, UnitSound, OnWay, Claims!ClaimsAssumption
    <3>2. acct'[z] = acct[z]
      BY <1>5, <3>1, <1>a DEF Claims!SaveIdentity, CTyped
    <3> QED BY <1>5, <2>1, <3>2, <1>a, <1>c DEF Claims!SaveIdentity, CTyped
  <2>2. CASE z = w
    BY <1>5, <2>2, <1>a, <1>d DEF Claims!SaveIdentity, CTyped, UnitSound, UnitRow, OnWay
  <2> QED BY <2>1, <2>2
<1>6. ASSUME NEW w \in Work, Claims!PutCode(w)
      PROVE  Goal
  <2>1. CASE z # w
    BY <1>6, <2>1, <1>a, <1>c DEF Claims!PutCode, CTyped
  <2>2. CASE z = w
    BY <1>6, <2>2, <1>a, <1>d DEF Claims!PutCode, CTyped, UnitSound, UnitRow, OnWay
  <2> QED BY <2>1, <2>2
<1>7. ASSUME NEW w \in Work, Claims!ConsumeCode(w)
      PROVE  Goal
  <2>1. CASE z # w
    BY <1>7, <2>1, <1>a, <1>c DEF Claims!ConsumeCode, CTyped
  <2>2. CASE z = w
    BY <1>7, <2>2, <1>a, <1>d DEF Claims!ConsumeCode, CTyped, UnitSound, UnitRow, OnWay
  <2> QED BY <2>1, <2>2
<1>8. ASSUME NEW w \in Work, Claims!HoldsLiveClaim(w)
      PROVE  Goal
  <2>1. CASE z # w
    BY <1>8, <2>1, <1>a, <1>c DEF Claims!HoldsLiveClaim, CTyped
  <2>2. CASE z = w
    <3>1. /\ work'[z] = [work[z] EXCEPT !.pc = work'[z].pc]
          /\ work'[z].pc \in {"write", "refused"}
          /\ acct' = acct /\ now' = now
      BY <1>8, <2>2, <1>a DEF Claims!HoldsLiveClaim, CTyped, UnitRow
    <3>2. work[z].pc = "holds"
      BY <1>8, <2>2 DEF Claims!HoldsLiveClaim
    <3>3. work[z].kind = "confirm" /\ work[z].at <= now
      <4>1. work[z] \in UnitRow
        BY <1>a DEF CTyped
      <4> QED BY <3>2, <4>1, <1>a DEF UnitSound, OnWay, UnitRow
    <3> QED BY <3>1, <3>2, <3>3, <1>a DEF UnitSound, UnitRow, OnWay, CTyped
  <2> QED BY <2>1, <2>2
<1>9. ASSUME NEW w \in Work, Claims!ConfirmAddress(w)
      PROVE  Goal
  <2>1. CASE z # w
    <3>1. work[w].user \in User /\ work[w].user # z
      BY <1>9, <1>b DEF Claims!ConfirmAddress, UnitSound, OnWay, Claims!ClaimsAssumption
    <3>2. acct'[z] = acct[z]
      BY <1>9, <3>1, <1>a DEF Claims!ConfirmAddress, CTyped
    <3> QED BY <1>9, <2>1, <3>2, <1>a, <1>c DEF Claims!ConfirmAddress, CTyped
  <2>2. CASE z = w
    <3>1. work[w].user \in User /\ work[w].user # z
      BY <1>9, <1>b DEF Claims!ConfirmAddress, UnitSound, OnWay, Claims!ClaimsAssumption
    <3>2. acct'[z] = acct[z]
      BY <1>9, <3>1, <1>a DEF Claims!ConfirmAddress, CTyped
    <3>3. work'[z] = [work[z] EXCEPT !.pc = work'[z].pc] /\ work'[z].pc \in {"done",
            "conflict"}
          /\ now' = now /\ work[z].pc = "write" /\ work[z].kind = "confirm"
      BY <1>9, <2>2, <1>a DEF Claims!ConfirmAddress, CTyped, UnitRow
    <3>4. work[z] \in UnitRow
      BY <1>a DEF CTyped
    <3>5. /\ work'[z].at <= now' /\ work'[z].kind = "confirm" /\ acct'[z].email = None
          /\ work'[z].pc = "done"
      BY <3>2, <3>3, <3>4, <1>a, <1>d DEF UnitSound, UnitRow
    <3> QED BY <3>5 DEF UnitSound, OnWay
  <2> QED BY <2>1, <2>2
<1>10. ASSUME NEW w \in Work, Claims!Abort(w)
      PROVE  Goal
  <2>1. CASE z # w
    BY <1>10, <2>1, <1>a, <1>c DEF Claims!Abort, CTyped
  <2>2. CASE z = w
    BY <1>10, <2>2, <1>a, <1>d DEF Claims!Abort, CTyped, UnitSound, UnitRow, OnWay
  <2> QED BY <2>1, <2>2
<1>11. ASSUME NEW w \in Work, NEW a \in Addr, Claims!CreateAccount(w, a)
      PROVE  Goal
  <2>1. CASE z # w
    BY <1>11, <2>1, <1>a, <1>c DEF Claims!CreateAccount, CTyped
  <2>2. CASE z = w
    BY <1>11, <2>2, <1>a, <1>d
       DEF Claims!CreateAccount, CTyped, UnitSound, UnitRow, OnWay
  <2> QED BY <2>1, <2>2
<1>12. ASSUME NEW w \in Work, NEW a \in Addr, Claims!Confirm(w, a)
      PROVE  Goal
  <2>1. CASE z # w
    BY <1>12, <2>1, <1>a, <1>c DEF Claims!Confirm, CTyped
  <2>2. CASE z = w
    <3>1. /\ work'[z].kind = "confirm" /\ work'[z].pc = "consume" /\ work'[z].addr = a
          /\ work'[z].user = rec[a].user /\ work'[z].at = 0 /\ now' = now
      BY <1>12, <2>2, <1>a DEF Claims!Confirm, CTyped, UnitRow, Claims!NoWork
    <3>2. a \in Addr /\ rec[a].user \in User
      BY <1>12 DEF Claims!Confirm, CInv, CodesClaimed, CodeOfUser
    <3>3. work[z].pc = "idle" /\ acct'[z] = acct[z]
      BY <1>12, <2>2 DEF Claims!Confirm
    <3> QED BY <3>1, <3>2, <3>3, <1>a DEF UnitSound, OnWay
  <2> QED BY <2>1, <2>2
<1>13. ASSUME NEW w \in Work, NEW u \in User, NEW a \in Addr, Claims!UpdateUser(w, u, a)
      PROVE  Goal
  <2>1. CASE z # w
    BY <1>13, <2>1, <1>a, <1>c DEF Claims!UpdateUser, CTyped
  <2>2. CASE z = w
    <3>1. /\ work'[z].kind = "save" /\ work'[z].pc = "user" /\ work'[z].addr = a
          /\ work'[z].user = u /\ work'[z].at = 0 /\ now' = now
      BY <1>13, <2>2, <1>a DEF Claims!UpdateUser, CTyped, UnitRow, Claims!NoWork
    <3>2. a \in Addr /\ u \in User
      OBVIOUS
    <3>3. work[z].pc = "idle" /\ acct'[z] = acct[z]
      BY <1>13, <2>2 DEF Claims!UpdateUser
    <3> QED BY <3>1, <3>2, <3>3, <1>a DEF UnitSound, OnWay
  <2> QED BY <2>1, <2>2
<1>14. ASSUME NEW w \in Work, NEW u \in User, Claims!SendConfirmation(w, u)
      PROVE  Goal
  <2>1. CASE z # w
    BY <1>14, <2>1, <1>a, <1>c DEF Claims!SendConfirmation, CTyped
  <2>2. CASE z = w
    <3>1. /\ work'[z].kind = "send" /\ work'[z].pc = "user"
               /\ work'[z].addr = acct[u].pending
          /\ work'[z].user = u /\ work'[z].at = 0 /\ now' = now
      BY <1>14, <2>2, <1>a DEF Claims!SendConfirmation, CTyped, UnitRow, Claims!NoWork
    <3>2. acct[u].pending \in Addr /\ u \in User
      BY <1>14, <1>a DEF Claims!SendConfirmation, CTyped, AccountRow
    <3>3. work[z].pc = "idle" /\ acct'[z] = acct[z]
      BY <1>14, <2>2 DEF Claims!SendConfirmation
    <3> QED BY <3>1, <3>2, <3>3, <1>a DEF UnitSound, OnWay
  <2> QED BY <2>1, <2>2
<1>15. ASSUME NEW u \in User, Claims!Deactivate(u)
      PROVE  Goal
  BY <1>15, <1>a, <1>c DEF Claims!Deactivate, CTyped, Claims!ClaimsAssumption
<1>16. ASSUME Claims!Tick
      PROVE  Goal
  BY <1>16, <1>a, <1>c DEF Claims!Tick, CTyped
<1> QED
  BY <1>0, <1>1, <1>2, <1>3, <1>4, <1>5, <1>6, <1>7, <1>8, <1>9, <1>10, <1>11, <1>12,
      <1>13, <1>14, <1>15, <1>16 DEF Claims!Next

LEMMA UserLockKeeps ==
  ASSUME NEW z, NEW o, Claims!ClaimsAssumption, CInv, [Claims!Next]_Claims!vars,
         z \in Work, o \in User,
         <<"user", o>> \in held[z], work'[z] = work[z]
  PROVE  acct'[o] = acct[o]
<1>a. CTyped /\ \A w \in Work : UnitSound(w) /\ LocksSound(w)
  BY DEF CInv, UnitsSound, UnitLocks
<1>b. <<"user", o>> \in held[z] /\ work'[z] = work[z] /\ o \notin Work
  BY DEF Claims!ClaimsAssumption
<1>0. CASE UNCHANGED Claims!vars
  BY <1>0, <1>a, <1>b DEF Claims!vars, CTyped, UnitSound, LocksSound
<1> DEFINE Goal == acct'[o] = acct[o]
<1>1. ASSUME NEW w \in Work, Claims!Claim(w)
      PROVE  Goal
  BY <1>1, <1>a, <1>b DEF Claims!Claim, CTyped, UnitSound, LocksSound
<1>2. ASSUME NEW w \in Work, Claims!ClaimAccounts(w)
      PROVE  Goal
  BY <1>2, <1>a, <1>b DEF Claims!ClaimAccounts, CTyped, UnitSound, LocksSound
<1>3. ASSUME NEW w \in Work, Claims!TakeUser(w)
      PROVE  Goal
  BY <1>3, <1>a, <1>b DEF Claims!TakeUser, CTyped, UnitSound, LocksSound
<1>4. ASSUME NEW w \in Work, Claims!InsertAccount(w)
      PROVE  Goal
  BY <1>4, <1>a, <1>b DEF Claims!InsertAccount, CTyped
<1>5. ASSUME NEW w \in Work, Claims!SaveIdentity(w)
      PROVE  Goal
  <2>1. work'[w].pc # work[w].pc
    BY <1>5, <1>a DEF Claims!SaveIdentity, CTyped, UnitRow
  <2>2. z # w
    BY <2>1
  <2>3. <<"user", work[w].user>> \in held[w] /\ work[w].user \in User
    BY <1>5, <1>a DEF Claims!SaveIdentity, UnitSound, LocksSound, OnWay
  <2>4. work[w].user # o
    BY <2>2, <2>3, <1>a, <1>b DEF LocksSound, Claims!HeldByOther
  <2> QED BY <1>5, <2>3, <2>4, <1>a DEF Claims!SaveIdentity, CTyped
<1>6. ASSUME NEW w \in Work, Claims!PutCode(w)
      PROVE  Goal
  BY <1>6, <1>a, <1>b DEF Claims!PutCode, CTyped, UnitSound, LocksSound
<1>7. ASSUME NEW w \in Work, Claims!ConsumeCode(w)
      PROVE  Goal
  BY <1>7, <1>a, <1>b DEF Claims!ConsumeCode, CTyped, UnitSound, LocksSound
<1>8. ASSUME NEW w \in Work, Claims!HoldsLiveClaim(w)
      PROVE  Goal
  BY <1>8, <1>a, <1>b DEF Claims!HoldsLiveClaim, CTyped, UnitSound, LocksSound
<1>9. ASSUME NEW w \in Work, Claims!ConfirmAddress(w)
      PROVE  Goal
  <2>1. work'[w].pc # work[w].pc
    BY <1>9, <1>a DEF Claims!ConfirmAddress, CTyped, UnitRow
  <2>2. z # w
    BY <2>1
  <2>3. <<"user", work[w].user>> \in held[w] /\ work[w].user \in User
    BY <1>9, <1>a DEF Claims!ConfirmAddress, UnitSound, LocksSound, OnWay
  <2>4. work[w].user # o
    BY <2>2, <2>3, <1>a, <1>b DEF LocksSound, Claims!HeldByOther
  <2> QED BY <1>9, <2>3, <2>4, <1>a DEF Claims!ConfirmAddress, CTyped
<1>10. ASSUME NEW w \in Work, Claims!Abort(w)
      PROVE  Goal
  BY <1>10, <1>a, <1>b DEF Claims!Abort, CTyped, UnitSound, LocksSound
<1>11. ASSUME NEW w \in Work, NEW a \in Addr, Claims!CreateAccount(w, a)
      PROVE  Goal
  BY <1>11, <1>a, <1>b DEF Claims!CreateAccount, CTyped, UnitSound, LocksSound
<1>12. ASSUME NEW w \in Work, NEW a \in Addr, Claims!Confirm(w, a)
      PROVE  Goal
  BY <1>12, <1>a, <1>b DEF Claims!Confirm, CTyped, UnitSound, LocksSound
<1>13. ASSUME NEW w \in Work, NEW u \in User, NEW a \in Addr, Claims!UpdateUser(w, u, a)
      PROVE  Goal
  BY <1>13, <1>a, <1>b DEF Claims!UpdateUser, CTyped, UnitSound, LocksSound
<1>14. ASSUME NEW w \in Work, NEW u \in User, Claims!SendConfirmation(w, u)
      PROVE  Goal
  BY <1>14, <1>a, <1>b DEF Claims!SendConfirmation, CTyped, UnitSound, LocksSound
<1>15. ASSUME NEW u \in User, Claims!Deactivate(u)
      PROVE  Goal
  BY <1>15, <1>a, <1>b DEF Claims!Deactivate, CTyped, UnitSound, LocksSound
<1>16. ASSUME Claims!Tick
      PROVE  Goal
  BY <1>16, <1>a, <1>b DEF Claims!Tick, CTyped, UnitSound, LocksSound
<1> QED
  BY <1>0, <1>1, <1>2, <1>3, <1>4, <1>5, <1>6, <1>7, <1>8, <1>9, <1>10, <1>11, <1>12,
      <1>13, <1>14, <1>15, <1>16 DEF Claims!Next

LEMMA ClaimLockKeeps ==
  ASSUME NEW z, NEW b, Claims!ClaimsAssumption, CInv, [Claims!Next]_Claims!vars,
         z \in Work, b \in Addr,
         <<"claim", b>> \in held[z], work'[z] = work[z]
  PROVE  (/\ claim'[b] = claim[b]
           /\ \A x \in User \cup Work : acct'[x].email = b => acct[x].email = b)
<1>a. CTyped /\ \A w \in Work : UnitSound(w) /\ LocksSound(w)
  BY DEF CInv, UnitsSound, UnitLocks
<1>b. <<"claim", b>> \in held[z] /\ work'[z] = work[z]
  OBVIOUS
<1>0. CASE UNCHANGED Claims!vars
  BY <1>0, <1>a, <1>b DEF Claims!vars, CTyped
<1> DEFINE Goal ==
         (/\ claim'[b] = claim[b]
           /\ \A x \in User \cup Work : acct'[x].email = b => acct[x].email = b)
<1>1. ASSUME NEW w \in Work, Claims!Claim(w)
      PROVE  Goal
  BY <1>1, <1>a, <1>b DEF Claims!Claim, CTyped
<1>2. ASSUME NEW w \in Work, Claims!ClaimAccounts(w)
      PROVE  Goal
  BY <1>2, <1>a, <1>b DEF Claims!ClaimAccounts, CTyped
<1>3. ASSUME NEW w \in Work, Claims!TakeUser(w)
      PROVE  Goal
  BY <1>3, <1>a, <1>b DEF Claims!TakeUser, CTyped
<1>4. ASSUME NEW w \in Work, Claims!InsertAccount(w)
      PROVE  Goal
  <2>1. work'[w].pc # work[w].pc
    BY <1>4, <1>a DEF Claims!InsertAccount, CTyped, UnitRow
  <2>2. z # w
    BY <2>1
  <2>3. <<"claim", work[w].addr>> \in held[w] /\ work[w].addr \in Addr
    BY <1>4, <1>a DEF Claims!InsertAccount, UnitSound, LocksSound, OnWay
  <2>4. work[w].addr # b
    BY <2>2, <2>3, <1>a, <1>b DEF LocksSound, Claims!HeldByOther
  <2> QED BY <1>4, <2>3, <2>4, <1>a DEF Claims!InsertAccount, CTyped, AccountRow
<1>5. ASSUME NEW w \in Work, Claims!SaveIdentity(w)
      PROVE  Goal
  <2>1. work'[w].pc # work[w].pc
    BY <1>5, <1>a DEF Claims!SaveIdentity, CTyped, UnitRow
  <2>2. z # w
    BY <2>1
  <2>3. <<"claim", work[w].addr>> \in held[w] /\ work[w].addr \in Addr
    BY <1>5, <1>a DEF Claims!SaveIdentity, UnitSound, LocksSound, OnWay
  <2>4. work[w].addr # b
    BY <2>2, <2>3, <1>a, <1>b DEF LocksSound, Claims!HeldByOther
  <2>5. acct[work[w].user].pending # b \/ acct[work[w].user].pending = None
    BY <1>5, <2>2, <1>b DEF Claims!SaveIdentity, Claims!HeldByOther
  <2>6. claim'[b] = claim[b]
    BY <1>5, <2>4, <2>5 DEF Claims!SaveIdentity, Claims!Released
  <2>7. \A x \in User \cup Work : acct'[x].email = acct[x].email
    BY <1>5, <1>a DEF Claims!SaveIdentity, CTyped, AccountRow
  <2> QED BY <2>6, <2>7
<1>6. ASSUME NEW w \in Work, Claims!PutCode(w)
      PROVE  Goal
  <2>1. work'[w].pc # work[w].pc
    BY <1>6, <1>a DEF Claims!PutCode, CTyped, UnitRow
  <2>2. z # w
    BY <2>1
  <2>3. <<"claim", work[w].addr>> \in held[w] /\ work[w].addr \in Addr
    BY <1>6, <1>a DEF Claims!PutCode, UnitSound, LocksSound, OnWay
  <2>4. work[w].addr # b
    BY <2>2, <2>3, <1>a, <1>b DEF LocksSound, Claims!HeldByOther
  <2> QED BY <1>6, <2>3, <2>4, <1>a DEF Claims!PutCode, CTyped, AccountRow
<1>7. ASSUME NEW w \in Work, Claims!ConsumeCode(w)
      PROVE  Goal
  BY <1>7, <1>a, <1>b DEF Claims!ConsumeCode, CTyped
<1>8. ASSUME NEW w \in Work, Claims!HoldsLiveClaim(w)
      PROVE  Goal
  BY <1>8, <1>a, <1>b DEF Claims!HoldsLiveClaim, CTyped
<1>9. ASSUME NEW w \in Work, Claims!ConfirmAddress(w)
      PROVE  Goal
  <2>1. work'[w].pc # work[w].pc
    BY <1>9, <1>a DEF Claims!ConfirmAddress, CTyped, UnitRow
  <2>2. z # w
    BY <2>1
  <2>3. <<"claim", work[w].addr>> \in held[w] /\ work[w].addr \in Addr
    BY <1>9, <1>a DEF Claims!ConfirmAddress, UnitSound, LocksSound, OnWay
  <2>4. work[w].addr # b
    BY <2>2, <2>3, <1>a, <1>b DEF LocksSound, Claims!HeldByOther
  <2> QED BY SMTT(60), <1>9, <2>3, <2>4, <1>a DEF Claims!ConfirmAddress, CTyped, AccountRow
<1>10. ASSUME NEW w \in Work, Claims!Abort(w)
      PROVE  Goal
  BY <1>10, <1>a, <1>b DEF Claims!Abort, CTyped
<1>11. ASSUME NEW w \in Work, NEW a \in Addr, Claims!CreateAccount(w, a)
      PROVE  Goal
  BY <1>11, <1>a, <1>b DEF Claims!CreateAccount, CTyped
<1>12. ASSUME NEW w \in Work, NEW a \in Addr, Claims!Confirm(w, a)
      PROVE  Goal
  BY <1>12, <1>a, <1>b DEF Claims!Confirm, CTyped
<1>13. ASSUME NEW w \in Work, NEW u \in User, NEW a \in Addr, Claims!UpdateUser(w, u, a)
      PROVE  Goal
  BY <1>13, <1>a, <1>b DEF Claims!UpdateUser, CTyped
<1>14. ASSUME NEW w \in Work, NEW u \in User, Claims!SendConfirmation(w, u)
      PROVE  Goal
  BY <1>14, <1>a, <1>b DEF Claims!SendConfirmation, CTyped
<1>15. ASSUME NEW u \in User, Claims!Deactivate(u)
      PROVE  Goal
  BY <1>15, <1>a, <1>b DEF Claims!Deactivate, CTyped, AccountRow
<1>16. ASSUME Claims!Tick
      PROVE  Goal
  BY <1>16, <1>a, <1>b DEF Claims!Tick, CTyped
<1> QED
  BY <1>0, <1>1, <1>2, <1>3, <1>4, <1>5, <1>6, <1>7, <1>8, <1>9, <1>10, <1>11, <1>12,
      <1>13, <1>14, <1>15, <1>16 DEF Claims!Next

LEMMA LocksStep ==
  ASSUME NEW z, Claims!ClaimsAssumption, CInv, [Claims!Next]_Claims!vars, z \in Work
  PROVE  LocksSound(z)'
<1>a. CTyped /\ UnitSound(z) /\ LocksSound(z)
  BY DEF CInv, UnitsSound, UnitLocks
<1>0. CASE UNCHANGED Claims!vars
  BY <1>0, <1>a DEF Claims!vars, CTyped, LocksSound, UnitSound, OnWay, UnitRow,
      Claims!HeldByOther
<1> DEFINE Goal == LocksSound(z)'
<1>1. ASSUME NEW w \in Work, Claims!Claim(w)
      PROVE  Goal
  BY <1>1, <1>a DEF Claims!Claim, CTyped, LocksSound, UnitSound, OnWay, UnitRow,
      Claims!HeldByOther
<1>2. ASSUME NEW w \in Work, Claims!ClaimAccounts(w)
      PROVE  Goal
  BY <1>2, <1>a DEF Claims!ClaimAccounts, CTyped, LocksSound, UnitSound, OnWay, UnitRow,
      Claims!HeldByOther
<1>3. ASSUME NEW w \in Work, Claims!TakeUser(w)
      PROVE  Goal
  BY <1>3, <1>a DEF Claims!TakeUser, CTyped, LocksSound, UnitSound, OnWay, UnitRow,
      Claims!HeldByOther
<1>4. ASSUME NEW w \in Work, Claims!InsertAccount(w)
      PROVE  Goal
  BY <1>4, <1>a DEF Claims!InsertAccount, CTyped, LocksSound, UnitSound, OnWay, UnitRow,
      Claims!HeldByOther
<1>5. ASSUME NEW w \in Work, Claims!SaveIdentity(w)
      PROVE  Goal
  BY <1>5, <1>a DEF Claims!SaveIdentity, CTyped, LocksSound, UnitSound, OnWay, UnitRow,
      Claims!HeldByOther
<1>6. ASSUME NEW w \in Work, Claims!PutCode(w)
      PROVE  Goal
  <2>1. /\ held' = [held EXCEPT ![w] = {}]
        /\ \/ work' = [work EXCEPT ![w].pc = "done"]
           \/ work' = [work EXCEPT ![w].pc = "refused"]
    BY <1>6 DEF Claims!PutCode
  <2>2. CASE z = w
    <3>1. held'[z] = {} /\ work'[z].pc \notin OnWay
      BY <2>1, <2>2, <1>a DEF CTyped, UnitRow, OnWay
    <3> QED BY <3>1 DEF LocksSound, OnWay
  <2>3. CASE z # w
    BY <2>1, <2>3, <1>a DEF CTyped, LocksSound, Claims!HeldByOther
  <2> QED BY <2>2, <2>3
<1>7. ASSUME NEW w \in Work, Claims!ConsumeCode(w)
      PROVE  Goal
  BY <1>7, <1>a DEF Claims!ConsumeCode, CTyped, LocksSound, UnitSound, OnWay, UnitRow,
      Claims!HeldByOther
<1>8. ASSUME NEW w \in Work, Claims!HoldsLiveClaim(w)
      PROVE  Goal
  BY <1>8, <1>a DEF Claims!HoldsLiveClaim, CTyped, LocksSound, UnitSound, OnWay,
      UnitRow, Claims!HeldByOther
<1>9. ASSUME NEW w \in Work, Claims!ConfirmAddress(w)
      PROVE  Goal
  BY <1>9, <1>a DEF Claims!ConfirmAddress, CTyped, LocksSound, UnitSound, OnWay,
      UnitRow, Claims!HeldByOther
<1>10. ASSUME NEW w \in Work, Claims!Abort(w)
      PROVE  Goal
  BY <1>10, <1>a DEF Claims!Abort, CTyped, LocksSound, UnitSound, OnWay, UnitRow,
      Claims!HeldByOther
<1>11. ASSUME NEW w \in Work, NEW a \in Addr, Claims!CreateAccount(w, a)
      PROVE  Goal
  BY <1>11, <1>a DEF Claims!CreateAccount, CTyped, LocksSound, UnitSound, OnWay,
      UnitRow, Claims!HeldByOther
<1>12. ASSUME NEW w \in Work, NEW a \in Addr, Claims!Confirm(w, a)
      PROVE  Goal
  BY <1>12, <1>a DEF Claims!Confirm, CTyped, LocksSound, UnitSound, OnWay, UnitRow,
      Claims!HeldByOther
<1>13. ASSUME NEW w \in Work, NEW u \in User, NEW a \in Addr, Claims!UpdateUser(w, u, a)
      PROVE  Goal
  BY <1>13, <1>a DEF Claims!UpdateUser, CTyped, LocksSound, UnitSound, OnWay, UnitRow,
      Claims!HeldByOther
<1>14. ASSUME NEW w \in Work, NEW u \in User, Claims!SendConfirmation(w, u)
      PROVE  Goal
  BY <1>14, <1>a DEF Claims!SendConfirmation, CTyped, LocksSound, UnitSound, OnWay,
      UnitRow, Claims!HeldByOther
<1>15. ASSUME NEW u \in User, Claims!Deactivate(u)
      PROVE  Goal
  BY <1>15, <1>a DEF Claims!Deactivate, CTyped, LocksSound, UnitSound, OnWay, UnitRow,
      Claims!HeldByOther
<1>16. ASSUME Claims!Tick
      PROVE  Goal
  BY <1>16, <1>a DEF Claims!Tick, CTyped, LocksSound, UnitSound, OnWay, UnitRow,
      Claims!HeldByOther
<1> QED
  BY <1>0, <1>1, <1>2, <1>3, <1>4, <1>5, <1>6, <1>7, <1>8, <1>9, <1>10, <1>11, <1>12,
      <1>13, <1>14, <1>15, <1>16 DEF Claims!Next

LEMMA FoundStep ==
  ASSUME NEW z, Claims!ClaimsAssumption, CInv, [Claims!Next]_Claims!vars, z \in Work
  PROVE  FoundSound(z)'
<1>a. CTyped /\ UnitSound(z) /\ LocksSound(z) /\ FoundSound(z)
  BY DEF CInv, UnitsSound, UnitLocks, UnitsFound
<1>b. User \cap Work = {} /\ None \notin User \cup Work \cup Addr
  BY DEF Claims!ClaimsAssumption
<1> DEFINE Goal == FoundSound(z)'
<1>c. ASSUME work'[z] = work[z], held'[z] = held[z]
      PROVE  Goal
  <2>1. <<"user", work[z].user>> \in held[z] => acct'[work[z].user] = acct[work[z].user]
    <3> SUFFICES ASSUME <<"user", work[z].user>> \in held[z]
                 PROVE  acct'[work[z].user] = acct[work[z].user]
      OBVIOUS
    <3>1. work[z].user \in User
      <4>1. work[z].user \in User \cup {None} /\ held[z] \in SUBSET ({"claim", "user",
              "code"} \X (Addr \cup User))
        BY <1>a DEF CTyped, UnitRow
      <4>2. work[z].user \in Addr \cup User
        BY <4>1
      <4> QED BY <4>1, <4>2, <1>b
    <3> QED BY <3>1, <1>c, UserLockKeeps
  <2>2. <<"claim", work[z].addr>> \in held[z] /\ work[z].addr \in Addr =>
          /\ claim'[work[z].addr] = claim[work[z].addr]
          /\ \A x \in User \cup Work :
               acct'[x].email = work[z].addr => acct[x].email = work[z].addr
    BY <1>c, ClaimLockKeeps
  <2>3. work[z].pc \in OnWay => work[z].addr \in Addr
    BY <1>a DEF UnitSound
  <2> HIDE DEF Claims!vars
  <2>4. (<<"user", work[z].user>> \in held[z] =>
          /\ acct[work[z].user].live /\ acct[work[z].user].gen = work[z].gen
          /\ work[z].kind \in {"send", "confirm"}
               => acct[work[z].user].pending = work[z].addr)'
    BY <2>1, <1>a, <1>c DEF FoundSound
  <2>5. ASSUME work[z].pc \in {"accounts", "write"}
        PROVE  /\ claim'[work[z].addr] = claim[work[z].addr]
               /\ \A x \in User \cup Work :
                    acct'[x].email = work[z].addr => acct[x].email = work[z].addr
    <3>1. work[z].kind # "confirm" \/ work[z].pc = "write"
      BY <2>5, <1>a DEF UnitSound, OnWay
    <3>2. <<"claim", work[z].addr>> \in held[z]
      BY <3>1, <2>5, <1>a DEF LocksSound
    <3> QED BY <2>2, <2>3, <2>5, <3>2 DEF OnWay
  <2> QED BY <2>4, <2>5, <1>a, <1>c
          DEF FoundSound, LocksSound, Claims!OnAddress, Claims!Account, Claims!Owner
<1>0. CASE UNCHANGED Claims!vars
  BY <1>0, <1>a, <1>b, <1>c DEF Claims!vars, CTyped, UnitRow, FoundSound, LocksSound,
      UnitSound, OnWay, Claims!Owner
<1>1. ASSUME NEW w \in Work, Claims!Claim(w)
      PROVE  Goal
  BY <1>1, <1>a, <1>b, <1>c DEF Claims!Claim, CTyped, UnitRow, FoundSound, LocksSound,
      UnitSound, OnWay, Claims!Owner
<1>2. ASSUME NEW w \in Work, Claims!ClaimAccounts(w)
      PROVE  Goal
  <2>1. CASE z # w
    BY <1>2, <2>1, <1>a, <1>c DEF Claims!ClaimAccounts, CTyped
  <2>2. CASE z = w
    <3>1. CASE Claims!OnAddress(work[w].addr) \subseteq {Claims!Owner(w)}
      <4>1. /\ work'[z] = [work[z] EXCEPT !.pc = "write"] /\ work[z].pc = "accounts"
            /\ UNCHANGED <<acct, claim, rec, held>>
        BY <1>2, <2>2, <3>1, <1>a DEF Claims!ClaimAccounts, CTyped
      <4>2. /\ work'[z].pc = "write" /\ work'[z].kind = work[z].kind
            /\ work'[z].addr = work[z].addr /\ work'[z].user = work[z].user
            /\ work'[z].at = work[z].at /\ work'[z].gen = work[z].gen
        BY <4>1, <1>a DEF CTyped, UnitRow
      <4>3. work[z].kind # "confirm"
        BY <4>1, <1>a DEF UnitSound, OnWay
      <4> QED BY <2>2, <3>1, <4>1, <4>2, <4>3, <1>a
              DEF FoundSound, Claims!OnAddress, Claims!Owner
    <3>2. CASE ~(Claims!OnAddress(work[w].addr) \subseteq {Claims!Owner(w)})
      <4>1. work'[z].pc = "taken" /\ held'[z] = {}
        BY <1>2, <2>2, <3>2, <1>a DEF Claims!ClaimAccounts, CTyped, UnitRow
      <4> QED BY <4>1 DEF FoundSound
    <3> QED BY <3>1, <3>2
  <2> QED BY <2>1, <2>2
<1>3. ASSUME NEW w \in Work, Claims!TakeUser(w)
      PROVE  Goal
  BY <1>3, <1>a, <1>b, <1>c DEF Claims!TakeUser, CTyped, UnitRow, FoundSound,
      LocksSound, UnitSound, OnWay, Claims!Owner
<1>4. ASSUME NEW w \in Work, Claims!InsertAccount(w)
      PROVE  Goal
  BY <1>4, <1>a, <1>b, <1>c DEF Claims!InsertAccount, CTyped, UnitRow, FoundSound,
      LocksSound, UnitSound, OnWay, Claims!Owner
<1>5. ASSUME NEW w \in Work, Claims!SaveIdentity(w)
      PROVE  Goal
  <2>1. CASE z # w
    BY <1>5, <2>1, <1>a, <1>c DEF Claims!SaveIdentity, CTyped
  <2>2. CASE z = w
    BY <1>5, <2>2, <1>a, <1>b DEF Claims!SaveIdentity, CTyped, UnitRow, FoundSound,
        LocksSound, UnitSound, OnWay, Claims!Owner
  <2> QED BY <2>1, <2>2
<1>6. ASSUME NEW w \in Work, Claims!PutCode(w)
      PROVE  Goal
  BY <1>6, <1>a, <1>b, <1>c DEF Claims!PutCode, CTyped, UnitRow, FoundSound, LocksSound,
      UnitSound, OnWay, Claims!Owner
<1>7. ASSUME NEW w \in Work, Claims!ConsumeCode(w)
      PROVE  Goal
  BY <1>7, <1>a, <1>b, <1>c DEF Claims!ConsumeCode, CTyped, UnitRow, FoundSound,
      LocksSound, UnitSound, OnWay, Claims!Owner
<1>8. ASSUME NEW w \in Work, Claims!HoldsLiveClaim(w)
      PROVE  Goal
  BY <1>8, <1>a, <1>b, <1>c DEF Claims!HoldsLiveClaim, CTyped, UnitRow, FoundSound,
      LocksSound, UnitSound, OnWay, Claims!Owner
<1>9. ASSUME NEW w \in Work, Claims!ConfirmAddress(w)
      PROVE  Goal
  BY <1>9, <1>a, <1>b, <1>c DEF Claims!ConfirmAddress, CTyped, UnitRow, FoundSound,
      LocksSound, UnitSound, OnWay, Claims!Owner
<1>10. ASSUME NEW w \in Work, Claims!Abort(w)
      PROVE  Goal
  BY <1>10, <1>a, <1>b, <1>c DEF Claims!Abort, CTyped, UnitRow, FoundSound, LocksSound,
      UnitSound, OnWay, Claims!Owner
<1>11. ASSUME NEW w \in Work, NEW a \in Addr, Claims!CreateAccount(w, a)
      PROVE  Goal
  BY <1>11, <1>a, <1>b, <1>c DEF Claims!CreateAccount, CTyped, UnitRow, FoundSound,
      LocksSound, UnitSound, OnWay, Claims!Owner
<1>12. ASSUME NEW w \in Work, NEW a \in Addr, Claims!Confirm(w, a)
      PROVE  Goal
  BY <1>12, <1>a, <1>b, <1>c DEF Claims!Confirm, CTyped, UnitRow, FoundSound,
      LocksSound, UnitSound, OnWay, Claims!Owner
<1>13. ASSUME NEW w \in Work, NEW u \in User, NEW a \in Addr, Claims!UpdateUser(w, u, a)
      PROVE  Goal
  BY <1>13, <1>a, <1>b, <1>c DEF Claims!UpdateUser, CTyped, UnitRow, FoundSound,
      LocksSound, UnitSound, OnWay, Claims!Owner
<1>14. ASSUME NEW w \in Work, NEW u \in User, Claims!SendConfirmation(w, u)
      PROVE  Goal
  BY <1>14, <1>a, <1>b, <1>c DEF Claims!SendConfirmation, CTyped, UnitRow, FoundSound,
      LocksSound, UnitSound, OnWay, Claims!Owner
<1>15. ASSUME NEW u \in User, Claims!Deactivate(u)
      PROVE  Goal
  BY <1>15, <1>a, <1>b, <1>c DEF Claims!Deactivate, CTyped, UnitRow, FoundSound,
      LocksSound, UnitSound, OnWay, Claims!Owner
<1>16. ASSUME Claims!Tick
      PROVE  Goal
  BY <1>16, <1>a, <1>b, <1>c DEF Claims!Tick, CTyped, UnitRow, FoundSound, LocksSound,
      UnitSound, OnWay, Claims!Owner
<1> QED
  BY <1>0, <1>1, <1>2, <1>3, <1>4, <1>5, <1>6, <1>7, <1>8, <1>9, <1>10, <1>11, <1>12,
      <1>13, <1>14, <1>15, <1>16 DEF Claims!Next

(* What the commit of a new account does.                                 *)
LEMMA InsertDoes ==
  ASSUME Claims!ClaimsAssumption, CInv, NEW w \in Work, Claims!InsertAccount(w),
         NEW a, a = work[w].addr
  PROVE  /\ a \in Addr /\ rec' = rec /\ now' = now
         /\ Claims!OnAddress(a) = {} /\ (claim[a].owner \in {None, w}
              \/ claim[a].lapses <= now)
         /\ \A x \in User \cup Work : x # w => acct'[x] = acct[x]
         /\ acct'[w].email = a /\ w \notin User
         /\ claim'[a] = Claims!NoClaim /\ \A b \in Addr : b # a => claim'[b] = claim[b]
<1>a. CTyped /\ UnitSound(w) /\ LocksSound(w) /\ FoundSound(w) /\ work[w] \in UnitRow
  BY DEF CInv, CTyped, UnitsSound, UnitLocks, UnitsFound
<1>b. User \cap Work = {} /\ None \notin User \cup Work \cup Addr
  BY DEF Claims!ClaimsAssumption
<1>u. work[w].addr \in Addr /\ (work[w].kind # "create" => work[w].user \in User)
  BY <1>a DEF Claims!InsertAccount, UnitSound, OnWay
<1>1. Claims!OnAddress(a) = {}
  <2>1. Claims!OnAddress(a) \subseteq {w} /\ acct[w].email # a
    BY <1>a, <1>b, <1>u DEF Claims!InsertAccount, FoundSound, UnitSound, Claims!Owner
  <2> QED BY <2>1 DEF Claims!OnAddress
<1>2. /\ acct' = [acct EXCEPT ![w].live = TRUE, ![w].email = a]
      /\ claim' = [claim EXCEPT ![a] = Claims!NoClaim] /\ rec' = rec /\ now' = now
  BY <1>1 DEF Claims!InsertAccount
<1>3. claim[a].owner \in {None, w} \/ claim[a].lapses <= now
  <2>1. claim[a] \in ClaimRow /\ now \in Nat /\ work[w].at \in Nat /\ work[w].at <= now
    BY <1>a, <1>u DEF CTyped, UnitSound, UnitRow
  <2> QED BY <2>1, <1>a DEF FoundSound, ClaimRow, Claims!InsertAccount, Claims!Owner
<1>4. acct'[w].email = a
  <2>1. acct[w] \in AccountRow
    BY <1>a DEF CTyped
  <2> QED BY <2>1, <1>2, <1>a DEF CTyped, AccountRow
<1> QED BY <1>1, <1>2, <1>3, <1>4, <1>a, <1>b, <1>u DEF CTyped

(* What the commit of a save does ...                                     *)
LEMMA SaveDoes ==
  ASSUME Claims!ClaimsAssumption, CInv, NEW w \in Work, Claims!SaveIdentity(w),
         NEW u, u = work[w].user, NEW a, a = work[w].addr
  PROVE  /\ a \in Addr /\ u \in User /\ rec' = rec /\ now' = now
         /\ Claims!OnAddress(a) \subseteq {u}
         /\ claim[a].owner \in {None, u} \/ claim[a].lapses <= now
         /\ \A x \in User \cup Work : x # u => acct'[x] = acct[x]
         /\ acct'[u].pending = a /\ acct'[u].email = acct[u].email
         /\ acct'[u].gen = acct[u].gen + 1
         /\ claim'[a].owner = u
         /\ \A b \in Addr \ {a} : claim'[b] = IF b = acct[u].pending /\ claim[b].owner = u
                                             THEN Claims!NoClaim ELSE claim[b]
<1>a. CTyped /\ UnitSound(w) /\ LocksSound(w) /\ FoundSound(w) /\ work[w] \in UnitRow
  BY DEF CInv, CTyped, UnitsSound, UnitLocks, UnitsFound
<1>b. User \cap Work = {} /\ None \notin User \cup Work \cup Addr
  BY DEF Claims!ClaimsAssumption
<1>u. work[w].addr \in Addr /\ (work[w].kind # "create" => work[w].user \in User)
  BY <1>a DEF Claims!SaveIdentity, UnitSound, OnWay
<1>1. u \in User /\ work[w].kind = "save" /\ work[w].pc = "write"
  BY <1>u DEF Claims!SaveIdentity
<1>2. claim[a].owner \in {None, u} \/ claim[a].lapses <= now
  <2>1. claim[a] \in ClaimRow /\ now \in Nat /\ work[w].at \in Nat /\ work[w].at <= now
    BY <1>a, <1>u DEF CTyped, UnitSound, UnitRow
  <2> QED BY <2>1, <1>1, <1>a DEF FoundSound, ClaimRow, Claims!Owner
<1>3. Claims!OnAddress(a) \subseteq {u}
  BY <1>1, <1>a DEF FoundSound, Claims!Owner
<1>4. /\ acct'[u].pending = a /\ acct'[u].email = acct[u].email
      /\ acct'[u].gen = acct[u].gen + 1
  <2>1. acct[u] \in AccountRow /\ u \in User \cup Work
    BY <1>1, <1>a DEF CTyped
  <2>2. acct' = [acct EXCEPT ![u].pending = a, ![u].gen = @ + 1]
    BY DEF Claims!SaveIdentity
  <2> QED BY <2>1, <2>2, <1>a DEF CTyped, AccountRow
<1>5. \A x \in User \cup Work : x # u => acct'[x] = acct[x]
  BY <1>a DEF Claims!SaveIdentity, CTyped
<1>6. /\ claim'[a].owner = u
      /\ \A b \in Addr \ {a} : claim'[b] = IF b = acct[u].pending /\ claim[b].owner = u
                                          THEN Claims!NoClaim ELSE claim[b]
  BY <1>u, <1>b DEF Claims!SaveIdentity, Claims!Released
<1>7. rec' = rec /\ now' = now
  BY DEF Claims!SaveIdentity
<1> QED BY <1>1, <1>2, <1>3, <1>4, <1>5, <1>6, <1>7, <1>u

(* ... of a code, unless it is refused ...                                *)
LEMMA PutDoes ==
  ASSUME Claims!ClaimsAssumption, CInv, NEW w \in Work, Claims!PutCode(w),
         NEW u, u = work[w].user, NEW a, a = work[w].addr
  PROVE  /\ a \in Addr /\ u \in User /\ acct' = acct /\ now' = now
         /\ Claims!OnAddress(a) \subseteq {u} /\ acct[u].pending = a
         /\ work[w].exp \in Nat
         /\ \/ rec' = rec /\ claim' = claim
            \/ /\ claim'[a] = [owner |-> u, lapses |-> work[w].exp]
               /\ \A b \in Addr : b # a => claim'[b] = claim[b]
               /\ rec'[a] =
                      [code |-> w, user |-> u, gen |-> acct[u].gen, exp |-> work[w].exp]
               /\ \A b \in Addr : b # a => rec'[b] = rec[b]
<1>a. CTyped /\ UnitSound(w) /\ LocksSound(w) /\ FoundSound(w) /\ work[w] \in UnitRow
  BY DEF CInv, CTyped, UnitsSound, UnitLocks, UnitsFound
<1>b. User \cap Work = {} /\ None \notin User \cup Work \cup Addr
  BY DEF Claims!ClaimsAssumption
<1>u. work[w].addr \in Addr /\ (work[w].kind # "create" => work[w].user \in User)
  BY <1>a DEF Claims!PutCode, UnitSound, OnWay
<1>1. u \in User /\ work[w].kind = "send" /\ work[w].pc = "write"
  BY <1>u DEF Claims!PutCode
<1>2. Claims!OnAddress(a) \subseteq {u} /\ acct[u].pending = a
        /\ acct[u].gen = work[w].gen
      /\ work[w].exp \in Nat
  BY <1>1, <1>a DEF FoundSound, LocksSound, Claims!Owner, UnitRow
<1>3. CASE rec[a].user = u /\ rec[a].gen > work[w].gen
  BY <1>1, <1>2, <1>3, <1>u DEF Claims!PutCode
<1>4. CASE ~(rec[a].user = u /\ rec[a].gen > work[w].gen)
  <2>1. /\ claim' = [claim EXCEPT ![a] = [owner |-> u, lapses |-> work[w].exp]]
        /\ rec' = [rec EXCEPT ![a] = [code |-> w, user |-> u, gen |-> work[w].gen,
                                      exp |-> work[w].exp]]
        /\ acct' = acct /\ now' = now
    BY <1>4 DEF Claims!PutCode, Claims!ClaimedUntil
  <2> QED BY <2>1, <1>1, <1>2, <1>a, <1>u DEF CTyped
<1> QED BY <1>3, <1>4

(* ... and of a confirmation.                                             *)
LEMMA ConfirmDoes ==
  ASSUME Claims!ClaimsAssumption, CInv, NEW w \in Work, Claims!ConfirmAddress(w),
         NEW u, u = work[w].user, NEW a, a = work[w].addr
  PROVE  /\ a \in Addr /\ u \in User /\ now' = now
         /\ claim[a].owner = u /\ Claims!OnAddress(a) \subseteq {u}
         /\ \A x \in User \cup Work : x # u => acct'[x] = acct[x]
         /\ acct[u].pending = a /\ acct'[u].email = a /\ acct'[u].pending = None
         /\ acct'[u].gen = acct[u].gen
         /\ claim'[a] = Claims!NoClaim /\ \A b \in Addr : b # a => claim'[b] = claim[b]
         /\ rec'[a] = Claims!NoCode /\ \A b \in Addr : b # a => rec'[b] = rec[b]
<1>a. CTyped /\ UnitSound(w) /\ LocksSound(w) /\ FoundSound(w) /\ work[w] \in UnitRow
  BY DEF CInv, CTyped, UnitsSound, UnitLocks, UnitsFound
<1>b. User \cap Work = {} /\ None \notin User \cup Work \cup Addr
  BY DEF Claims!ClaimsAssumption
<1>u. work[w].addr \in Addr /\ (work[w].kind # "create" => work[w].user \in User)
  BY <1>a DEF Claims!ConfirmAddress, UnitSound, OnWay
<1>1. u \in User /\ work[w].kind = "confirm" /\ work[w].pc = "write"
  BY <1>u DEF Claims!ConfirmAddress
<1>2. claim[a].owner = u /\ acct[u].pending = a
  BY <1>1, <1>a DEF FoundSound, LocksSound
<1>3. Claims!OnAddress(a) \subseteq {u}
  BY <1>1, <1>2, <1>b, <1>u DEF CInv, ClaimsSound, ClaimKeepsOff
<1>4. /\ acct' = [acct EXCEPT ![u].email = a, ![u].pending = None]
      /\ claim' =
           [claim EXCEPT ![a] = IF claim[a].owner = u THEN Claims!NoClaim ELSE claim[a]]
      /\ rec' = [rec EXCEPT ![a] = Claims!NoCode] /\ now' = now
  BY <1>3 DEF Claims!ConfirmAddress
<1>5. /\ acct'[u].email = a /\ acct'[u].pending = None
      /\ acct'[u].gen = acct[u].gen
  <2>1. acct[u] \in AccountRow /\ u \in User \cup Work
    BY <1>1, <1>a DEF CTyped
  <2> QED BY <2>1, <1>4, <1>a DEF CTyped, AccountRow
<1> QED BY <1>1, <1>2, <1>3, <1>4, <1>5, <1>a, <1>u DEF CTyped

LEMMA KeepsOffStep ==
  ASSUME NEW b, Claims!ClaimsAssumption, CInv, [Claims!Next]_Claims!vars, b \in Addr
  PROVE  ClaimKeepsOff(b)'
<1>a. CTyped /\ \A w \in Work : UnitSound(w) /\ LocksSound(w) /\ FoundSound(w)
  BY DEF CInv, UnitsSound, UnitLocks, UnitsFound
<1>b. User \cap Work = {} /\ None \notin User \cup Work \cup Addr
  BY DEF Claims!ClaimsAssumption
<1>c. ClaimKeepsOff(b)
  BY DEF CInv, ClaimsSound
<1>0. CASE UNCHANGED Claims!vars
  BY <1>0, <1>a, <1>b, <1>c DEF Claims!vars, CTyped, ClaimKeepsOff, Claims!OnAddress,
      Claims!Account
<1> DEFINE Goal == ClaimKeepsOff(b)'
<1>1. ASSUME NEW w \in Work, Claims!Claim(w)
      PROVE  Goal
  BY <1>1, <1>a, <1>b, <1>c DEF Claims!Claim, CTyped, ClaimKeepsOff, Claims!OnAddress,
      Claims!Account
<1>2. ASSUME NEW w \in Work, Claims!ClaimAccounts(w)
      PROVE  Goal
  BY <1>2, <1>a, <1>b, <1>c DEF Claims!ClaimAccounts, CTyped, ClaimKeepsOff,
      Claims!OnAddress, Claims!Account
<1>3. ASSUME NEW w \in Work, Claims!TakeUser(w)
      PROVE  Goal
  BY <1>3, <1>a, <1>b, <1>c DEF Claims!TakeUser, CTyped, ClaimKeepsOff,
      Claims!OnAddress, Claims!Account
<1>4. ASSUME NEW w \in Work, Claims!InsertAccount(w)
      PROVE  Goal
  BY <1>4, <1>a, <1>b, <1>c, InsertDoes DEF ClaimKeepsOff, Claims!OnAddress,
      Claims!Account, Claims!NoClaim
<1>5. ASSUME NEW w \in Work, Claims!SaveIdentity(w)
      PROVE  Goal
  BY <1>5, <1>a, <1>b, <1>c, SaveDoes
     DEF ClaimKeepsOff, Claims!OnAddress, Claims!Account,
      Claims!NoClaim
<1>6. ASSUME NEW w \in Work, Claims!PutCode(w)
      PROVE  Goal
  <2>1. PICK a, u : a = work[w].addr /\ u = work[w].user
    OBVIOUS
  <2>2. /\ a \in Addr /\ u \in User /\ acct' = acct /\ now' = now
        /\ Claims!OnAddress(a) \subseteq {u} /\ acct[u].pending = a
        /\ work[w].exp \in Nat
        /\ \/ rec' = rec /\ claim' = claim
           \/ /\ claim'[a] = [owner |-> u, lapses |-> work[w].exp]
              /\ \A c \in Addr : c # a => claim'[c] = claim[c]
              /\ rec'[a] =
                     [code |-> w, user |-> u, gen |-> acct[u].gen, exp |-> work[w].exp]
              /\ \A c \in Addr : c # a => rec'[c] = rec[c]
    BY <1>6, <2>1, PutDoes
  <2>3. CASE b = a
    BY <2>2, <2>3, <1>a, <1>b, <1>c DEF ClaimKeepsOff, Claims!OnAddress, Claims!Account,
        Claims!NoClaim
  <2>4. CASE b # a
    BY <2>2, <2>4, <1>a, <1>b, <1>c DEF ClaimKeepsOff, Claims!OnAddress, Claims!Account,
        Claims!NoClaim
  <2> QED BY <2>3, <2>4
<1>7. ASSUME NEW w \in Work, Claims!ConsumeCode(w)
      PROVE  Goal
  BY <1>7, <1>a, <1>b, <1>c DEF Claims!ConsumeCode, CTyped, ClaimKeepsOff,
      Claims!OnAddress, Claims!Account
<1>8. ASSUME NEW w \in Work, Claims!HoldsLiveClaim(w)
      PROVE  Goal
  BY <1>8, <1>a, <1>b, <1>c DEF Claims!HoldsLiveClaim, CTyped, ClaimKeepsOff,
      Claims!OnAddress, Claims!Account
<1>9. ASSUME NEW w \in Work, Claims!ConfirmAddress(w)
      PROVE  Goal
  BY <1>9, <1>a, <1>b, <1>c, ConfirmDoes DEF ClaimKeepsOff, Claims!OnAddress,
      Claims!Account, Claims!NoClaim
<1>10. ASSUME NEW w \in Work, Claims!Abort(w)
      PROVE  Goal
  BY <1>10, <1>a, <1>b, <1>c DEF Claims!Abort, CTyped, ClaimKeepsOff, Claims!OnAddress,
      Claims!Account
<1>11. ASSUME NEW w \in Work, NEW a \in Addr, Claims!CreateAccount(w, a)
      PROVE  Goal
  BY <1>11, <1>a, <1>b, <1>c DEF Claims!CreateAccount, CTyped, ClaimKeepsOff,
      Claims!OnAddress, Claims!Account
<1>12. ASSUME NEW w \in Work, NEW a \in Addr, Claims!Confirm(w, a)
      PROVE  Goal
  BY <1>12, <1>a, <1>b, <1>c DEF Claims!Confirm, CTyped, ClaimKeepsOff,
      Claims!OnAddress, Claims!Account
<1>13. ASSUME NEW w \in Work, NEW u \in User, NEW a \in Addr, Claims!UpdateUser(w, u, a)
      PROVE  Goal
  BY <1>13, <1>a, <1>b, <1>c DEF Claims!UpdateUser, CTyped, ClaimKeepsOff,
      Claims!OnAddress, Claims!Account
<1>14. ASSUME NEW w \in Work, NEW u \in User, Claims!SendConfirmation(w, u)
      PROVE  Goal
  BY <1>14, <1>a, <1>b, <1>c DEF Claims!SendConfirmation, CTyped, ClaimKeepsOff,
      Claims!OnAddress, Claims!Account
<1>15. ASSUME NEW u \in User, Claims!Deactivate(u)
      PROVE  Goal
  BY <1>15, <1>a, <1>b, <1>c DEF Claims!Deactivate, CTyped, ClaimKeepsOff,
      Claims!OnAddress, Claims!Account, AccountRow
<1>16. ASSUME Claims!Tick
      PROVE  Goal
  BY <1>16, <1>a, <1>b, <1>c DEF Claims!Tick, CTyped, ClaimKeepsOff, Claims!OnAddress,
      Claims!Account
<1> QED
  BY <1>0, <1>1, <1>2, <1>3, <1>4, <1>5, <1>6, <1>7, <1>8, <1>9, <1>10, <1>11, <1>12,
      <1>13, <1>14, <1>15, <1>16 DEF Claims!Next

LEMMA IsPendingStep ==
  ASSUME NEW b, Claims!ClaimsAssumption, CInv, [Claims!Next]_Claims!vars, b \in Addr
  PROVE  ClaimIsPending(b)'
<1>a. CTyped /\ \A w \in Work : UnitSound(w) /\ LocksSound(w) /\ FoundSound(w)
  BY DEF CInv, UnitsSound, UnitLocks, UnitsFound
<1>b. User \cap Work = {} /\ None \notin User \cup Work \cup Addr
  BY DEF Claims!ClaimsAssumption
<1>c. ClaimIsPending(b)
  BY DEF CInv, ClaimsSound
<1>0. CASE UNCHANGED Claims!vars
  BY <1>0, <1>a, <1>b, <1>c DEF Claims!vars, CTyped, ClaimIsPending
<1> DEFINE Goal == ClaimIsPending(b)'
<1>1. ASSUME NEW w \in Work, Claims!Claim(w)
      PROVE  Goal
  BY <1>1, <1>a, <1>b, <1>c DEF Claims!Claim, CTyped, ClaimIsPending
<1>2. ASSUME NEW w \in Work, Claims!ClaimAccounts(w)
      PROVE  Goal
  BY <1>2, <1>a, <1>b, <1>c DEF Claims!ClaimAccounts, CTyped, ClaimIsPending
<1>3. ASSUME NEW w \in Work, Claims!TakeUser(w)
      PROVE  Goal
  BY <1>3, <1>a, <1>b, <1>c DEF Claims!TakeUser, CTyped, ClaimIsPending
<1>4. ASSUME NEW w \in Work, Claims!InsertAccount(w)
      PROVE  Goal
  BY <1>4, <1>a, <1>b, <1>c, InsertDoes DEF ClaimIsPending, Claims!NoClaim
<1>5. ASSUME NEW w \in Work, Claims!SaveIdentity(w)
      PROVE  Goal
  BY <1>5, <1>a, <1>b, <1>c, SaveDoes DEF ClaimIsPending, Claims!NoClaim
<1>6. ASSUME NEW w \in Work, Claims!PutCode(w)
      PROVE  Goal
  <2>1. PICK a, u : a = work[w].addr /\ u = work[w].user
    OBVIOUS
  <2>2. /\ a \in Addr /\ u \in User /\ acct' = acct /\ now' = now
        /\ Claims!OnAddress(a) \subseteq {u} /\ acct[u].pending = a
        /\ work[w].exp \in Nat
        /\ \/ rec' = rec /\ claim' = claim
           \/ /\ claim'[a] = [owner |-> u, lapses |-> work[w].exp]
              /\ \A c \in Addr : c # a => claim'[c] = claim[c]
              /\ rec'[a] =
                     [code |-> w, user |-> u, gen |-> acct[u].gen, exp |-> work[w].exp]
              /\ \A c \in Addr : c # a => rec'[c] = rec[c]
    BY <1>6, <2>1, PutDoes
  <2>3. CASE b = a
    BY <2>2, <2>3, <1>a, <1>b, <1>c DEF ClaimIsPending, Claims!NoClaim
  <2>4. CASE b # a
    BY <2>2, <2>4, <1>a, <1>b, <1>c DEF ClaimIsPending, Claims!NoClaim
  <2> QED BY <2>3, <2>4
<1>7. ASSUME NEW w \in Work, Claims!ConsumeCode(w)
      PROVE  Goal
  BY <1>7, <1>a, <1>b, <1>c DEF Claims!ConsumeCode, CTyped, ClaimIsPending
<1>8. ASSUME NEW w \in Work, Claims!HoldsLiveClaim(w)
      PROVE  Goal
  BY <1>8, <1>a, <1>b, <1>c DEF Claims!HoldsLiveClaim, CTyped, ClaimIsPending
<1>9. ASSUME NEW w \in Work, Claims!ConfirmAddress(w)
      PROVE  Goal
  <2>1. PICK a, u : a = work[w].addr /\ u = work[w].user
    OBVIOUS
  <2>2. /\ a \in Addr /\ u \in User /\ now' = now
        /\ \A x \in User \cup Work : x # u => acct'[x] = acct[x]
        /\ acct[u].pending = a /\ acct'[u].pending = None /\ acct'[u].gen = acct[u].gen
        /\ claim'[a] = Claims!NoClaim /\ \A c \in Addr : c # a => claim'[c] = claim[c]
        /\ rec'[a] = Claims!NoCode /\ \A c \in Addr : c # a => rec'[c] = rec[c]
    BY <1>9, <2>1, ConfirmDoes
  <2>3. CASE b = a
    BY <2>2, <2>3, <1>a, <1>b, <1>c DEF ClaimIsPending, Claims!NoClaim
  <2>4. CASE b # a
    BY <2>2, <2>4, <1>a, <1>b, <1>c DEF ClaimIsPending, Claims!NoClaim
  <2> QED BY <2>3, <2>4
<1>10. ASSUME NEW w \in Work, Claims!Abort(w)
      PROVE  Goal
  BY <1>10, <1>a, <1>b, <1>c DEF Claims!Abort, CTyped, ClaimIsPending
<1>11. ASSUME NEW w \in Work, NEW a \in Addr, Claims!CreateAccount(w, a)
      PROVE  Goal
  BY <1>11, <1>a, <1>b, <1>c DEF Claims!CreateAccount, CTyped, ClaimIsPending
<1>12. ASSUME NEW w \in Work, NEW a \in Addr, Claims!Confirm(w, a)
      PROVE  Goal
  BY <1>12, <1>a, <1>b, <1>c DEF Claims!Confirm, CTyped, ClaimIsPending
<1>13. ASSUME NEW w \in Work, NEW u \in User, NEW a \in Addr, Claims!UpdateUser(w, u, a)
      PROVE  Goal
  BY <1>13, <1>a, <1>b, <1>c DEF Claims!UpdateUser, CTyped, ClaimIsPending
<1>14. ASSUME NEW w \in Work, NEW u \in User, Claims!SendConfirmation(w, u)
      PROVE  Goal
  BY <1>14, <1>a, <1>b, <1>c DEF Claims!SendConfirmation, CTyped, ClaimIsPending
<1>15. ASSUME NEW u \in User, Claims!Deactivate(u)
      PROVE  Goal
  BY <1>15, <1>a, <1>b, <1>c DEF Claims!Deactivate, CTyped, ClaimIsPending, AccountRow
<1>16. ASSUME Claims!Tick
      PROVE  Goal
  BY <1>16, <1>a, <1>b, <1>c DEF Claims!Tick, CTyped, ClaimIsPending, ClaimRow
<1> QED
  BY <1>0, <1>1, <1>2, <1>3, <1>4, <1>5, <1>6, <1>7, <1>8, <1>9, <1>10, <1>11, <1>12,
      <1>13, <1>14, <1>15, <1>16 DEF Claims!Next

LEMMA OfUserStep ==
  ASSUME NEW b, Claims!ClaimsAssumption, CInv, [Claims!Next]_Claims!vars, b \in Addr
  PROVE  CodeOfUser(b)'
<1>a. CTyped /\ \A w \in Work : UnitSound(w) /\ LocksSound(w) /\ FoundSound(w)
  BY DEF CInv, UnitsSound, UnitLocks, UnitsFound
<1>b. User \cap Work = {} /\ None \notin User \cup Work \cup Addr
  BY DEF Claims!ClaimsAssumption
<1>c. CodeOfUser(b)
  BY DEF CInv, CodesClaimed
<1>0. CASE UNCHANGED Claims!vars
  BY <1>0, <1>a, <1>b, <1>c DEF Claims!vars, CTyped, CodeOfUser, AccountRow, CodeRow
<1> DEFINE Goal == CodeOfUser(b)'
<1>1. ASSUME NEW w \in Work, Claims!Claim(w)
      PROVE  Goal
  BY <1>1, <1>a, <1>b, <1>c DEF Claims!Claim, CTyped, CodeOfUser, AccountRow, CodeRow
<1>2. ASSUME NEW w \in Work, Claims!ClaimAccounts(w)
      PROVE  Goal
  BY <1>2, <1>a, <1>b, <1>c DEF Claims!ClaimAccounts, CTyped, CodeOfUser, AccountRow,
      CodeRow
<1>3. ASSUME NEW w \in Work, Claims!TakeUser(w)
      PROVE  Goal
  BY <1>3, <1>a, <1>b, <1>c DEF Claims!TakeUser, CTyped, CodeOfUser, AccountRow, CodeRow
<1>4. ASSUME NEW w \in Work, Claims!InsertAccount(w)
      PROVE  Goal
  BY <1>4, <1>a, <1>b, <1>c, InsertDoes
     DEF CodeOfUser, Claims!NoCode, CTyped, AccountRow,
      CodeRow
<1>5. ASSUME NEW w \in Work, Claims!SaveIdentity(w)
      PROVE  Goal
  BY SMTT(60), <1>5, <1>a, <1>b, <1>c, SaveDoes DEF CodeOfUser, Claims!NoCode, CTyped, AccountRow,
      CodeRow
<1>6. ASSUME NEW w \in Work, Claims!PutCode(w)
      PROVE  Goal
  <2>1. PICK a, u : a = work[w].addr /\ u = work[w].user
    OBVIOUS
  <2>2. /\ a \in Addr /\ u \in User /\ acct' = acct /\ now' = now
        /\ Claims!OnAddress(a) \subseteq {u} /\ acct[u].pending = a
        /\ work[w].exp \in Nat
        /\ \/ rec' = rec /\ claim' = claim
           \/ /\ claim'[a] = [owner |-> u, lapses |-> work[w].exp]
              /\ \A c \in Addr : c # a => claim'[c] = claim[c]
              /\ rec'[a] =
                     [code |-> w, user |-> u, gen |-> acct[u].gen, exp |-> work[w].exp]
              /\ \A c \in Addr : c # a => rec'[c] = rec[c]
    BY <1>6, <2>1, PutDoes
  <2>3. CASE b = a
    BY <2>2, <2>3, <1>a, <1>b, <1>c DEF CodeOfUser, Claims!NoCode, CTyped, AccountRow,
        CodeRow
  <2>4. CASE b # a
    BY <2>2, <2>4, <1>a, <1>b, <1>c DEF CodeOfUser, Claims!NoCode, CTyped, AccountRow,
        CodeRow
  <2> QED BY <2>3, <2>4
<1>7. ASSUME NEW w \in Work, Claims!ConsumeCode(w)
      PROVE  Goal
  BY <1>7, <1>a, <1>b, <1>c DEF Claims!ConsumeCode, CTyped, CodeOfUser, AccountRow,
      CodeRow
<1>8. ASSUME NEW w \in Work, Claims!HoldsLiveClaim(w)
      PROVE  Goal
  BY <1>8, <1>a, <1>b, <1>c DEF Claims!HoldsLiveClaim, CTyped, CodeOfUser, AccountRow,
      CodeRow
<1>9. ASSUME NEW w \in Work, Claims!ConfirmAddress(w)
      PROVE  Goal
  <2>1. PICK a, u : a = work[w].addr /\ u = work[w].user
    OBVIOUS
  <2>2. /\ a \in Addr /\ u \in User /\ now' = now
        /\ \A x \in User \cup Work : x # u => acct'[x] = acct[x]
        /\ acct[u].pending = a /\ acct'[u].pending = None /\ acct'[u].gen = acct[u].gen
        /\ claim'[a] = Claims!NoClaim /\ \A c \in Addr : c # a => claim'[c] = claim[c]
        /\ rec'[a] = Claims!NoCode /\ \A c \in Addr : c # a => rec'[c] = rec[c]
    BY <1>9, <2>1, ConfirmDoes
  <2>3. CASE b = a
    BY <2>2, <2>3, <1>a, <1>b, <1>c DEF CodeOfUser, Claims!NoCode, CTyped, AccountRow,
        CodeRow
  <2>4. CASE b # a
    BY <2>2, <2>4, <1>a, <1>b, <1>c DEF CodeOfUser, Claims!NoCode, CTyped, AccountRow,
        CodeRow
  <2> QED BY <2>3, <2>4
<1>10. ASSUME NEW w \in Work, Claims!Abort(w)
      PROVE  Goal
  BY <1>10, <1>a, <1>b, <1>c DEF Claims!Abort, CTyped, CodeOfUser, AccountRow, CodeRow
<1>11. ASSUME NEW w \in Work, NEW a \in Addr, Claims!CreateAccount(w, a)
      PROVE  Goal
  BY <1>11, <1>a, <1>b, <1>c DEF Claims!CreateAccount, CTyped, CodeOfUser, AccountRow,
      CodeRow
<1>12. ASSUME NEW w \in Work, NEW a \in Addr, Claims!Confirm(w, a)
      PROVE  Goal
  BY <1>12, <1>a, <1>b, <1>c DEF Claims!Confirm, CTyped, CodeOfUser, AccountRow, CodeRow
<1>13. ASSUME NEW w \in Work, NEW u \in User, NEW a \in Addr, Claims!UpdateUser(w, u, a)
      PROVE  Goal
  BY <1>13, <1>a, <1>b, <1>c DEF Claims!UpdateUser, CTyped, CodeOfUser, AccountRow,
      CodeRow
<1>14. ASSUME NEW w \in Work, NEW u \in User, Claims!SendConfirmation(w, u)
      PROVE  Goal
  BY <1>14, <1>a, <1>b, <1>c DEF Claims!SendConfirmation, CTyped, CodeOfUser,
      AccountRow, CodeRow
<1>15. ASSUME NEW u \in User, Claims!Deactivate(u)
      PROVE  Goal
  BY <1>15, <1>a, <1>b, <1>c DEF Claims!Deactivate, CTyped, CodeOfUser, AccountRow,
      CodeRow
<1>16. ASSUME Claims!Tick
      PROVE  Goal
  BY <1>16, <1>a, <1>b, <1>c DEF Claims!Tick, CTyped, CodeOfUser, AccountRow, CodeRow
<1> QED
  BY <1>0, <1>1, <1>2, <1>3, <1>4, <1>5, <1>6, <1>7, <1>8, <1>9, <1>10, <1>11, <1>12,
      <1>13, <1>14, <1>15, <1>16 DEF Claims!Next

LEMMA ClaimedStep ==
  ASSUME NEW b, Claims!ClaimsAssumption, CInv, [Claims!Next]_Claims!vars, b \in Addr
  PROVE  CodeClaimed(b)'
<1>a. CTyped /\ \A w \in Work : UnitSound(w) /\ LocksSound(w) /\ FoundSound(w)
  BY DEF CInv, UnitsSound, UnitLocks, UnitsFound
<1>b. User \cap Work = {} /\ None \notin User \cup Work \cup Addr
  BY DEF Claims!ClaimsAssumption
<1>c. CodeOfUser(b) /\ CodeClaimed(b)
  BY DEF CInv, CodesClaimed
<1>0. CASE UNCHANGED Claims!vars
  BY <1>0, <1>a, <1>b, <1>c DEF Claims!vars, CTyped, CodeClaimed, CodeOfUser
<1> DEFINE Goal == CodeClaimed(b)'
<1>1. ASSUME NEW w \in Work, Claims!Claim(w)
      PROVE  Goal
  BY <1>1, <1>a, <1>b, <1>c DEF Claims!Claim, CTyped, CodeClaimed, CodeOfUser
<1>2. ASSUME NEW w \in Work, Claims!ClaimAccounts(w)
      PROVE  Goal
  BY <1>2, <1>a, <1>b, <1>c DEF Claims!ClaimAccounts, CTyped, CodeClaimed, CodeOfUser
<1>3. ASSUME NEW w \in Work, Claims!TakeUser(w)
      PROVE  Goal
  BY <1>3, <1>a, <1>b, <1>c DEF Claims!TakeUser, CTyped, CodeClaimed, CodeOfUser
<1>4. ASSUME NEW w \in Work, Claims!InsertAccount(w)
      PROVE  Goal
  <2>1. PICK a, u : a = work[w].addr /\ u = work[w].user
    OBVIOUS
  <2>2. /\ a \in Addr /\ rec' = rec /\ now' = now /\ w \notin User
        /\ claim[a].owner \in {None, w} \/ claim[a].lapses <= now
        /\ \A x \in User \cup Work : x # w => acct'[x] = acct[x]
        /\ claim'[a] = Claims!NoClaim /\ \A c \in Addr : c # a => claim'[c] = claim[c]
    BY <1>4, <2>1, InsertDoes
  <2>3. CASE b = a
    BY <2>2, <2>3, <1>a, <1>b, <1>c DEF CodeClaimed, CodeOfUser, Claims!NoClaim,
        Claims!NoCode, CTyped, AccountRow, CodeRow, ClaimRow
  <2>4. CASE b # a
    BY <2>2, <2>4, <1>a, <1>b, <1>c DEF CodeClaimed, CodeOfUser, Claims!NoClaim,
        Claims!NoCode, CTyped, AccountRow, CodeRow, ClaimRow
  <2> QED BY <2>3, <2>4
<1>5. ASSUME NEW w \in Work, Claims!SaveIdentity(w)
      PROVE  Goal
  <2>1. PICK a, u : a = work[w].addr /\ u = work[w].user
    OBVIOUS
  <2>2. /\ a \in Addr /\ u \in User /\ rec' = rec /\ now' = now
        /\ claim[a].owner \in {None, u} \/ claim[a].lapses <= now
        /\ \A x \in User \cup Work : x # u => acct'[x] = acct[x]
        /\ acct'[u].pending = a /\ acct'[u].gen = acct[u].gen + 1
        /\ claim'[a].owner = u
        /\ \A c \in Addr \ {a} : claim'[c] = IF c = acct[u].pending /\ claim[c].owner = u
                                            THEN Claims!NoClaim ELSE claim[c]
    BY <1>5, <2>1, SaveDoes
  <2>3. CASE b = a
    BY <2>2, <2>3, <1>a, <1>b, <1>c DEF CodeClaimed, CodeOfUser, Claims!NoClaim,
        Claims!NoCode, CTyped, AccountRow, CodeRow, ClaimRow
  <2>4. CASE b # a
    BY <2>2, <2>4, <1>a, <1>b, <1>c DEF CodeClaimed, CodeOfUser, Claims!NoClaim,
        Claims!NoCode, CTyped, AccountRow, CodeRow, ClaimRow
  <2> QED BY <2>3, <2>4
<1>6. ASSUME NEW w \in Work, Claims!PutCode(w)
      PROVE  Goal
  <2>1. PICK a, u : a = work[w].addr /\ u = work[w].user
    OBVIOUS
  <2>2. /\ a \in Addr /\ u \in User /\ acct' = acct /\ now' = now
        /\ Claims!OnAddress(a) \subseteq {u} /\ acct[u].pending = a
        /\ work[w].exp \in Nat
        /\ \/ rec' = rec /\ claim' = claim
           \/ /\ claim'[a] = [owner |-> u, lapses |-> work[w].exp]
              /\ \A c \in Addr : c # a => claim'[c] = claim[c]
              /\ rec'[a] =
                     [code |-> w, user |-> u, gen |-> acct[u].gen, exp |-> work[w].exp]
              /\ \A c \in Addr : c # a => rec'[c] = rec[c]
    BY <1>6, <2>1, PutDoes
  <2>3. CASE b = a
    BY <2>2, <2>3, <1>a, <1>b, <1>c DEF CodeClaimed, CodeOfUser, Claims!NoClaim,
        Claims!NoCode, CTyped, AccountRow, CodeRow, ClaimRow
  <2>4. CASE b # a
    BY <2>2, <2>4, <1>a, <1>b, <1>c DEF CodeClaimed, CodeOfUser, Claims!NoClaim,
        Claims!NoCode, CTyped, AccountRow, CodeRow, ClaimRow
  <2> QED BY <2>3, <2>4
<1>7. ASSUME NEW w \in Work, Claims!ConsumeCode(w)
      PROVE  Goal
  BY <1>7, <1>a, <1>b, <1>c DEF Claims!ConsumeCode, CTyped, CodeClaimed, CodeOfUser
<1>8. ASSUME NEW w \in Work, Claims!HoldsLiveClaim(w)
      PROVE  Goal
  BY <1>8, <1>a, <1>b, <1>c DEF Claims!HoldsLiveClaim, CTyped, CodeClaimed, CodeOfUser
<1>9. ASSUME NEW w \in Work, Claims!ConfirmAddress(w)
      PROVE  Goal
  <2>1. PICK a, u : a = work[w].addr /\ u = work[w].user
    OBVIOUS
  <2>2. /\ a \in Addr /\ u \in User /\ now' = now
        /\ \A x \in User \cup Work : x # u => acct'[x] = acct[x]
        /\ acct[u].pending = a /\ acct'[u].pending = None /\ acct'[u].gen = acct[u].gen
        /\ claim'[a] = Claims!NoClaim /\ \A c \in Addr : c # a => claim'[c] = claim[c]
        /\ rec'[a] = Claims!NoCode /\ \A c \in Addr : c # a => rec'[c] = rec[c]
    BY <1>9, <2>1, ConfirmDoes
  <2>3. CASE b = a
    BY <2>2, <2>3, <1>a, <1>b, <1>c DEF CodeClaimed, CodeOfUser, Claims!NoClaim,
        Claims!NoCode, CTyped, AccountRow, CodeRow, ClaimRow
  <2>4. CASE b # a
    <3>1. rec'[b] = rec[b] /\ claim'[b] = claim[b] /\ now' = now
      BY <2>2, <2>4, <1>a
    <3>2. CASE rec[b].user = u
      BY <2>2, <3>1, <3>2, <1>b DEF CodeClaimed
    <3>3. CASE rec[b].user # u
      BY <2>2, <3>1, <3>3, <1>c DEF CodeClaimed, CodeOfUser
    <3> QED BY <3>2, <3>3
  <2> QED BY <2>3, <2>4
<1>10. ASSUME NEW w \in Work, Claims!Abort(w)
      PROVE  Goal
  BY <1>10, <1>a, <1>b, <1>c DEF Claims!Abort, CTyped, CodeClaimed, CodeOfUser
<1>11. ASSUME NEW w \in Work, NEW a \in Addr, Claims!CreateAccount(w, a)
      PROVE  Goal
  BY <1>11, <1>a, <1>b, <1>c DEF Claims!CreateAccount, CTyped, CodeClaimed, CodeOfUser
<1>12. ASSUME NEW w \in Work, NEW a \in Addr, Claims!Confirm(w, a)
      PROVE  Goal
  BY <1>12, <1>a, <1>b, <1>c DEF Claims!Confirm, CTyped, CodeClaimed, CodeOfUser
<1>13. ASSUME NEW w \in Work, NEW u \in User, NEW a \in Addr, Claims!UpdateUser(w, u, a)
      PROVE  Goal
  BY <1>13, <1>a, <1>b, <1>c DEF Claims!UpdateUser, CTyped, CodeClaimed, CodeOfUser
<1>14. ASSUME NEW w \in Work, NEW u \in User, Claims!SendConfirmation(w, u)
      PROVE  Goal
  BY <1>14, <1>a, <1>b, <1>c DEF Claims!SendConfirmation, CTyped, CodeClaimed,
      CodeOfUser
<1>15. ASSUME NEW u \in User, Claims!Deactivate(u)
      PROVE  Goal
  BY <1>15, <1>a, <1>b, <1>c DEF Claims!Deactivate, CTyped, CodeClaimed, CodeOfUser,
      AccountRow
<1>16. ASSUME Claims!Tick
      PROVE  Goal
  BY <1>16, <1>a, <1>b, <1>c DEF Claims!Tick, CTyped, CodeClaimed, CodeOfUser, CodeRow
<1> QED
  BY <1>0, <1>1, <1>2, <1>3, <1>4, <1>5, <1>6, <1>7, <1>8, <1>9, <1>10, <1>11, <1>12,
      <1>13, <1>14, <1>15, <1>16 DEF Claims!Next

LEMMA CInit ==
  ASSUME Claims!ClaimsAssumption, Claims!Init
  PROVE  CInv
<1> USE DEF Claims!ClaimsAssumption
<1>1. PICK asked \in [User -> Addr \cup {None}] :
        /\ \A u, v \in User : u # v /\ asked[u] = asked[v] => asked[u] = None
        /\ acct = [x \in Claims!Account |->
             [live |-> x \in User, email |-> None,
              pending |-> IF x \in User THEN asked[x] ELSE None,
              gen |-> IF x \in User /\ asked[x] # None THEN 1 ELSE 0]]
        /\ claim = [a \in Addr |->
             IF \E u \in User : asked[u] = a
             THEN [owner |-> CHOOSE u \in User : asked[u] = a, lapses |-> ExpiresIn]
             ELSE Claims!NoClaim]
        /\ rec = [a \in Addr |->
             IF \E u \in User : asked[u] = a
             THEN [code |-> "first", user |-> CHOOSE u \in User : asked[u] = a,
                   gen |-> 1, exp |-> ExpiresIn]
             ELSE Claims!NoCode]
  BY DEF Claims!Init
<1>2. /\ now = 0 /\ work = [w \in Work |-> Claims!NoWork] /\ held = [w \in Work |-> {}]
  BY DEF Claims!Init
<1>3. \A x \in User \cup Work :
        /\ acct[x] = [live |-> x \in User, email |-> None,
                      pending |-> IF x \in User THEN asked[x] ELSE None,
                      gen |-> IF x \in User /\ asked[x] # None THEN 1 ELSE 0]
        /\ acct[x] \in AccountRow /\ acct[x].email = None
  BY <1>1 DEF Claims!Account, AccountRow
<1>4. ASSUME NEW a \in Addr
      PROVE  /\ claim[a] \in ClaimRow /\ rec[a] \in CodeRow
             /\ claim[a].owner # None =>
                  /\ claim[a].owner \in User /\ acct[claim[a].owner].pending = a
                  /\ claim[a].lapses = ExpiresIn
                  /\ rec[a] = [code |-> "first", user |-> claim[a].owner, gen |-> 1,
                               exp |-> ExpiresIn]
                  /\ acct[claim[a].owner].gen = 1
             /\ claim[a].owner = None => rec[a] = Claims!NoCode
  <2>1. CASE \E u \in User : asked[u] = a
    <3>1. PICK o : o = CHOOSE u \in User : asked[u] = a
      OBVIOUS
    <3>2. o \in User /\ asked[o] = a
      BY <2>1, <3>1
    <3>3. /\ claim[a] = [owner |-> o, lapses |-> ExpiresIn]
          /\ rec[a] = [code |-> "first", user |-> o, gen |-> 1, exp |-> ExpiresIn]
      BY <1>1, <2>1, <3>1
    <3>4. acct[o].pending = a /\ acct[o].gen = 1
      <4>1. asked[o] # None
        BY <3>2
      <4>2. acct[o] = [live |-> TRUE, email |-> None, pending |-> asked[o], gen |-> 1]
        BY <1>3, <3>2, <4>1
      <4> QED BY <3>2, <4>2
    <3> QED BY <3>2, <3>3, <3>4 DEF ClaimRow, CodeRow
  <2>2. CASE ~\E u \in User : asked[u] = a
    <3>1. claim[a] = Claims!NoClaim /\ rec[a] = Claims!NoCode
      BY <1>1, <2>2
    <3> QED BY <3>1 DEF Claims!NoClaim, Claims!NoCode, ClaimRow, CodeRow
  <2> QED BY <2>1, <2>2
<1>5. CTyped
  <2>1. Claims!NoWork \in UnitRow
    BY DEF Claims!NoWork, UnitRow
  <2>2. acct \in [User \cup Work -> AccountRow]
    BY <1>1, <1>3 DEF Claims!Account
  <2>3. claim \in [Addr -> ClaimRow] /\ rec \in [Addr -> CodeRow]
    BY <1>1, <1>4
  <2>4. now \in 0..MaxTime
    BY <1>2
  <2> QED BY <1>2, <2>1, <2>2, <2>3, <2>4 DEF CTyped
<1>6. UnitsSound /\ UnitLocks /\ UnitsFound
  <2>1. \A w \in Work : work[w].pc = "idle" /\ work[w].kind = "none" /\ work[w].at = 0
                      /\ held[w] = {} /\ acct[w].email = None
    BY <1>2, <1>3 DEF Claims!NoWork
  <2>2. UnitsSound
    <3>1. ASSUME NEW w \in Work PROVE UnitSound(w)
      <4>1. /\ work[w].pc = "idle" /\ work[w].kind = "none" /\ work[w].at = 0
            /\ acct[w].email = None
        BY <2>1
      <4>2. 0 <= now
        BY <1>2
      <4> QED BY <4>1, <4>2 DEF UnitSound, OnWay
    <3> QED BY <3>1 DEF UnitsSound
  <2>3. UnitLocks
    BY <2>1 DEF UnitLocks, LocksSound, OnWay
  <2>4. UnitsFound
    BY <2>1 DEF UnitsFound, FoundSound
  <2> QED BY <2>2, <2>3, <2>4
<1>7. ClaimsSound
  BY <1>3, <1>4
     DEF ClaimsSound, ClaimKeepsOff, ClaimIsPending, Claims!OnAddress, Claims!Account
<1>8. CodesClaimed
  <2> SUFFICES ASSUME NEW a \in Addr
               PROVE  CodeOfUser(a) /\ CodeClaimed(a)
    BY DEF CodesClaimed
  <2>1. CASE claim[a].owner = None
    <3>1. rec[a].code = None
      <4>1. rec[a] = Claims!NoCode
        BY <2>1, <1>4
      <4> QED BY <4>1 DEF Claims!NoCode
    <3> QED BY <3>1 DEF CodeOfUser, CodeClaimed
  <2>2. CASE claim[a].owner # None
    <3>1. PICK o : o = claim[a].owner
      OBVIOUS
    <3>2. /\ o \in User /\ claim[a].lapses = ExpiresIn /\ acct[o].gen = 1
          /\ rec[a] = [code |-> "first", user |-> o, gen |-> 1, exp |-> ExpiresIn]
      BY <2>2, <3>1, <1>4
    <3>3. rec[a].user = o /\ rec[a].gen = 1 /\ rec[a].exp = ExpiresIn
      BY <3>2
    <3> QED BY <3>1, <3>2, <3>3 DEF CodeOfUser, CodeClaimed
  <2> QED BY <2>1, <2>2
<1> QED BY <1>5, <1>6, <1>7, <1>8 DEF CInv

LEMMA CStep ==
  ASSUME Claims!ClaimsAssumption, CInv, [Claims!Next]_Claims!vars
  PROVE  CInv'
<1>1. CTyped'
  BY UnitTypedStep, HeldTypedStep, AcctTypedStep, ClaimTypedStep, CodeTypedStep
     DEF CTyped
<1>2. UnitsSound' /\ UnitLocks' /\ UnitsFound'
  BY UnitsStep, LocksStep, FoundStep DEF UnitsSound, UnitLocks, UnitsFound
<1>3. ClaimsSound' /\ CodesClaimed'
  BY KeepsOffStep, IsPendingStep, OfUserStep, ClaimedStep DEF ClaimsSound, CodesClaimed
<1> QED BY <1>1, <1>2, <1>3 DEF CInv

(* PostgresAddressLedger decides who gets an address: nobody who went      *)
(* through it finds the address taken when it writes, a code that can be   *)
(* confirmed has a claim that lasts as long, and a user keeps one claim.   *)
THEOREM ClaimsSafe ==
  ASSUME Claims!ClaimsAssumption
  PROVE  Claims!Spec => [](/\ Claims!LedgerDecides /\ Claims!CodeHasItsClaim
                           /\ Claims!OneLiveClaimEach /\ Claims!TypeOK
                           /\ LedgerDecides)
<1>1. Claims!Init => CInv
  BY CInit
<1>2. CInv /\ [Claims!Next]_Claims!vars => CInv'
  BY CStep
<1>3. CInv => /\ Claims!LedgerDecides /\ Claims!CodeHasItsClaim
              /\ Claims!OneLiveClaimEach /\ Claims!TypeOK
              /\ LedgerDecides
  <2> SUFFICES ASSUME CInv
               PROVE  /\ Claims!LedgerDecides /\ Claims!CodeHasItsClaim
                      /\ Claims!OneLiveClaimEach /\ Claims!TypeOK
                      /\ LedgerDecides
    OBVIOUS
  <2>1. Claims!LedgerDecides
    BY DEF CInv, UnitsSound, UnitSound, Claims!LedgerDecides
  <2>2. Claims!CodeHasItsClaim
    BY DEF CInv, CodesClaimed, CodeClaimed, Claims!CodeHasItsClaim
  <2>3. Claims!OneLiveClaimEach
    BY DEF CInv, ClaimsSound, ClaimIsPending, Claims!OneLiveClaimEach
  <2>4. Claims!TypeOK
    BY DEF CInv, CTyped, ClaimRow, UnitLocks, LocksSound, OnWay, Claims!TypeOK,
           Claims!Account
  <2> QED BY <2>1, <2>2, <2>3, <2>4 DEF LedgerDecides
<1> QED BY <1>1, <1>2, <1>3, PTL DEF Claims!Spec

(* While a user's claim on an address is live no other account is put on   *)
(* it (createActivatedAccount, confirmEmailChange).                        *)
THEOREM ClaimKept ==
  ASSUME Claims!ClaimsAssumption
  PROVE  Claims!Spec => [][Claims!ClaimIsKept]_Claims!vars
<1>1. ASSUME CInv, [Claims!Next]_Claims!vars
      PROVE  [Claims!ClaimIsKept]_Claims!vars
  <2> SUFFICES ASSUME NEW b \in Addr, NEW x \in Claims!Account, acct'[x].email = b,
                      acct[x].email # b
               PROVE  claim[b].owner \in {None, x} \/ claim[b].lapses <= now
    BY DEF Claims!ClaimIsKept
  <2>a. CTyped /\ x \in User \cup Work
    BY <1>1 DEF CInv, Claims!Account
  <2>0. CASE UNCHANGED Claims!vars
    BY <2>0 DEF Claims!vars
  <2>1. ASSUME NEW w \in Work, Claims!Claim(w)
        PROVE  claim[b].owner \in {None, x} \/ claim[b].lapses <= now
    BY <2>1, <2>a DEF Claims!Claim, CTyped, AccountRow
  <2>2. ASSUME NEW w \in Work, Claims!ClaimAccounts(w)
        PROVE  claim[b].owner \in {None, x} \/ claim[b].lapses <= now
    BY <2>2, <2>a DEF Claims!ClaimAccounts, CTyped, AccountRow
  <2>3. ASSUME NEW w \in Work, Claims!TakeUser(w)
        PROVE  claim[b].owner \in {None, x} \/ claim[b].lapses <= now
    BY <2>3, <2>a DEF Claims!TakeUser, CTyped, AccountRow
  <2>4. ASSUME NEW w \in Work, Claims!InsertAccount(w)
        PROVE  claim[b].owner \in {None, x} \/ claim[b].lapses <= now
    <3>1. PICK a : a = work[w].addr
      OBVIOUS
    <3> QED BY <2>4, <1>1, <2>a, <3>1, InsertDoes
  <2>5. ASSUME NEW w \in Work, Claims!SaveIdentity(w)
        PROVE  claim[b].owner \in {None, x} \/ claim[b].lapses <= now
    <3>1. PICK a, u : a = work[w].addr /\ u = work[w].user
      OBVIOUS
    <3> QED BY <2>5, <1>1, <2>a, <3>1, SaveDoes
  <2>6. ASSUME NEW w \in Work, Claims!PutCode(w)
        PROVE  claim[b].owner \in {None, x} \/ claim[b].lapses <= now
    BY <2>6, <2>a DEF Claims!PutCode, CTyped, AccountRow
  <2>7. ASSUME NEW w \in Work, Claims!ConsumeCode(w)
        PROVE  claim[b].owner \in {None, x} \/ claim[b].lapses <= now
    BY <2>7, <2>a DEF Claims!ConsumeCode, CTyped, AccountRow
  <2>8. ASSUME NEW w \in Work, Claims!HoldsLiveClaim(w)
        PROVE  claim[b].owner \in {None, x} \/ claim[b].lapses <= now
    BY <2>8, <2>a DEF Claims!HoldsLiveClaim, CTyped, AccountRow
  <2>9. ASSUME NEW w \in Work, Claims!ConfirmAddress(w)
        PROVE  claim[b].owner \in {None, x} \/ claim[b].lapses <= now
    <3>1. PICK a, u : a = work[w].addr /\ u = work[w].user
      OBVIOUS
    <3> QED BY <2>9, <1>1, <2>a, <3>1, ConfirmDoes
  <2>10. ASSUME NEW w \in Work, Claims!Abort(w)
        PROVE  claim[b].owner \in {None, x} \/ claim[b].lapses <= now
    BY <2>10, <2>a DEF Claims!Abort, CTyped, AccountRow
  <2>11. ASSUME NEW w \in Work, NEW c \in Addr, Claims!CreateAccount(w, c)
        PROVE  claim[b].owner \in {None, x} \/ claim[b].lapses <= now
    BY <2>11, <2>a DEF Claims!CreateAccount, CTyped, AccountRow
  <2>12. ASSUME NEW w \in Work, NEW c \in Addr, Claims!Confirm(w, c)
        PROVE  claim[b].owner \in {None, x} \/ claim[b].lapses <= now
    BY <2>12, <2>a DEF Claims!Confirm, CTyped, AccountRow
  <2>13. ASSUME NEW w \in Work, NEW u \in User, NEW c \in Addr,
                Claims!UpdateUser(w, u, c)
        PROVE  claim[b].owner \in {None, x} \/ claim[b].lapses <= now
    BY <2>13, <2>a DEF Claims!UpdateUser, CTyped, AccountRow
  <2>14. ASSUME NEW w \in Work, NEW u \in User, Claims!SendConfirmation(w, u)
        PROVE  claim[b].owner \in {None, x} \/ claim[b].lapses <= now
    BY <2>14, <2>a DEF Claims!SendConfirmation, CTyped, AccountRow
  <2>15. ASSUME NEW u \in User, Claims!Deactivate(u)
        PROVE  claim[b].owner \in {None, x} \/ claim[b].lapses <= now
    BY <2>15, <2>a DEF Claims!Deactivate, CTyped, AccountRow
  <2>16. ASSUME Claims!Tick
        PROVE  claim[b].owner \in {None, x} \/ claim[b].lapses <= now
    BY <2>16, <2>a DEF Claims!Tick, CTyped, AccountRow
  <2> QED
    BY <2>0, <2>1, <2>2, <2>3, <2>4, <2>5, <2>6, <2>7, <2>8, <2>9, <2>10, <2>11,
       <2>12, <2>13, <2>14, <2>15, <2>16, <1>1
       DEF Claims!Next
<1>2. Claims!Init => CInv
  BY CInit
<1>3. CInv /\ [Claims!Next]_Claims!vars => CInv'
  BY CStep
<1> QED BY <1>1, <1>2, <1>3, PTL DEF Claims!Spec

(***************************************************************************)
(* Mailed codes (PendingCodes).                                            *)
(***************************************************************************)

CounterRow ==
  [st : {"none", "row"}, mailed : Nat, started : Int, exp : Nat, failed : Int,
   level : 0..MaxLevel, locked : Int, memory : Int]
PendingRow ==
  [st : {"none", "rec"}, code : Issue \cup {"none"}, attempts : 0..MaxAttempts, exp : Nat]
IssueRow ==
  [pc : {"idle", "record", "counter", "open", "generate", "rotate", "replace", "has",
         "left", "drop", "absent", "insert", "mailed", "refused", "failed"},
   at : Nat, resend : BOOLEAN, pass : Nat]
GuessRow ==
  [pc : {"idle", "reserve", "guess", "drop", "consume"}, at : Nat,
   tried : Issue \cup {"none", "wrong"}, code : Issue \cup {"none"}]

MTyped ==
  /\ now \in 0..CodeTime
  /\ row \in CounterRow
  /\ rec \in PendingRow
  /\ issue \in [Issue -> IssueRow]
  /\ guess \in [Guess -> GuessRow]
  /\ compared \in [Issue -> Nat]

CounterKept ==
  /\ row.st = "none" => row.mailed = 0
  /\ Codes!RowKeptLongEnough

(* What is stored was mailed, and what is being checked was stored.        *)
StoredMailed == rec.st = "rec" => rec.code \in Issue /\ issue[rec.code].pc = "mailed"
GuessSound(g) ==
  /\ guess[g].pc \in {"guess", "consume"} =>
       guess[g].code \in Issue /\ issue[guess[g].code].pc = "mailed"
  /\ guess[g].pc = "consume" => guess[g].tried = guess[g].code

(* The callers that have an attempt on a code and have not compared it:    *)
(* they and the comparisons made are attempts of the record.               *)
Trying(c) == {g \in Guess : guess[g].pc = "guess" /\ guess[g].code = c}
Tries(c) == compared[c] + Cardinality(Trying(c))
TriesCounted(c) ==
  /\ Tries(c) <= MaxAttempts
  /\ rec.st = "rec" /\ rec.code = c => Tries(c) <= rec.attempts
  /\ issue[c].pc # "mailed" => compared[c] = 0 /\ Trying(c) = {}

MInv ==
  /\ MTyped /\ CounterKept /\ StoredMailed
  /\ \A g \in Guess : GuessSound(g)
  /\ \A c \in Issue : TriesCounted(c)

(* What a step does to the record: it is stored by the request that mails  *)
(* its code, and by nothing else.                                          *)
RecordStep ==
  \/ rec' = rec
  \/ rec'.st = "none"
  \/ /\ rec.st = "rec" /\ rec' = [rec EXCEPT !.attempts = rec.attempts + 1]
     /\ rec.attempts < MaxAttempts
  \/ \E z \in Issue : /\ rec' = Codes!Stored(z) /\ issue[z].pc # "mailed"
                      /\ issue'[z].pc = "mailed"
                      /\ guess' = guess /\ compared' = compared

(* What a step does to a code: it may be compared, by a caller that had an *)
(* attempt on it, or a caller gets one, which the record counts.           *)
CodeStep(z) ==
  \/ compared'[z] = compared[z] /\ Trying(z)' \subseteq Trying(z)
  \/ \E x \in Trying(z) : compared'[z] = compared[z] + 1 /\ Trying(z)' = Trying(z) \ {x}
  \/ \E x \in Guess : /\ compared'[z] = compared[z]
                      /\ Trying(z)' = Trying(z) \cup {x}
                      /\ rec.st = "rec" /\ rec.code = z
                      /\ rec' = [rec EXCEPT !.attempts = rec.attempts + 1]
                      /\ rec.attempts < MaxAttempts

(* A lock has a length.                                                    *)
LEMMA LockLength ==
  ASSUME Codes!CodesAssumption, NEW x \in Nat
  PROVE  Codes!LockFor(x) \in Int
<1>1. 2^x \in Int
  OBVIOUS
<1>2. LockBase \in Nat /\ LockMax \in Nat
  BY DEF Codes!CodesAssumption
<1> QED BY <1>1, <1>2 DEF Codes!LockFor, Codes!Smaller

(* A guess that is counted keeps the row as long as it is remembered, and  *)
(* as long as the row was kept anyway.                                     *)
LEMMA CountedRow ==
  ASSUME Codes!CodesAssumption, NEW x \in Nat, row \in CounterRow
  PROVE  /\ Codes!Counted(x) \in CounterRow
         /\ Codes!Counted(x).st = "row" /\ Codes!Counted(x).mailed = row.mailed
         /\ Codes!Counted(x).started = row.started
         /\ Codes!Counted(x).exp >= row.exp
         /\ Codes!Counted(x).exp >= Codes!Counted(x).memory
<1> DEFINE failed == IF Codes!Remembered(x) THEN row.failed ELSE 0
           level == IF Codes!Remembered(x) THEN row.level ELSE 0
           locks == failed + 1 >= Limit
           end == IF locks THEN x + Codes!LockFor(level) ELSE x
           lev == IF locks THEN Codes!Smaller(level + 1, MaxLevel) ELSE level
           fail == IF locks THEN 0 ELSE failed + 1
           lock == IF locks THEN end ELSE 0
<1>1. /\ row.mailed \in Nat /\ row.started \in Int /\ row.exp \in Nat
           /\ row.failed \in Int
      /\ row.level \in 0..MaxLevel /\ MaxLevel \in Nat /\ Memory \in Nat /\ Limit \in Nat
  BY DEF CounterRow, Codes!CodesAssumption
<1>2. failed \in Int /\ level \in 0..MaxLevel /\ level \in Nat
  BY <1>1
<1>3. end \in Int
  BY <1>2, LockLength
<1>4. lev \in 0..MaxLevel /\ fail \in Int /\ lock \in Int
  BY <1>1, <1>2, <1>3 DEF Codes!Smaller
<1>5. Codes!Counted(x) =
        [row EXCEPT !.st = "row", !.failed = fail, !.level = lev, !.locked = lock,
                    !.memory = end + Memory, !.exp = Codes!Larger(row.exp, end + Memory)]
  BY DEF Codes!Counted
<1>6. Codes!Larger(row.exp, end + Memory) \in Nat
      /\ Codes!Larger(row.exp, end + Memory) >= row.exp
      /\ Codes!Larger(row.exp, end + Memory) >= end + Memory
  BY <1>1, <1>3 DEF Codes!Larger
<1>7. end + Memory \in Int
  BY <1>1, <1>3
<1> DEFINE ends == end + Memory
           exp == Codes!Larger(row.exp, ends)
<1>8. /\ Codes!Counted(x) =
           [row EXCEPT !.st = "row", !.failed = fail, !.level = lev, !.locked = lock,
                       !.memory = ends, !.exp = exp]
      /\ exp \in Nat /\ exp >= row.exp /\ exp >= ends /\ ends \in Int
  BY <1>5, <1>6, <1>7
<1> HIDE DEF failed, level, locks, end, lev, fail, lock, ends, exp
<1> QED BY <1>4, <1>8 DEF CounterRow

(* A mail that is recorded is kept for its window, and the guesses for     *)
(* their memory.                                                           *)
LEMMA RecordedRow ==
  ASSUME Codes!CodesAssumption, NEW x \in Nat, row \in CounterRow
  PROVE  /\ Codes!Recorded(x) \in CounterRow
         /\ Codes!Recorded(x).st = row.st
         /\ Codes!Recorded(x).exp >= Codes!Recorded(x).started + CodeWindow
         /\ Codes!Recorded(x).exp >= Codes!Recorded(x).memory
<1> DEFINE over == Codes!RolledOver(x)
           mailed == IF over THEN 1 ELSE row.mailed + 1
           started == IF over THEN x ELSE row.started
<1>1. /\ row.mailed \in Nat /\ row.started \in Int /\ row.memory \in Int /\ CodeWindow \in Nat
  BY DEF CounterRow, Codes!CodesAssumption
<1>2. mailed \in Nat /\ started \in Int /\ started + CodeWindow >= 0
  BY <1>1 DEF Codes!RolledOver
<1>3. Codes!Recorded(x) =
        [row EXCEPT !.mailed = mailed, !.started = started,
                    !.exp = Codes!Larger(started + CodeWindow, row.memory)]
  BY DEF Codes!Recorded
<1>4. /\ Codes!Larger(started + CodeWindow, row.memory) \in Nat
      /\ Codes!Larger(started + CodeWindow, row.memory) >= started + CodeWindow
      /\ Codes!Larger(started + CodeWindow, row.memory) >= row.memory
  BY <1>1, <1>2 DEF Codes!Larger
<1> HIDE DEF over, mailed, started
<1> QED BY <1>1, <1>2, <1>3, <1>4 DEF CounterRow

LEMMA NoRowTyped ==
  ASSUME Codes!CodesAssumption
  PROVE  /\ Codes!NoRow \in CounterRow /\ Codes!NoRow.st = "none"
         /\ Codes!NoRow.mailed = 0 /\ Codes!NoRow.memory = 0 /\ Codes!NoRow.exp = 0
         /\ Codes!NoRec \in PendingRow /\ Codes!NoRec.st = "none"
<1> DEFINE s == -CodeWindow
           n == 0
<1>1. s \in Int /\ n \in Nat /\ n \in 0..MaxLevel /\ n \in 0..MaxAttempts /\ n \in Int
  BY DEF Codes!CodesAssumption
<1>2. Codes!NoRow = [st |-> "none", mailed |-> n, started |-> s, exp |-> n, failed |-> n,
                     level |-> n, locked |-> n, memory |-> n]
  BY DEF Codes!NoRow
<1>3. Codes!NoRec = [st |-> "none", code |-> "none", attempts |-> n, exp |-> n]
  BY DEF Codes!NoRec
<1>4. n = 0
  OBVIOUS
<1> HIDE DEF s, n
<1> QED BY <1>1, <1>2, <1>3, <1>4 DEF CounterRow, PendingRow

LEMMA CounterRowTypedStep ==
  ASSUME Codes!CodesAssumption, MInv, [Codes!Next]_Codes!vars
  PROVE  row' \in CounterRow
<1>a. /\ MTyped /\ Codes!CodesAssumption /\ row \in CounterRow /\ rec \in PendingRow
      /\ issue \in [Issue -> IssueRow] /\ guess \in [Guess -> GuessRow]
  BY DEF MInv, MTyped
<1>n. /\ now \in Nat /\ CodeWindow \in Nat /\ Memory \in Nat /\ MaxLevel \in Nat
           /\ MaxAttempts \in Nat
      /\ CodeExpiresIn \in Nat
  BY <1>a DEF MTyped, Codes!CodesAssumption
<1>0. CASE UNCHANGED Codes!vars
  BY <1>0, <1>a DEF Codes!vars
<1> DEFINE Goal == row' \in CounterRow
<1>1. ASSUME NEW i \in Issue, NEW b \in BOOLEAN, Codes!Ask(i, b)
      PROVE  Goal
  BY <1>1, <1>a DEF Codes!Ask
<1>2. ASSUME NEW i \in Issue, Codes!RecordWithinCap(i)
      PROVE  Goal
  <2>1. issue[i].at \in Nat
    BY <1>a, <1>2 DEF IssueRow
  <2>2. row' = row \/ row' = Codes!Recorded(issue[i].at)
    BY <1>2 DEF Codes!RecordWithinCap
  <2> QED BY <2>1, <2>2, <1>a, RecordedRow
<1>3. ASSUME NEW i \in Issue, Codes!HasCounter(i)
      PROVE  Goal
  BY <1>3, <1>a DEF Codes!HasCounter, Codes!GotoI
<1>4. ASSUME NEW i \in Issue, Codes!OpenCounter(i)
      PROVE  Goal
  <2> DEFINE x == [Codes!NoRow EXCEPT !.st = "row", !.mailed = 1, !.started = issue[i].at,
                                      !.exp = issue[i].at + CodeWindow]
  <2>0. issue[i].at \in Nat
    BY <1>a, <1>4 DEF IssueRow
  <2>1. issue[i].at \in Int /\ issue[i].at + CodeWindow \in Nat /\ 1 \in Nat
    BY <2>0, <1>n
  <2>2. /\ x \in CounterRow /\ x.st = "row" /\ x.started = issue[i].at
        /\ x.exp = issue[i].at + CodeWindow /\ x.memory = 0
    <3> DEFINE r == Codes!NoRow
               n == 1
               e == issue[i].at + CodeWindow
    <3>1. r \in CounterRow /\ r.memory = 0
      BY NoRowTyped
    <3>2. n \in Nat /\ e \in Nat
      BY <2>1
    <3>3. x = [r EXCEPT !.st = "row", !.mailed = n, !.started = issue[i].at, !.exp = e]
      OBVIOUS
    <3> HIDE DEF r, n, e, x
    <3>4. /\ x \in CounterRow /\ x.st = "row" /\ x.started = issue[i].at
          /\ x.exp = e /\ x.memory = 0
      BY <3>1, <3>2, <3>3, <2>1 DEF CounterRow
    <3> QED BY <3>4 DEF e
  <2>3. row' = row \/ row' = x
    BY <1>4 DEF Codes!OpenCounter
  <2> HIDE DEF x
  <2> QED BY <2>2, <2>3, <1>a
<1>5. ASSUME NEW i \in Issue, Codes!NewGeneration(i)
      PROVE  Goal
  BY <1>5, <1>a DEF Codes!NewGeneration, Codes!GotoI
<1>6. ASSUME NEW i \in Issue, Codes!RotateLiveCode(i)
      PROVE  Goal
  BY <1>6, <1>a DEF Codes!RotateLiveCode, Codes!GotoI, Codes!Mail, Codes!Stored
<1>7. ASSUME NEW i \in Issue, Codes!ReplaceExpiredCode(i)
      PROVE  Goal
  BY <1>7, <1>a DEF Codes!ReplaceExpiredCode, Codes!GotoI, Codes!Mail, Codes!Stored
<1>8. ASSUME NEW i \in Issue, Codes!HasRecord(i)
      PROVE  Goal
  BY <1>8, <1>a DEF Codes!HasRecord, Codes!GotoI
<1>9. ASSUME NEW i \in Issue, Codes!DropRecord(i)
      PROVE  Goal
  BY <1>9, <1>a DEF Codes!DropRecord, Codes!GotoI, Codes!DropExpired, Codes!NoRec
<1>10. ASSUME NEW i \in Issue, Codes!InsertRecord(i)
      PROVE  Goal
  BY <1>10, <1>a DEF Codes!InsertRecord, Codes!GotoI, Codes!Mail, Codes!Stored
<1>11. ASSUME NEW g \in Guess, NEW c \in Issue \cup {"wrong"}, Codes!VerifyCode(g, c)
      PROVE  Goal
  BY <1>11, <1>a DEF Codes!VerifyCode
<1>12. ASSUME NEW g \in Guess, Codes!ReserveAttempt(g)
      PROVE  Goal
  BY <1>12, <1>a DEF Codes!ReserveAttempt, Codes!GotoG, Codes!AttemptLeft
<1>13. ASSUME NEW g \in Guess, Codes!ReserveGuess(g)
      PROVE  Goal
  <2>1. guess[g].at \in Nat
    BY <1>a, <1>13 DEF GuessRow
  <2>2. row' = row \/ row' = Codes!Counted(guess[g].at)
    BY <1>13 DEF Codes!ReserveGuess
  <2> QED BY <2>1, <2>2, <1>a, CountedRow
<1>14. ASSUME NEW g \in Guess, Codes!Refuse(g)
      PROVE  Goal
  BY <1>14, <1>a DEF Codes!Refuse, Codes!GotoG, Codes!DropExpired, Codes!NoRec
<1>15. ASSUME NEW g \in Guess, NEW b \in BOOLEAN, Codes!ConsumeCode(g, b)
      PROVE  Goal
  <2> DEFINE x == [row EXCEPT !.failed = 0, !.level = 0, !.locked = 0, !.memory = 0]
  <2>1. 0 \in Int /\ 0 \in 0..MaxLevel
    BY <1>n
  <2>2. /\ x \in CounterRow /\ x.st = row.st /\ x.started = row.started /\ x.exp = row.exp
        /\ x.memory = 0 /\ x.mailed = row.mailed
    BY <2>1, <1>a DEF CounterRow
  <2>3. row' = row \/ row' = x
    BY <1>15 DEF Codes!ConsumeCode
  <2> HIDE DEF x
  <2> QED BY <2>2, <2>3, <1>a
<1>16. ASSUME Codes!RemoveRow
      PROVE  Goal
  <2>1. row' = Codes!NoRow
    BY <1>16 DEF Codes!RemoveRow
  <2> QED BY <2>1, <1>a, NoRowTyped
<1>17. ASSUME Codes!RemoveRecord
      PROVE  Goal
  BY <1>17, <1>a DEF Codes!RemoveRecord, Codes!NoRec
<1>18. ASSUME Codes!Tick
      PROVE  Goal
  BY <1>18, <1>a DEF Codes!Tick
<1> QED
  BY <1>0, <1>1, <1>2, <1>3, <1>4, <1>5, <1>6, <1>7, <1>8, <1>9, <1>10, <1>11, <1>12,
      <1>13, <1>14, <1>15, <1>16, <1>17, <1>18 DEF Codes!Next

LEMMA CounterKeptStep ==
  ASSUME Codes!CodesAssumption, MInv, [Codes!Next]_Codes!vars
  PROVE  CounterKept'
<1>a. /\ MTyped /\ Codes!CodesAssumption /\ row \in CounterRow /\ rec \in PendingRow
      /\ issue \in [Issue -> IssueRow] /\ guess \in [Guess -> GuessRow]
  BY DEF MInv, MTyped
<1>n. /\ now \in Nat /\ CodeWindow \in Nat /\ Memory \in Nat /\ MaxLevel \in Nat
           /\ MaxAttempts \in Nat
      /\ CodeExpiresIn \in Nat
  BY <1>a DEF MTyped, Codes!CodesAssumption
<1>b. CounterKept
  BY DEF MInv
<1>c. /\ row.exp \in Nat /\ row.memory \in Int /\ row.started \in Int
           /\ row.mailed \in Nat
      /\ row.st \in {"none", "row"}
  BY <1>a DEF CounterRow
<1>0. CASE UNCHANGED Codes!vars
  BY <1>0, <1>a, <1>b, <1>c DEF Codes!vars, CounterKept, Codes!RowKeptLongEnough
<1> DEFINE Goal == CounterKept'
<1>1. ASSUME NEW i \in Issue, NEW b \in BOOLEAN, Codes!Ask(i, b)
      PROVE  Goal
  BY <1>1, <1>a, <1>b, <1>c DEF Codes!Ask, CounterKept, Codes!RowKeptLongEnough
<1>2. ASSUME NEW i \in Issue, Codes!RecordWithinCap(i)
      PROVE  Goal
  <2>1. issue[i].at \in Nat
    BY <1>a, <1>2 DEF IssueRow
  <2>2. row' = row \/ (row' = Codes!Recorded(issue[i].at) /\ row.st = "row")
    BY <1>2 DEF Codes!RecordWithinCap, Codes!Room
  <2> QED
      BY <2>1, <2>2, <1>a, <1>b, RecordedRow DEF CounterKept, Codes!RowKeptLongEnough
<1>3. ASSUME NEW i \in Issue, Codes!HasCounter(i)
      PROVE  Goal
  BY <1>3, <1>a, <1>b, <1>c DEF Codes!HasCounter, Codes!GotoI, CounterKept,
      Codes!RowKeptLongEnough
<1>4. ASSUME NEW i \in Issue, Codes!OpenCounter(i)
      PROVE  Goal
  <2> DEFINE x == [Codes!NoRow EXCEPT !.st = "row", !.mailed = 1, !.started = issue[i].at,
                                      !.exp = issue[i].at + CodeWindow]
  <2>0. issue[i].at \in Nat
    BY <1>a, <1>4 DEF IssueRow
  <2>1. issue[i].at \in Int /\ issue[i].at + CodeWindow \in Nat /\ 1 \in Nat
    BY <2>0, <1>n
  <2>2. /\ x \in CounterRow /\ x.st = "row" /\ x.started = issue[i].at
        /\ x.exp = issue[i].at + CodeWindow /\ x.memory = 0
    <3> DEFINE r == Codes!NoRow
               n == 1
               e == issue[i].at + CodeWindow
    <3>1. r \in CounterRow /\ r.memory = 0
      BY NoRowTyped
    <3>2. n \in Nat /\ e \in Nat
      BY <2>1
    <3>3. x = [r EXCEPT !.st = "row", !.mailed = n, !.started = issue[i].at, !.exp = e]
      OBVIOUS
    <3> HIDE DEF r, n, e, x
    <3>4. /\ x \in CounterRow /\ x.st = "row" /\ x.started = issue[i].at
          /\ x.exp = e /\ x.memory = 0
      BY <3>1, <3>2, <3>3, <2>1 DEF CounterRow
    <3> QED BY <3>4 DEF e
  <2>3. row' = row \/ row' = x
    BY <1>4 DEF Codes!OpenCounter
  <2> HIDE DEF x
  <2> QED BY <2>1, <2>2, <2>3, <1>b, <1>n DEF CounterKept, Codes!RowKeptLongEnough
<1>5. ASSUME NEW i \in Issue, Codes!NewGeneration(i)
      PROVE  Goal
  BY <1>5, <1>a, <1>b, <1>c DEF Codes!NewGeneration, Codes!GotoI, CounterKept,
      Codes!RowKeptLongEnough
<1>6. ASSUME NEW i \in Issue, Codes!RotateLiveCode(i)
      PROVE  Goal
  BY <1>6, <1>a, <1>b, <1>c DEF Codes!RotateLiveCode, Codes!GotoI, Codes!Mail,
      Codes!Stored, CounterKept, Codes!RowKeptLongEnough
<1>7. ASSUME NEW i \in Issue, Codes!ReplaceExpiredCode(i)
      PROVE  Goal
  BY <1>7, <1>a, <1>b, <1>c DEF Codes!ReplaceExpiredCode, Codes!GotoI, Codes!Mail,
      Codes!Stored, CounterKept, Codes!RowKeptLongEnough
<1>8. ASSUME NEW i \in Issue, Codes!HasRecord(i)
      PROVE  Goal
  BY <1>8, <1>a, <1>b, <1>c DEF Codes!HasRecord, Codes!GotoI, CounterKept,
      Codes!RowKeptLongEnough
<1>9. ASSUME NEW i \in Issue, Codes!DropRecord(i)
      PROVE  Goal
  BY <1>9, <1>a, <1>b, <1>c DEF Codes!DropRecord, Codes!GotoI, Codes!DropExpired,
      Codes!NoRec, CounterKept, Codes!RowKeptLongEnough
<1>10. ASSUME NEW i \in Issue, Codes!InsertRecord(i)
      PROVE  Goal
  BY <1>10, <1>a, <1>b, <1>c DEF Codes!InsertRecord, Codes!GotoI, Codes!Mail,
      Codes!Stored, CounterKept, Codes!RowKeptLongEnough
<1>11. ASSUME NEW g \in Guess, NEW c \in Issue \cup {"wrong"}, Codes!VerifyCode(g, c)
      PROVE  Goal
  BY <1>11, <1>a, <1>b, <1>c DEF Codes!VerifyCode, CounterKept, Codes!RowKeptLongEnough
<1>12. ASSUME NEW g \in Guess, Codes!ReserveAttempt(g)
      PROVE  Goal
  BY <1>12, <1>a, <1>b, <1>c DEF Codes!ReserveAttempt, Codes!GotoG, Codes!AttemptLeft,
      CounterKept, Codes!RowKeptLongEnough
<1>13. ASSUME NEW g \in Guess, Codes!ReserveGuess(g)
      PROVE  Goal
  <2>1. guess[g].at \in Nat
    BY <1>a, <1>13 DEF GuessRow
  <2>2. row' = row \/ row' = Codes!Counted(guess[g].at)
    BY <1>13 DEF Codes!ReserveGuess
  <2>3. row.mailed > 0 => row.exp >= row.started + CodeWindow
    BY <1>b, <1>c DEF CounterKept, Codes!RowKeptLongEnough
  <2>4. CASE row' = row
    BY <2>4, <1>b DEF CounterKept, Codes!RowKeptLongEnough
  <2>5. CASE row' = Codes!Counted(guess[g].at)
    <3>1. row' \in CounterRow
      BY CounterRowTypedStep
    <3>2. row'.exp \in Nat /\ row'.memory \in Int /\ row'.started \in Int
      BY <3>1 DEF CounterRow
    <3>3. /\ row'.st = "row" /\ row'.mailed = row.mailed /\ row'.started = row.started
          /\ row'.exp >= row.exp /\ row'.exp >= row'.memory
      BY <2>1, <2>5, <1>a, CountedRow
    <3> QED BY <3>2, <3>3, <2>3, <1>c, <1>n DEF CounterKept, Codes!RowKeptLongEnough
  <2> QED BY <2>2, <2>4, <2>5
<1>14. ASSUME NEW g \in Guess, Codes!Refuse(g)
      PROVE  Goal
  BY <1>14, <1>a, <1>b, <1>c DEF Codes!Refuse, Codes!GotoG, Codes!DropExpired,
      Codes!NoRec, CounterKept, Codes!RowKeptLongEnough
<1>15. ASSUME NEW g \in Guess, NEW b \in BOOLEAN, Codes!ConsumeCode(g, b)
      PROVE  Goal
  <2> DEFINE x == [row EXCEPT !.failed = 0, !.level = 0, !.locked = 0, !.memory = 0]
  <2>1. 0 \in Int /\ 0 \in 0..MaxLevel
    BY <1>n
  <2>2. /\ x \in CounterRow /\ x.st = row.st /\ x.started = row.started /\ x.exp = row.exp
        /\ x.memory = 0 /\ x.mailed = row.mailed
    BY <2>1, <1>a DEF CounterRow
  <2>3. row' = row \/ row' = x
    BY <1>15 DEF Codes!ConsumeCode
  <2> HIDE DEF x
  <2> QED BY <2>2, <2>3, <1>b, <1>c DEF CounterKept, Codes!RowKeptLongEnough
<1>16. ASSUME Codes!RemoveRow
      PROVE  Goal
  <2>1. row' = Codes!NoRow
    BY <1>16 DEF Codes!RemoveRow
  <2> QED BY <2>1, <1>a, NoRowTyped DEF CounterKept, Codes!RowKeptLongEnough
<1>17. ASSUME Codes!RemoveRecord
      PROVE  Goal
  BY <1>17, <1>a, <1>b, <1>c DEF Codes!RemoveRecord, Codes!NoRec, CounterKept,
      Codes!RowKeptLongEnough
<1>18. ASSUME Codes!Tick
      PROVE  Goal
  BY <1>18, <1>a, <1>b, <1>c DEF Codes!Tick, CounterKept, Codes!RowKeptLongEnough
<1> QED
  BY <1>0, <1>1, <1>2, <1>3, <1>4, <1>5, <1>6, <1>7, <1>8, <1>9, <1>10, <1>11, <1>12,
      <1>13, <1>14, <1>15, <1>16, <1>17, <1>18 DEF Codes!Next

LEMMA RecordTypedStep ==
  ASSUME Codes!CodesAssumption, MInv, [Codes!Next]_Codes!vars
  PROVE  rec' \in PendingRow
<1>a. /\ MTyped /\ Codes!CodesAssumption /\ row \in CounterRow /\ rec \in PendingRow
      /\ issue \in [Issue -> IssueRow] /\ guess \in [Guess -> GuessRow]
  BY DEF MInv, MTyped
<1>n. /\ now \in Nat /\ CodeWindow \in Nat /\ Memory \in Nat /\ MaxLevel \in Nat
           /\ MaxAttempts \in Nat
      /\ CodeExpiresIn \in Nat
  BY <1>a DEF MTyped, Codes!CodesAssumption
<1>0. CASE UNCHANGED Codes!vars
  BY <1>0, <1>a DEF Codes!vars
<1> DEFINE Goal == rec' \in PendingRow
<1>1. ASSUME NEW i \in Issue, NEW b \in BOOLEAN, Codes!Ask(i, b)
      PROVE  Goal
  BY <1>1, <1>a DEF Codes!Ask
<1>2. ASSUME NEW i \in Issue, Codes!RecordWithinCap(i)
      PROVE  Goal
  BY <1>2, <1>a DEF Codes!RecordWithinCap, Codes!GotoI
<1>3. ASSUME NEW i \in Issue, Codes!HasCounter(i)
      PROVE  Goal
  BY <1>3, <1>a DEF Codes!HasCounter, Codes!GotoI
<1>4. ASSUME NEW i \in Issue, Codes!OpenCounter(i)
      PROVE  Goal
  BY <1>4, <1>a DEF Codes!OpenCounter, Codes!GotoI
<1>5. ASSUME NEW i \in Issue, Codes!NewGeneration(i)
      PROVE  Goal
  BY <1>5, <1>a DEF Codes!NewGeneration, Codes!GotoI
<1>6. ASSUME NEW i \in Issue, Codes!RotateLiveCode(i)
      PROVE  Goal
  <2> DEFINE x == Codes!Stored(i)
  <2>1. issue[i].at \in Nat /\ 0 \in 0..MaxAttempts /\ issue[i].at + CodeExpiresIn \in Nat
    BY <1>a, <1>n, <1>6 DEF IssueRow
  <2>2. x \in PendingRow
    BY <2>1, <1>6 DEF PendingRow, Codes!Stored
  <2>3. rec' = rec \/ rec' = x
    BY <1>6 DEF Codes!RotateLiveCode
  <2> HIDE DEF x
  <2> QED BY <2>2, <2>3, <1>a
<1>7. ASSUME NEW i \in Issue, Codes!ReplaceExpiredCode(i)
      PROVE  Goal
  <2> DEFINE x == Codes!Stored(i)
  <2>1. issue[i].at \in Nat /\ 0 \in 0..MaxAttempts /\ issue[i].at + CodeExpiresIn \in Nat
    BY <1>a, <1>n, <1>7 DEF IssueRow
  <2>2. x \in PendingRow
    BY <2>1, <1>7 DEF PendingRow, Codes!Stored
  <2>3. rec' = rec \/ rec' = x
    BY <1>7 DEF Codes!ReplaceExpiredCode
  <2> HIDE DEF x
  <2> QED BY <2>2, <2>3, <1>a
<1>8. ASSUME NEW i \in Issue, Codes!HasRecord(i)
      PROVE  Goal
  BY <1>8, <1>a DEF Codes!HasRecord, Codes!GotoI
<1>9. ASSUME NEW i \in Issue, Codes!DropRecord(i)
      PROVE  Goal
  BY <1>9, <1>a, NoRowTyped DEF Codes!DropRecord, Codes!GotoI, Codes!DropExpired,
      Codes!NoRec
<1>10. ASSUME NEW i \in Issue, Codes!InsertRecord(i)
      PROVE  Goal
  <2> DEFINE x == Codes!Stored(i)
  <2>1. issue[i].at \in Nat /\ 0 \in 0..MaxAttempts /\ issue[i].at + CodeExpiresIn \in Nat
    BY <1>a, <1>n, <1>10 DEF IssueRow
  <2>2. x \in PendingRow
    BY <2>1, <1>10 DEF PendingRow, Codes!Stored
  <2>3. rec' = rec \/ rec' = x
    BY <1>10 DEF Codes!InsertRecord
  <2> HIDE DEF x
  <2> QED BY <2>2, <2>3, <1>a
<1>11. ASSUME NEW g \in Guess, NEW c \in Issue \cup {"wrong"}, Codes!VerifyCode(g, c)
      PROVE  Goal
  BY <1>11, <1>a DEF Codes!VerifyCode
<1>12. ASSUME NEW g \in Guess, Codes!ReserveAttempt(g)
      PROVE  Goal
  <2>1. rec.attempts \in 0..MaxAttempts
    BY <1>a DEF PendingRow
  <2>2. rec' = rec \/ (rec' = [rec EXCEPT !.attempts = rec.attempts + 1]
          /\ rec.attempts < MaxAttempts)
    BY <1>12 DEF Codes!ReserveAttempt, Codes!AttemptLeft
  <2>3. rec.attempts < MaxAttempts => rec.attempts + 1 \in 0..MaxAttempts
    BY <2>1, <1>n
  <2> QED BY <2>2, <2>3, <1>a DEF PendingRow
<1>13. ASSUME NEW g \in Guess, Codes!ReserveGuess(g)
      PROVE  Goal
  BY <1>13, <1>a DEF Codes!ReserveGuess, Codes!GotoG
<1>14. ASSUME NEW g \in Guess, Codes!Refuse(g)
      PROVE  Goal
  BY <1>14, <1>a, NoRowTyped DEF Codes!Refuse, Codes!GotoG, Codes!DropExpired,
      Codes!NoRec
<1>15. ASSUME NEW g \in Guess, NEW b \in BOOLEAN, Codes!ConsumeCode(g, b)
      PROVE  Goal
  BY <1>15, <1>a, NoRowTyped DEF Codes!ConsumeCode, Codes!GotoG, Codes!Claimable,
      Codes!NoRec
<1>16. ASSUME Codes!RemoveRow
      PROVE  Goal
  BY <1>16, <1>a DEF Codes!RemoveRow
<1>17. ASSUME Codes!RemoveRecord
      PROVE  Goal
  BY <1>17, <1>a, NoRowTyped DEF Codes!RemoveRecord, Codes!NoRec
<1>18. ASSUME Codes!Tick
      PROVE  Goal
  BY <1>18, <1>a DEF Codes!Tick
<1> QED
  BY <1>0, <1>1, <1>2, <1>3, <1>4, <1>5, <1>6, <1>7, <1>8, <1>9, <1>10, <1>11, <1>12,
      <1>13, <1>14, <1>15, <1>16, <1>17, <1>18 DEF Codes!Next

LEMMA IssueTypedStep ==
  ASSUME Codes!CodesAssumption, MInv, [Codes!Next]_Codes!vars
  PROVE  issue' \in [Issue -> IssueRow]
<1>a. /\ MTyped /\ Codes!CodesAssumption /\ row \in CounterRow /\ rec \in PendingRow
      /\ issue \in [Issue -> IssueRow] /\ guess \in [Guess -> GuessRow]
  BY DEF MInv, MTyped
<1>n. /\ now \in Nat /\ CodeWindow \in Nat /\ Memory \in Nat /\ MaxLevel \in Nat
           /\ MaxAttempts \in Nat
      /\ CodeExpiresIn \in Nat
  BY <1>a DEF MTyped, Codes!CodesAssumption
<1>0. CASE UNCHANGED Codes!vars
  BY <1>0, <1>a, <1>n DEF Codes!vars, IssueRow
<1> DEFINE Goal == issue' \in [Issue -> IssueRow]
<1>1. ASSUME NEW i \in Issue, NEW b \in BOOLEAN, Codes!Ask(i, b)
      PROVE  Goal
  BY <1>1, <1>a, <1>n DEF Codes!Ask, IssueRow
<1>2. ASSUME NEW i \in Issue, Codes!RecordWithinCap(i)
      PROVE  Goal
  BY <1>2, <1>a, <1>n DEF Codes!RecordWithinCap, Codes!GotoI, IssueRow
<1>3. ASSUME NEW i \in Issue, Codes!HasCounter(i)
      PROVE  Goal
  BY <1>3, <1>a, <1>n DEF Codes!HasCounter, Codes!GotoI, IssueRow
<1>4. ASSUME NEW i \in Issue, Codes!OpenCounter(i)
      PROVE  Goal
  <2>1. issue[i].pass + 1 \in Nat
    BY <1>a, <1>4 DEF IssueRow
  <2> QED BY <2>1, <1>4, <1>a DEF Codes!OpenCounter, Codes!GotoI, IssueRow
<1>5. ASSUME NEW i \in Issue, Codes!NewGeneration(i)
      PROVE  Goal
  <2> DEFINE n == 1
  <2>1. n \in Nat
    OBVIOUS
  <2>2. issue' = [issue EXCEPT ![i].pc = "rotate", ![i].at = now, ![i].pass = n]
    BY <1>5 DEF Codes!NewGeneration
  <2> HIDE DEF n
  <2> QED BY ZenonT(60), <2>1, <2>2, <1>a, <1>n DEF IssueRow
<1>6. ASSUME NEW i \in Issue, Codes!RotateLiveCode(i)
      PROVE  Goal
  BY <1>6, <1>a, <1>n DEF Codes!RotateLiveCode, Codes!GotoI, Codes!Mail, Codes!Stored,
      IssueRow
<1>7. ASSUME NEW i \in Issue, Codes!ReplaceExpiredCode(i)
      PROVE  Goal
  BY <1>7, <1>a, <1>n DEF Codes!ReplaceExpiredCode, Codes!GotoI, Codes!Mail,
      Codes!Stored, IssueRow
<1>8. ASSUME NEW i \in Issue, Codes!HasRecord(i)
      PROVE  Goal
  BY <1>8, <1>a, <1>n DEF Codes!HasRecord, Codes!GotoI, IssueRow
<1>9. ASSUME NEW i \in Issue, Codes!DropRecord(i)
      PROVE  Goal
  BY <1>9, <1>a, <1>n DEF Codes!DropRecord, Codes!GotoI, Codes!DropExpired, Codes!NoRec,
      IssueRow
<1>10. ASSUME NEW i \in Issue, Codes!InsertRecord(i)
      PROVE  Goal
  <2>1. issue[i].pass + 1 \in Nat
    BY <1>a, <1>10 DEF IssueRow
  <2> QED BY <2>1, <1>10, <1>a DEF Codes!InsertRecord, Codes!Mail, Codes!GotoI, IssueRow
<1>11. ASSUME NEW g \in Guess, NEW c \in Issue \cup {"wrong"}, Codes!VerifyCode(g, c)
      PROVE  Goal
  BY <1>11, <1>a, <1>n DEF Codes!VerifyCode, IssueRow
<1>12. ASSUME NEW g \in Guess, Codes!ReserveAttempt(g)
      PROVE  Goal
  BY <1>12, <1>a, <1>n DEF Codes!ReserveAttempt, Codes!GotoG, Codes!AttemptLeft,
      IssueRow
<1>13. ASSUME NEW g \in Guess, Codes!ReserveGuess(g)
      PROVE  Goal
  BY <1>13, <1>a, <1>n DEF Codes!ReserveGuess, Codes!GotoG, IssueRow
<1>14. ASSUME NEW g \in Guess, Codes!Refuse(g)
      PROVE  Goal
  BY <1>14, <1>a, <1>n DEF Codes!Refuse, Codes!GotoG, Codes!DropExpired, Codes!NoRec,
      IssueRow
<1>15. ASSUME NEW g \in Guess, NEW b \in BOOLEAN, Codes!ConsumeCode(g, b)
      PROVE  Goal
  BY <1>15, <1>a, <1>n DEF Codes!ConsumeCode, Codes!GotoG, Codes!Claimable, Codes!NoRec,
      IssueRow
<1>16. ASSUME Codes!RemoveRow
      PROVE  Goal
  BY <1>16, <1>a, <1>n DEF Codes!RemoveRow, IssueRow
<1>17. ASSUME Codes!RemoveRecord
      PROVE  Goal
  BY <1>17, <1>a, <1>n DEF Codes!RemoveRecord, Codes!NoRec, IssueRow
<1>18. ASSUME Codes!Tick
      PROVE  Goal
  BY <1>18, <1>a, <1>n DEF Codes!Tick, IssueRow
<1> QED
  BY <1>0, <1>1, <1>2, <1>3, <1>4, <1>5, <1>6, <1>7, <1>8, <1>9, <1>10, <1>11, <1>12,
      <1>13, <1>14, <1>15, <1>16, <1>17, <1>18 DEF Codes!Next

LEMMA GuessTypedStep ==
  ASSUME Codes!CodesAssumption, MInv, [Codes!Next]_Codes!vars
  PROVE  guess' \in [Guess -> GuessRow]
<1>a. /\ MTyped /\ Codes!CodesAssumption /\ row \in CounterRow /\ rec \in PendingRow
      /\ issue \in [Issue -> IssueRow] /\ guess \in [Guess -> GuessRow]
  BY DEF MInv, MTyped
<1>n. /\ now \in Nat /\ CodeWindow \in Nat /\ Memory \in Nat /\ MaxLevel \in Nat
           /\ MaxAttempts \in Nat
      /\ CodeExpiresIn \in Nat
  BY <1>a DEF MTyped, Codes!CodesAssumption
<1>b. rec.code \in Issue \cup {"none"}
  BY <1>a DEF PendingRow
<1>0. CASE UNCHANGED Codes!vars
  BY <1>0, <1>a, <1>b, <1>n DEF Codes!vars, GuessRow
<1> DEFINE Goal == guess' \in [Guess -> GuessRow]
<1>1. ASSUME NEW i \in Issue, NEW b \in BOOLEAN, Codes!Ask(i, b)
      PROVE  Goal
  BY <1>1, <1>a, <1>b, <1>n DEF Codes!Ask, GuessRow
<1>2. ASSUME NEW i \in Issue, Codes!RecordWithinCap(i)
      PROVE  Goal
  BY <1>2, <1>a, <1>b, <1>n DEF Codes!RecordWithinCap, Codes!GotoI, GuessRow
<1>3. ASSUME NEW i \in Issue, Codes!HasCounter(i)
      PROVE  Goal
  BY <1>3, <1>a, <1>b, <1>n DEF Codes!HasCounter, Codes!GotoI, GuessRow
<1>4. ASSUME NEW i \in Issue, Codes!OpenCounter(i)
      PROVE  Goal
  BY <1>4, <1>a, <1>b, <1>n DEF Codes!OpenCounter, Codes!GotoI, GuessRow
<1>5. ASSUME NEW i \in Issue, Codes!NewGeneration(i)
      PROVE  Goal
  BY <1>5, <1>a, <1>b, <1>n DEF Codes!NewGeneration, Codes!GotoI, GuessRow
<1>6. ASSUME NEW i \in Issue, Codes!RotateLiveCode(i)
      PROVE  Goal
  BY <1>6, <1>a, <1>b, <1>n DEF Codes!RotateLiveCode, Codes!GotoI, Codes!Mail,
      Codes!Stored, GuessRow
<1>7. ASSUME NEW i \in Issue, Codes!ReplaceExpiredCode(i)
      PROVE  Goal
  BY <1>7, <1>a, <1>b, <1>n DEF Codes!ReplaceExpiredCode, Codes!GotoI, Codes!Mail,
      Codes!Stored, GuessRow
<1>8. ASSUME NEW i \in Issue, Codes!HasRecord(i)
      PROVE  Goal
  BY <1>8, <1>a, <1>b, <1>n DEF Codes!HasRecord, Codes!GotoI, GuessRow
<1>9. ASSUME NEW i \in Issue, Codes!DropRecord(i)
      PROVE  Goal
  BY <1>9, <1>a, <1>b, <1>n DEF Codes!DropRecord, Codes!GotoI, Codes!DropExpired,
      Codes!NoRec, GuessRow
<1>10. ASSUME NEW i \in Issue, Codes!InsertRecord(i)
      PROVE  Goal
  BY <1>10, <1>a, <1>b, <1>n DEF Codes!InsertRecord, Codes!GotoI, Codes!Mail,
      Codes!Stored, GuessRow
<1>11. ASSUME NEW g \in Guess, NEW c \in Issue \cup {"wrong"}, Codes!VerifyCode(g, c)
      PROVE  Goal
  BY <1>11, <1>a, <1>b, <1>n DEF Codes!VerifyCode, GuessRow
<1>12. ASSUME NEW g \in Guess, Codes!ReserveAttempt(g)
      PROVE  Goal
  BY <1>12, <1>a, <1>b, <1>n DEF Codes!ReserveAttempt, Codes!GotoG, Codes!AttemptLeft,
      GuessRow
<1>13. ASSUME NEW g \in Guess, Codes!ReserveGuess(g)
      PROVE  Goal
  BY <1>13, <1>a, <1>b, <1>n DEF Codes!ReserveGuess, Codes!GotoG, GuessRow
<1>14. ASSUME NEW g \in Guess, Codes!Refuse(g)
      PROVE  Goal
  BY <1>14, <1>a, <1>b, <1>n DEF Codes!Refuse, Codes!GotoG, Codes!DropExpired,
      Codes!NoRec, GuessRow
<1>15. ASSUME NEW g \in Guess, NEW b \in BOOLEAN, Codes!ConsumeCode(g, b)
      PROVE  Goal
  BY <1>15, <1>a, <1>b, <1>n DEF Codes!ConsumeCode, Codes!GotoG, Codes!Claimable,
      Codes!NoRec, GuessRow
<1>16. ASSUME Codes!RemoveRow
      PROVE  Goal
  BY <1>16, <1>a, <1>b, <1>n DEF Codes!RemoveRow, GuessRow
<1>17. ASSUME Codes!RemoveRecord
      PROVE  Goal
  BY <1>17, <1>a, <1>b, <1>n DEF Codes!RemoveRecord, Codes!NoRec, GuessRow
<1>18. ASSUME Codes!Tick
      PROVE  Goal
  BY <1>18, <1>a, <1>b, <1>n DEF Codes!Tick, GuessRow
<1> QED
  BY <1>0, <1>1, <1>2, <1>3, <1>4, <1>5, <1>6, <1>7, <1>8, <1>9, <1>10, <1>11, <1>12,
      <1>13, <1>14, <1>15, <1>16, <1>17, <1>18 DEF Codes!Next

LEMMA ComparedTypedStep ==
  ASSUME Codes!CodesAssumption, MInv, [Codes!Next]_Codes!vars
  PROVE  compared' \in [Issue -> Nat]
<1>a. /\ compared \in [Issue -> Nat] /\ guess \in [Guess -> GuessRow]
      /\ \A x \in Guess : GuessSound(x)
  BY DEF MInv, MTyped
<1>0. CASE UNCHANGED Codes!vars
  BY <1>0, <1>a DEF Codes!vars
<1> DEFINE Goal == compared' \in [Issue -> Nat]
<1>1. ASSUME NEW i \in Issue, NEW b \in BOOLEAN, Codes!Ask(i, b)
      PROVE  Goal
  BY <1>1, <1>a DEF Codes!Ask
<1>2. ASSUME NEW i \in Issue, Codes!RecordWithinCap(i)
      PROVE  Goal
  BY <1>2, <1>a DEF Codes!RecordWithinCap, Codes!GotoI
<1>3. ASSUME NEW i \in Issue, Codes!HasCounter(i)
      PROVE  Goal
  BY <1>3, <1>a DEF Codes!HasCounter, Codes!GotoI
<1>4. ASSUME NEW i \in Issue, Codes!OpenCounter(i)
      PROVE  Goal
  BY <1>4, <1>a DEF Codes!OpenCounter, Codes!GotoI
<1>5. ASSUME NEW i \in Issue, Codes!NewGeneration(i)
      PROVE  Goal
  BY <1>5, <1>a DEF Codes!NewGeneration, Codes!GotoI
<1>6. ASSUME NEW i \in Issue, Codes!RotateLiveCode(i)
      PROVE  Goal
  BY <1>6, <1>a DEF Codes!RotateLiveCode, Codes!GotoI, Codes!Mail, Codes!Stored
<1>7. ASSUME NEW i \in Issue, Codes!ReplaceExpiredCode(i)
      PROVE  Goal
  BY <1>7, <1>a DEF Codes!ReplaceExpiredCode, Codes!GotoI, Codes!Mail, Codes!Stored
<1>8. ASSUME NEW i \in Issue, Codes!HasRecord(i)
      PROVE  Goal
  BY <1>8, <1>a DEF Codes!HasRecord, Codes!GotoI
<1>9. ASSUME NEW i \in Issue, Codes!DropRecord(i)
      PROVE  Goal
  BY <1>9, <1>a DEF Codes!DropRecord, Codes!GotoI, Codes!DropExpired, Codes!NoRec
<1>10. ASSUME NEW i \in Issue, Codes!InsertRecord(i)
      PROVE  Goal
  BY <1>10, <1>a DEF Codes!InsertRecord, Codes!GotoI, Codes!Mail, Codes!Stored
<1>11. ASSUME NEW g \in Guess, NEW c \in Issue \cup {"wrong"}, Codes!VerifyCode(g, c)
      PROVE  Goal
  BY <1>11, <1>a DEF Codes!VerifyCode
<1>12. ASSUME NEW g \in Guess, Codes!ReserveAttempt(g)
      PROVE  Goal
  BY <1>12, <1>a DEF Codes!ReserveAttempt, Codes!GotoG, Codes!AttemptLeft
<1>13. ASSUME NEW g \in Guess, Codes!ReserveGuess(g)
      PROVE  Goal
  <2>1. guess[g].code \in Issue
    BY <1>a, <1>13 DEF GuessSound, Codes!ReserveGuess
  <2>2. compared[guess[g].code] + 1 \in Nat
    BY <2>1, <1>a
  <2> QED BY <1>13, <1>a, <2>1, <2>2 DEF Codes!ReserveGuess
<1>14. ASSUME NEW g \in Guess, Codes!Refuse(g)
      PROVE  Goal
  BY <1>14, <1>a DEF Codes!Refuse, Codes!GotoG, Codes!DropExpired, Codes!NoRec
<1>15. ASSUME NEW g \in Guess, NEW b \in BOOLEAN, Codes!ConsumeCode(g, b)
      PROVE  Goal
  BY <1>15, <1>a DEF Codes!ConsumeCode, Codes!GotoG, Codes!Claimable, Codes!NoRec
<1>16. ASSUME Codes!RemoveRow
      PROVE  Goal
  BY <1>16, <1>a DEF Codes!RemoveRow
<1>17. ASSUME Codes!RemoveRecord
      PROVE  Goal
  BY <1>17, <1>a DEF Codes!RemoveRecord, Codes!NoRec
<1>18. ASSUME Codes!Tick
      PROVE  Goal
  BY <1>18, <1>a DEF Codes!Tick
<1> QED
  BY <1>0, <1>1, <1>2, <1>3, <1>4, <1>5, <1>6, <1>7, <1>8, <1>9, <1>10, <1>11, <1>12,
      <1>13, <1>14, <1>15, <1>16, <1>17, <1>18 DEF Codes!Next

LEMMA MailedCodeStays ==
  ASSUME NEW z \in Issue, Codes!CodesAssumption, MInv, [Codes!Next]_Codes!vars,
         issue[z].pc = "mailed"
  PROVE  issue'[z].pc = "mailed"
<1>a. issue \in [Issue -> IssueRow] /\ guess \in [Guess -> GuessRow] /\ rec \in PendingRow
  BY DEF MInv, MTyped
<1>b. StoredMailed /\ \A x \in Guess : GuessSound(x)
  BY DEF MInv
<1>0. CASE UNCHANGED Codes!vars
  BY <1>0, <1>a DEF Codes!vars, IssueRow
<1> DEFINE Goal == issue'[z].pc = "mailed"
<1>1. ASSUME NEW i \in Issue, NEW b \in BOOLEAN, Codes!Ask(i, b)
      PROVE  Goal
  BY <1>1, <1>a DEF Codes!Ask, IssueRow
<1>2. ASSUME NEW i \in Issue, Codes!RecordWithinCap(i)
      PROVE  Goal
  BY <1>2, <1>a DEF Codes!RecordWithinCap, Codes!GotoI, IssueRow
<1>3. ASSUME NEW i \in Issue, Codes!HasCounter(i)
      PROVE  Goal
  BY <1>3, <1>a DEF Codes!HasCounter, Codes!GotoI, IssueRow
<1>4. ASSUME NEW i \in Issue, Codes!OpenCounter(i)
      PROVE  Goal
  BY <1>4, <1>a DEF Codes!OpenCounter, Codes!GotoI, IssueRow
<1>5. ASSUME NEW i \in Issue, Codes!NewGeneration(i)
      PROVE  Goal
  BY <1>5, <1>a DEF Codes!NewGeneration, Codes!GotoI, IssueRow
<1>6. ASSUME NEW i \in Issue, Codes!RotateLiveCode(i)
      PROVE  Goal
  BY <1>6, <1>a DEF Codes!RotateLiveCode, Codes!GotoI, Codes!Mail, Codes!Stored,
      IssueRow
<1>7. ASSUME NEW i \in Issue, Codes!ReplaceExpiredCode(i)
      PROVE  Goal
  BY <1>7, <1>a DEF Codes!ReplaceExpiredCode, Codes!GotoI, Codes!Mail, Codes!Stored,
      IssueRow
<1>8. ASSUME NEW i \in Issue, Codes!HasRecord(i)
      PROVE  Goal
  BY <1>8, <1>a DEF Codes!HasRecord, Codes!GotoI, IssueRow
<1>9. ASSUME NEW i \in Issue, Codes!DropRecord(i)
      PROVE  Goal
  BY <1>9, <1>a DEF Codes!DropRecord, Codes!GotoI, Codes!DropExpired, Codes!NoRec,
      IssueRow
<1>10. ASSUME NEW i \in Issue, Codes!InsertRecord(i)
      PROVE  Goal
  BY <1>10, <1>a DEF Codes!InsertRecord, Codes!GotoI, Codes!Mail, Codes!Stored, IssueRow
<1>11. ASSUME NEW g \in Guess, NEW c \in Issue \cup {"wrong"}, Codes!VerifyCode(g, c)
      PROVE  Goal
  BY <1>11, <1>a DEF Codes!VerifyCode, IssueRow
<1>12. ASSUME NEW g \in Guess, Codes!ReserveAttempt(g)
      PROVE  Goal
  BY <1>12, <1>a DEF Codes!ReserveAttempt, Codes!GotoG, Codes!AttemptLeft, IssueRow
<1>13. ASSUME NEW g \in Guess, Codes!ReserveGuess(g)
      PROVE  Goal
  BY <1>13, <1>a DEF Codes!ReserveGuess, Codes!GotoG, IssueRow
<1>14. ASSUME NEW g \in Guess, Codes!Refuse(g)
      PROVE  Goal
  BY <1>14, <1>a DEF Codes!Refuse, Codes!GotoG, Codes!DropExpired, Codes!NoRec, IssueRow
<1>15. ASSUME NEW g \in Guess, NEW b \in BOOLEAN, Codes!ConsumeCode(g, b)
      PROVE  Goal
  BY <1>15, <1>a DEF Codes!ConsumeCode, Codes!GotoG, Codes!Claimable, Codes!NoRec,
      IssueRow
<1>16. ASSUME Codes!RemoveRow
      PROVE  Goal
  BY <1>16, <1>a DEF Codes!RemoveRow, IssueRow
<1>17. ASSUME Codes!RemoveRecord
      PROVE  Goal
  BY <1>17, <1>a DEF Codes!RemoveRecord, Codes!NoRec, IssueRow
<1>18. ASSUME Codes!Tick
      PROVE  Goal
  BY <1>18, <1>a DEF Codes!Tick, IssueRow
<1> QED
  BY <1>0, <1>1, <1>2, <1>3, <1>4, <1>5, <1>6, <1>7, <1>8, <1>9, <1>10, <1>11, <1>12,
      <1>13, <1>14, <1>15, <1>16, <1>17, <1>18 DEF Codes!Next

LEMMA RecordMoves ==
  ASSUME Codes!CodesAssumption, MInv, [Codes!Next]_Codes!vars
  PROVE  RecordStep
<1>a. issue \in [Issue -> IssueRow] /\ guess \in [Guess -> GuessRow] /\ rec \in PendingRow
  BY DEF MInv, MTyped
<1>b. StoredMailed /\ \A x \in Guess : GuessSound(x)
  BY DEF MInv
<1>0. CASE UNCHANGED Codes!vars
  BY <1>0, <1>a DEF Codes!vars, RecordStep, IssueRow
<1>1. ASSUME NEW i \in Issue, NEW b \in BOOLEAN, Codes!Ask(i, b)
      PROVE  RecordStep
  BY <1>1, <1>a DEF Codes!Ask, RecordStep, IssueRow
<1>2. ASSUME NEW i \in Issue, Codes!RecordWithinCap(i)
      PROVE  RecordStep
  BY <1>2, <1>a DEF Codes!RecordWithinCap, Codes!GotoI, RecordStep, IssueRow
<1>3. ASSUME NEW i \in Issue, Codes!HasCounter(i)
      PROVE  RecordStep
  BY <1>3, <1>a DEF Codes!HasCounter, Codes!GotoI, RecordStep, IssueRow
<1>4. ASSUME NEW i \in Issue, Codes!OpenCounter(i)
      PROVE  RecordStep
  BY <1>4, <1>a DEF Codes!OpenCounter, Codes!GotoI, RecordStep, IssueRow
<1>5. ASSUME NEW i \in Issue, Codes!NewGeneration(i)
      PROVE  RecordStep
  BY <1>5, <1>a DEF Codes!NewGeneration, Codes!GotoI, RecordStep, IssueRow
<1>6. ASSUME NEW i \in Issue, Codes!RotateLiveCode(i)
      PROVE  RecordStep
  BY <1>6, <1>a DEF Codes!RotateLiveCode, Codes!GotoI, Codes!Mail, Codes!Stored,
      RecordStep, IssueRow
<1>7. ASSUME NEW i \in Issue, Codes!ReplaceExpiredCode(i)
      PROVE  RecordStep
  BY <1>7, <1>a DEF Codes!ReplaceExpiredCode, Codes!GotoI, Codes!Mail, Codes!Stored,
      RecordStep, IssueRow
<1>8. ASSUME NEW i \in Issue, Codes!HasRecord(i)
      PROVE  RecordStep
  BY <1>8, <1>a DEF Codes!HasRecord, Codes!GotoI, RecordStep, IssueRow
<1>9. ASSUME NEW i \in Issue, Codes!DropRecord(i)
      PROVE  RecordStep
  BY <1>9, <1>a, NoRowTyped DEF Codes!DropRecord, Codes!GotoI, Codes!DropExpired,
      Codes!NoRec, RecordStep, IssueRow
<1>10. ASSUME NEW i \in Issue, Codes!InsertRecord(i)
      PROVE  RecordStep
  BY <1>10, <1>a DEF Codes!InsertRecord, Codes!GotoI, Codes!Mail, Codes!Stored,
      RecordStep, IssueRow
<1>11. ASSUME NEW g \in Guess, NEW c \in Issue \cup {"wrong"}, Codes!VerifyCode(g, c)
      PROVE  RecordStep
  BY <1>11, <1>a DEF Codes!VerifyCode, RecordStep, IssueRow
<1>12. ASSUME NEW g \in Guess, Codes!ReserveAttempt(g)
      PROVE  RecordStep
  BY <1>12, <1>a DEF Codes!ReserveAttempt, Codes!GotoG, Codes!AttemptLeft, RecordStep,
      IssueRow
<1>13. ASSUME NEW g \in Guess, Codes!ReserveGuess(g)
      PROVE  RecordStep
  BY <1>13, <1>a DEF Codes!ReserveGuess, Codes!GotoG, RecordStep, IssueRow
<1>14. ASSUME NEW g \in Guess, Codes!Refuse(g)
      PROVE  RecordStep
  BY <1>14, <1>a, NoRowTyped DEF Codes!Refuse, Codes!GotoG, Codes!DropExpired,
      Codes!NoRec, RecordStep, IssueRow
<1>15. ASSUME NEW g \in Guess, NEW b \in BOOLEAN, Codes!ConsumeCode(g, b)
      PROVE  RecordStep
  BY <1>15, <1>a, NoRowTyped DEF Codes!ConsumeCode, Codes!GotoG, Codes!Claimable,
      Codes!NoRec, RecordStep, IssueRow
<1>16. ASSUME Codes!RemoveRow
      PROVE  RecordStep
  BY <1>16, <1>a DEF Codes!RemoveRow, RecordStep, IssueRow
<1>17. ASSUME Codes!RemoveRecord
      PROVE  RecordStep
  BY <1>17, <1>a, NoRowTyped DEF Codes!RemoveRecord, Codes!NoRec, RecordStep, IssueRow
<1>18. ASSUME Codes!Tick
      PROVE  RecordStep
  BY <1>18, <1>a DEF Codes!Tick, RecordStep, IssueRow
<1> QED
  BY <1>0, <1>1, <1>2, <1>3, <1>4, <1>5, <1>6, <1>7, <1>8, <1>9, <1>10, <1>11, <1>12,
      <1>13, <1>14, <1>15, <1>16, <1>17, <1>18 DEF Codes!Next

LEMMA StoredMailedStep ==
  ASSUME Codes!CodesAssumption, MInv, [Codes!Next]_Codes!vars
  PROVE  StoredMailed'
<1>a. StoredMailed /\ rec \in PendingRow
  BY DEF MInv, MTyped
<1>1. CASE rec' = rec \/ rec'.st = "none"
  BY <1>1, <1>a, MailedCodeStays DEF StoredMailed
<1>2. CASE rec.st = "rec" /\ rec' = [rec EXCEPT !.attempts = rec.attempts + 1]
  <2>1. rec'.st = "rec" /\ rec'.code = rec.code
    BY <1>2, <1>a DEF PendingRow
  <2> QED BY <2>1, <1>2, <1>a, MailedCodeStays DEF StoredMailed
<1>3. CASE \E z \in Issue : rec' = Codes!Stored(z) /\ issue'[z].pc = "mailed"
  BY <1>3 DEF StoredMailed, Codes!Stored
<1> QED BY <1>1, <1>2, <1>3, RecordMoves DEF RecordStep

LEMMA GuessSoundStep ==
  ASSUME NEW z \in Guess, Codes!CodesAssumption, MInv, [Codes!Next]_Codes!vars
  PROVE  GuessSound(z)'
<1>a. issue \in [Issue -> IssueRow] /\ guess \in [Guess -> GuessRow] /\ rec \in PendingRow
  BY DEF MInv, MTyped
<1>b. StoredMailed /\ \A x \in Guess : GuessSound(x)
  BY DEF MInv
<1>c. \A x \in Issue : issue[x].pc = "mailed" => issue'[x].pc = "mailed"
  BY MailedCodeStays
<1>0. CASE UNCHANGED Codes!vars
  BY <1>0, <1>a, <1>b, <1>c DEF Codes!vars, GuessSound, StoredMailed, GuessRow
<1> DEFINE Goal == GuessSound(z)'
<1>1. ASSUME NEW i \in Issue, NEW b \in BOOLEAN, Codes!Ask(i, b)
      PROVE  Goal
  BY <1>1, <1>a, <1>b, <1>c DEF Codes!Ask, GuessSound, StoredMailed, GuessRow
<1>2. ASSUME NEW i \in Issue, Codes!RecordWithinCap(i)
      PROVE  Goal
  BY <1>2, <1>a, <1>b, <1>c DEF Codes!RecordWithinCap, Codes!GotoI, GuessSound,
      StoredMailed, GuessRow
<1>3. ASSUME NEW i \in Issue, Codes!HasCounter(i)
      PROVE  Goal
  BY <1>3, <1>a, <1>b, <1>c DEF Codes!HasCounter, Codes!GotoI, GuessSound, StoredMailed,
      GuessRow
<1>4. ASSUME NEW i \in Issue, Codes!OpenCounter(i)
      PROVE  Goal
  BY <1>4, <1>a, <1>b, <1>c DEF Codes!OpenCounter, Codes!GotoI, GuessSound,
      StoredMailed, GuessRow
<1>5. ASSUME NEW i \in Issue, Codes!NewGeneration(i)
      PROVE  Goal
  BY <1>5, <1>a, <1>b, <1>c DEF Codes!NewGeneration, Codes!GotoI, GuessSound,
      StoredMailed, GuessRow
<1>6. ASSUME NEW i \in Issue, Codes!RotateLiveCode(i)
      PROVE  Goal
  BY <1>6, <1>a, <1>b, <1>c DEF Codes!RotateLiveCode, Codes!GotoI, Codes!Mail,
      Codes!Stored, GuessSound, StoredMailed, GuessRow
<1>7. ASSUME NEW i \in Issue, Codes!ReplaceExpiredCode(i)
      PROVE  Goal
  BY <1>7, <1>a, <1>b, <1>c DEF Codes!ReplaceExpiredCode, Codes!GotoI, Codes!Mail,
      Codes!Stored, GuessSound, StoredMailed, GuessRow
<1>8. ASSUME NEW i \in Issue, Codes!HasRecord(i)
      PROVE  Goal
  BY <1>8, <1>a, <1>b, <1>c DEF Codes!HasRecord, Codes!GotoI, GuessSound, StoredMailed,
      GuessRow
<1>9. ASSUME NEW i \in Issue, Codes!DropRecord(i)
      PROVE  Goal
  BY <1>9, <1>a, <1>b, <1>c DEF Codes!DropRecord, Codes!GotoI, Codes!DropExpired,
      Codes!NoRec, GuessSound, StoredMailed, GuessRow
<1>10. ASSUME NEW i \in Issue, Codes!InsertRecord(i)
      PROVE  Goal
  BY <1>10, <1>a, <1>b, <1>c DEF Codes!InsertRecord, Codes!GotoI, Codes!Mail,
      Codes!Stored, GuessSound, StoredMailed, GuessRow
<1>11. ASSUME NEW g \in Guess, NEW c \in Issue \cup {"wrong"}, Codes!VerifyCode(g, c)
      PROVE  Goal
  BY <1>11, <1>a, <1>b, <1>c DEF Codes!VerifyCode, GuessSound, StoredMailed, GuessRow
<1>12. ASSUME NEW g \in Guess, Codes!ReserveAttempt(g)
      PROVE  Goal
  BY <1>12, <1>a, <1>b, <1>c DEF Codes!ReserveAttempt, Codes!GotoG, Codes!AttemptLeft,
      GuessSound, StoredMailed, GuessRow
<1>13. ASSUME NEW g \in Guess, Codes!ReserveGuess(g)
      PROVE  Goal
  BY <1>13, <1>a, <1>b, <1>c DEF Codes!ReserveGuess, Codes!GotoG, GuessSound,
      StoredMailed, GuessRow
<1>14. ASSUME NEW g \in Guess, Codes!Refuse(g)
      PROVE  Goal
  BY <1>14, <1>a, <1>b, <1>c DEF Codes!Refuse, Codes!GotoG, Codes!DropExpired,
      Codes!NoRec, GuessSound, StoredMailed, GuessRow
<1>15. ASSUME NEW g \in Guess, NEW b \in BOOLEAN, Codes!ConsumeCode(g, b)
      PROVE  Goal
  BY <1>15, <1>a, <1>b, <1>c DEF Codes!ConsumeCode, Codes!GotoG, Codes!Claimable,
      Codes!NoRec, GuessSound, StoredMailed, GuessRow
<1>16. ASSUME Codes!RemoveRow
      PROVE  Goal
  BY <1>16, <1>a, <1>b, <1>c DEF Codes!RemoveRow, GuessSound, StoredMailed, GuessRow
<1>17. ASSUME Codes!RemoveRecord
      PROVE  Goal
  BY <1>17, <1>a, <1>b, <1>c DEF Codes!RemoveRecord, Codes!NoRec, GuessSound,
      StoredMailed, GuessRow
<1>18. ASSUME Codes!Tick
      PROVE  Goal
  BY <1>18, <1>a, <1>b, <1>c DEF Codes!Tick, GuessSound, StoredMailed, GuessRow
<1> QED
  BY <1>0, <1>1, <1>2, <1>3, <1>4, <1>5, <1>6, <1>7, <1>8, <1>9, <1>10, <1>11, <1>12,
      <1>13, <1>14, <1>15, <1>16, <1>17, <1>18 DEF Codes!Next

LEMMA TryingMoves ==
  ASSUME NEW z \in Issue, Codes!CodesAssumption, MInv, [Codes!Next]_Codes!vars
  PROVE  CodeStep(z)
<1>a. issue \in [Issue -> IssueRow] /\ guess \in [Guess -> GuessRow] /\ rec \in PendingRow
  BY DEF MInv, MTyped
<1>b. StoredMailed /\ \A x \in Guess : GuessSound(x)
  BY DEF MInv
<1>c. compared \in [Issue -> Nat]
  BY DEF MInv, MTyped
<1>0. CASE UNCHANGED Codes!vars
  BY <1>0, <1>a, <1>c DEF Codes!vars, CodeStep, Trying, GuessRow
<1>1. ASSUME NEW i \in Issue, NEW b \in BOOLEAN, Codes!Ask(i, b)
      PROVE  CodeStep(z)
  BY <1>1, <1>a, <1>c DEF Codes!Ask, CodeStep, Trying, GuessRow
<1>2. ASSUME NEW i \in Issue, Codes!RecordWithinCap(i)
      PROVE  CodeStep(z)
  BY <1>2, <1>a, <1>c DEF Codes!RecordWithinCap, Codes!GotoI, CodeStep, Trying, GuessRow
<1>3. ASSUME NEW i \in Issue, Codes!HasCounter(i)
      PROVE  CodeStep(z)
  BY <1>3, <1>a, <1>c DEF Codes!HasCounter, Codes!GotoI, CodeStep, Trying, GuessRow
<1>4. ASSUME NEW i \in Issue, Codes!OpenCounter(i)
      PROVE  CodeStep(z)
  BY <1>4, <1>a, <1>c DEF Codes!OpenCounter, Codes!GotoI, CodeStep, Trying, GuessRow
<1>5. ASSUME NEW i \in Issue, Codes!NewGeneration(i)
      PROVE  CodeStep(z)
  BY <1>5, <1>a, <1>c DEF Codes!NewGeneration, Codes!GotoI, CodeStep, Trying, GuessRow
<1>6. ASSUME NEW i \in Issue, Codes!RotateLiveCode(i)
      PROVE  CodeStep(z)
  BY <1>6, <1>a, <1>c DEF Codes!RotateLiveCode, Codes!GotoI, Codes!Mail, Codes!Stored,
      CodeStep, Trying, GuessRow
<1>7. ASSUME NEW i \in Issue, Codes!ReplaceExpiredCode(i)
      PROVE  CodeStep(z)
  BY <1>7, <1>a, <1>c DEF Codes!ReplaceExpiredCode, Codes!GotoI, Codes!Mail,
      Codes!Stored, CodeStep, Trying, GuessRow
<1>8. ASSUME NEW i \in Issue, Codes!HasRecord(i)
      PROVE  CodeStep(z)
  BY <1>8, <1>a, <1>c DEF Codes!HasRecord, Codes!GotoI, CodeStep, Trying, GuessRow
<1>9. ASSUME NEW i \in Issue, Codes!DropRecord(i)
      PROVE  CodeStep(z)
  BY <1>9, <1>a, <1>c DEF Codes!DropRecord, Codes!GotoI, Codes!DropExpired, Codes!NoRec,
      CodeStep, Trying, GuessRow
<1>10. ASSUME NEW i \in Issue, Codes!InsertRecord(i)
      PROVE  CodeStep(z)
  BY <1>10, <1>a, <1>c DEF Codes!InsertRecord, Codes!GotoI, Codes!Mail, Codes!Stored,
      CodeStep, Trying, GuessRow
<1>11. ASSUME NEW g \in Guess, NEW c \in Issue \cup {"wrong"}, Codes!VerifyCode(g, c)
      PROVE  CodeStep(z)
  BY <1>11, <1>a, <1>c DEF Codes!VerifyCode, CodeStep, Trying, GuessRow
<1>12. ASSUME NEW g \in Guess, Codes!ReserveAttempt(g)
      PROVE  CodeStep(z)
  <2>1. \/ guess' = [guess EXCEPT ![g].pc = "drop"]
        \/ /\ rec.st = "rec" /\ rec' = [rec EXCEPT !.attempts = rec.attempts + 1]
           /\ rec.attempts < MaxAttempts
           /\ guess' = [guess EXCEPT ![g].pc = "guess", ![g].code = rec.code]
    BY <1>12 DEF Codes!ReserveAttempt, Codes!AttemptLeft, Codes!GotoG
  <2>2. compared' = compared /\ guess[g].pc = "reserve"
    BY <1>12 DEF Codes!ReserveAttempt
  <2>3. CASE guess' = [guess EXCEPT ![g].pc = "drop"]
    BY <2>2, <2>3, <1>a DEF CodeStep, Trying, GuessRow
  <2>4. CASE guess' = [guess EXCEPT ![g].pc = "guess", ![g].code = rec.code]
    <3>1. CASE rec.code = z
      <4>1. Trying(z)' = Trying(z) \cup {g}
        BY <2>2, <2>4, <3>1, <1>a DEF Trying, GuessRow
      <4> QED BY <4>1, <2>1, <2>2, <2>3, <3>1 DEF CodeStep
    <3>2. CASE rec.code # z
      BY <2>2, <2>4, <3>2, <1>a DEF CodeStep, Trying, GuessRow
    <3> QED BY <3>1, <3>2
  <2> QED BY <2>1, <2>3, <2>4
<1>13. ASSUME NEW g \in Guess, Codes!ReserveGuess(g)
      PROVE  CodeStep(z)
  <2>1. guess[g].pc = "guess" /\ guess[g].code \in Issue
    BY <1>13, <1>b DEF Codes!ReserveGuess, GuessSound
  <2>2. /\ \E p \in {"drop", "consume", "idle"} : guess' = [guess EXCEPT ![g].pc = p]
        /\ \/ compared' = compared
           \/ compared' = [compared EXCEPT ![guess[g].code] = compared[guess[g].code] + 1]
    BY <1>13 DEF Codes!ReserveGuess, Codes!GotoG
  <2>3. Trying(z)' = Trying(z) \ {g}
    BY <2>2, <1>a DEF Trying, GuessRow
  <2>4. CASE guess[g].code = z
    <3>1. g \in Trying(z)
      BY <2>1, <2>4 DEF Trying
    <3>2. compared'[z] = compared[z] \/ compared'[z] = compared[z] + 1
      BY <2>2, <2>4, <1>c
    <3> QED BY <2>3, <3>1, <3>2 DEF CodeStep
  <2>5. CASE guess[g].code # z
    BY <2>2, <2>3, <2>5, <1>c DEF CodeStep
  <2> QED BY <2>4, <2>5
<1>14. ASSUME NEW g \in Guess, Codes!Refuse(g)
      PROVE  CodeStep(z)
  BY <1>14, <1>a, <1>c DEF Codes!Refuse, Codes!GotoG, Codes!DropExpired, Codes!NoRec,
      CodeStep, Trying, GuessRow
<1>15. ASSUME NEW g \in Guess, NEW b \in BOOLEAN, Codes!ConsumeCode(g, b)
      PROVE  CodeStep(z)
  BY <1>15, <1>a, <1>c DEF Codes!ConsumeCode, Codes!GotoG, Codes!Claimable, Codes!NoRec,
      CodeStep, Trying, GuessRow
<1>16. ASSUME Codes!RemoveRow
      PROVE  CodeStep(z)
  BY <1>16, <1>a, <1>c DEF Codes!RemoveRow, CodeStep, Trying, GuessRow
<1>17. ASSUME Codes!RemoveRecord
      PROVE  CodeStep(z)
  BY <1>17, <1>a, <1>c DEF Codes!RemoveRecord, Codes!NoRec, CodeStep, Trying, GuessRow
<1>18. ASSUME Codes!Tick
      PROVE  CodeStep(z)
  BY <1>18, <1>a, <1>c DEF Codes!Tick, CodeStep, Trying, GuessRow
<1> QED
  BY <1>0, <1>1, <1>2, <1>3, <1>4, <1>5, <1>6, <1>7, <1>8, <1>9, <1>10, <1>11, <1>12,
      <1>13, <1>14, <1>15, <1>16, <1>17, <1>18 DEF Codes!Next

LEMMA UnmailedUntried ==
  ASSUME NEW z \in Issue, Codes!CodesAssumption, MInv, [Codes!Next]_Codes!vars,
         issue'[z].pc # "mailed", issue[z].pc # "mailed", compared[z] = 0,
         Trying(z) = {}
  PROVE  compared'[z] = 0 /\ Trying(z)' = {}
<1>a. issue \in [Issue -> IssueRow] /\ guess \in [Guess -> GuessRow] /\ rec \in PendingRow
  BY DEF MInv, MTyped
<1>b. StoredMailed /\ \A x \in Guess : GuessSound(x)
  BY DEF MInv
<1>c. compared \in [Issue -> Nat]
  BY DEF MInv, MTyped
<1>d. \A x \in Guess : guess[x].pc = "guess" => guess[x].code # z
  BY DEF Trying
<1>e. rec.st = "rec" => rec.code # z
  BY <1>b DEF StoredMailed
<1>0. CASE UNCHANGED Codes!vars
  BY <1>0, <1>a, <1>c, <1>d, <1>e DEF Codes!vars, Trying, GuessRow
<1> DEFINE Goal == compared'[z] = 0 /\ Trying(z)' = {}
<1>1. ASSUME NEW i \in Issue, NEW b \in BOOLEAN, Codes!Ask(i, b)
      PROVE  Goal
  BY <1>1, <1>a, <1>c, <1>d, <1>e DEF Codes!Ask, Trying, GuessRow
<1>2. ASSUME NEW i \in Issue, Codes!RecordWithinCap(i)
      PROVE  Goal
  BY <1>2, <1>a, <1>c, <1>d, <1>e DEF Codes!RecordWithinCap, Codes!GotoI, Trying,
      GuessRow
<1>3. ASSUME NEW i \in Issue, Codes!HasCounter(i)
      PROVE  Goal
  BY <1>3, <1>a, <1>c, <1>d, <1>e DEF Codes!HasCounter, Codes!GotoI, Trying, GuessRow
<1>4. ASSUME NEW i \in Issue, Codes!OpenCounter(i)
      PROVE  Goal
  BY <1>4, <1>a, <1>c, <1>d, <1>e DEF Codes!OpenCounter, Codes!GotoI, Trying, GuessRow
<1>5. ASSUME NEW i \in Issue, Codes!NewGeneration(i)
      PROVE  Goal
  BY <1>5, <1>a, <1>c, <1>d, <1>e DEF Codes!NewGeneration, Codes!GotoI, Trying, GuessRow
<1>6. ASSUME NEW i \in Issue, Codes!RotateLiveCode(i)
      PROVE  Goal
  BY <1>6, <1>a, <1>c, <1>d, <1>e DEF Codes!RotateLiveCode, Codes!GotoI, Codes!Mail,
      Codes!Stored, Trying, GuessRow
<1>7. ASSUME NEW i \in Issue, Codes!ReplaceExpiredCode(i)
      PROVE  Goal
  BY <1>7, <1>a, <1>c, <1>d, <1>e DEF Codes!ReplaceExpiredCode, Codes!GotoI, Codes!Mail,
      Codes!Stored, Trying, GuessRow
<1>8. ASSUME NEW i \in Issue, Codes!HasRecord(i)
      PROVE  Goal
  BY <1>8, <1>a, <1>c, <1>d, <1>e DEF Codes!HasRecord, Codes!GotoI, Trying, GuessRow
<1>9. ASSUME NEW i \in Issue, Codes!DropRecord(i)
      PROVE  Goal
  BY <1>9, <1>a, <1>c, <1>d, <1>e DEF Codes!DropRecord, Codes!GotoI, Codes!DropExpired,
      Codes!NoRec, Trying, GuessRow
<1>10. ASSUME NEW i \in Issue, Codes!InsertRecord(i)
      PROVE  Goal
  BY <1>10, <1>a, <1>c, <1>d, <1>e DEF Codes!InsertRecord, Codes!GotoI, Codes!Mail,
      Codes!Stored, Trying, GuessRow
<1>11. ASSUME NEW g \in Guess, NEW c \in Issue \cup {"wrong"}, Codes!VerifyCode(g, c)
      PROVE  Goal
  BY <1>11, <1>a, <1>c, <1>d, <1>e DEF Codes!VerifyCode, Trying, GuessRow
<1>12. ASSUME NEW g \in Guess, Codes!ReserveAttempt(g)
      PROVE  Goal
  BY <1>12, <1>a, <1>c, <1>d, <1>e DEF Codes!ReserveAttempt, Codes!GotoG,
      Codes!AttemptLeft, Trying, GuessRow
<1>13. ASSUME NEW g \in Guess, Codes!ReserveGuess(g)
      PROVE  Goal
  BY <1>13, <1>a, <1>c, <1>d, <1>e DEF Codes!ReserveGuess, Codes!GotoG, Trying, GuessRow
<1>14. ASSUME NEW g \in Guess, Codes!Refuse(g)
      PROVE  Goal
  BY <1>14, <1>a, <1>c, <1>d, <1>e DEF Codes!Refuse, Codes!GotoG, Codes!DropExpired,
      Codes!NoRec, Trying, GuessRow
<1>15. ASSUME NEW g \in Guess, NEW b \in BOOLEAN, Codes!ConsumeCode(g, b)
      PROVE  Goal
  BY <1>15, <1>a, <1>c, <1>d, <1>e DEF Codes!ConsumeCode, Codes!GotoG, Codes!Claimable,
      Codes!NoRec, Trying, GuessRow
<1>16. ASSUME Codes!RemoveRow
      PROVE  Goal
  BY <1>16, <1>a, <1>c, <1>d, <1>e DEF Codes!RemoveRow, Trying, GuessRow
<1>17. ASSUME Codes!RemoveRecord
      PROVE  Goal
  BY <1>17, <1>a, <1>c, <1>d, <1>e DEF Codes!RemoveRecord, Codes!NoRec, Trying, GuessRow
<1>18. ASSUME Codes!Tick
      PROVE  Goal
  BY <1>18, <1>a, <1>c, <1>d, <1>e DEF Codes!Tick, Trying, GuessRow
<1> QED
  BY <1>0, <1>1, <1>2, <1>3, <1>4, <1>5, <1>6, <1>7, <1>8, <1>9, <1>10, <1>11, <1>12,
      <1>13, <1>14, <1>15, <1>16, <1>17, <1>18 DEF Codes!Next

(* Comparisons and callers that may still compare stay within the attempts *)
(* that were counted.                                                      *)
LEMMA TriesCountedStep ==
  ASSUME Codes!CodesAssumption, MInv, [Codes!Next]_Codes!vars, NEW z \in Issue
  PROVE  TriesCounted(z)'
<1>a. /\ TriesCounted(z) /\ compared \in [Issue -> Nat] /\ rec \in PendingRow
      /\ compared' \in [Issue -> Nat] /\ rec' \in PendingRow /\ MaxAttempts \in Nat
  BY ComparedTypedStep, RecordTypedStep DEF MInv, MTyped, Codes!CodesAssumption
<1>b. /\ rec.attempts \in 0..MaxAttempts /\ rec'.attempts \in 0..MaxAttempts
      /\ compared[z] \in Nat /\ compared'[z] \in Nat
  BY <1>a DEF PendingRow
<1>c. /\ IsFiniteSet(Trying(z)) /\ IsFiniteSet(Trying(z)')
      /\ Cardinality(Trying(z)) \in Nat /\ Cardinality(Trying(z)') \in Nat
  <2>1. IsFiniteSet(Guess) /\ Trying(z) \subseteq Guess /\ Trying(z)' \subseteq Guess
    BY DEF Codes!CodesAssumption, Codes!IsFiniteSet, IsFiniteSet, Trying
  <2> QED BY <2>1, FS_Subset, FS_CardinalityType
<1>1. CASE compared'[z] = compared[z] /\ Trying(z)' \subseteq Trying(z)
  <2>1. Tries(z)' <= Tries(z) /\ Tries(z) \in Nat /\ Tries(z)' \in Nat
    <3>1. Cardinality(Trying(z)') <= Cardinality(Trying(z))
      BY <1>1, <1>c, FS_Subset
    <3> QED BY <3>1, <1>1, <1>b, <1>c DEF Tries
  <2>2. Tries(z)' <= MaxAttempts
    BY <2>1, <1>a DEF TriesCounted
  <2>3. rec'.st = "rec" /\ rec'.code = z => Tries(z)' <= rec'.attempts
    <3>1. CASE rec' = rec
      BY <3>1, <2>1, <1>a, <1>b DEF TriesCounted
    <3>2. CASE rec.st = "rec" /\ rec' = [rec EXCEPT !.attempts = rec.attempts + 1]
      <4>1. rec'.code = rec.code /\ rec'.attempts = rec.attempts + 1
        BY <3>2, <1>a DEF PendingRow
      <4> QED BY <4>1, <3>2, <2>1, <1>a, <1>b DEF TriesCounted
    <3>3. ASSUME NEW x \in Issue, rec' = Codes!Stored(x), issue[x].pc # "mailed",
                 guess' = guess, compared' = compared
          PROVE  rec'.st = "rec" /\ rec'.code = z => Tries(z)' <= rec'.attempts
      <4>1. rec'.code = x /\ rec'.attempts = 0
        BY <3>3 DEF Codes!Stored
      <4>2. x = z => Tries(z)' = 0
        <5>1. Cardinality({}) = 0
          BY FS_EmptySet
        <5>2. x = z => compared'[z] = 0 /\ Trying(z)' = {}
          BY <3>3, <1>a DEF TriesCounted, Trying
        <5> QED BY <5>1, <5>2 DEF Tries
      <4> QED BY <4>1, <4>2
    <3> QED BY <3>1, <3>2, <3>3, RecordMoves DEF RecordStep
  <2> QED BY <2>2, <2>3, <1>a, MailedCodeStays, UnmailedUntried DEF TriesCounted
<1>2. ASSUME NEW x \in Trying(z), compared'[z] = compared[z] + 1,
             Trying(z)' = Trying(z) \ {x}
      PROVE  TriesCounted(z)'
  <2>1. Cardinality(Trying(z)') = Cardinality(Trying(z)) - 1
    BY <1>2, <1>c, FS_RemoveElement
  <2>2. Tries(z)' = Tries(z)
    BY <2>1, <1>2, <1>b, <1>c DEF Tries
  <2>3. guess[x].pc = "guess" /\ guess[x].code = z /\ x \in Guess
    BY <1>2 DEF Trying
  <2>4. issue[z].pc = "mailed"
    BY <2>3 DEF MInv, GuessSound
  <2>5. issue'[z].pc = "mailed"
    BY <2>4, MailedCodeStays
  <2>6. Tries(z)' <= MaxAttempts
    BY <2>2, <1>a DEF TriesCounted
  <2>7. rec'.st = "rec" /\ rec'.code = z => Tries(z)' <= rec'.attempts
    <3>1. CASE rec' = rec
      BY <3>1, <2>2, <1>a DEF TriesCounted
    <3>2. CASE rec.st = "rec" /\ rec' = [rec EXCEPT !.attempts = rec.attempts + 1]
      <4>1. rec'.code = rec.code /\ rec'.attempts = rec.attempts + 1
        BY <3>2, <1>a DEF PendingRow
      <4>2. Tries(z) \in Nat
        BY <1>b, <1>c DEF Tries
      <4> QED BY <4>1, <4>2, <3>2, <2>2, <1>a, <1>b DEF TriesCounted
    <3>3. CASE \E y \in Issue : /\ rec' = Codes!Stored(y) /\ issue[y].pc # "mailed"
      <4>1. PICK y \in Issue : rec' = Codes!Stored(y) /\ issue[y].pc # "mailed"
        BY <3>3
      <4> QED BY <4>1, <2>4 DEF Codes!Stored
    <3> QED BY <3>1, <3>2, <3>3, RecordMoves DEF RecordStep
  <2> QED BY <2>5, <2>6, <2>7 DEF TriesCounted
<1>3. ASSUME NEW x \in Guess, compared'[z] = compared[z],
             Trying(z)' = Trying(z) \cup {x},
             rec.st = "rec", rec.code = z, rec.attempts < MaxAttempts,
             rec' = [rec EXCEPT !.attempts = rec.attempts + 1]
      PROVE  TriesCounted(z)'
  <2>1. Cardinality(Trying(z)') <= Cardinality(Trying(z)) + 1
    BY <1>3, <1>c, FS_AddElement
  <2>2. Tries(z)' <= Tries(z) + 1 /\ Tries(z) \in Nat /\ Tries(z)' \in Nat
    BY <2>1, <1>3, <1>b, <1>c DEF Tries
  <2>3. rec'.attempts = rec.attempts + 1
    BY <1>3, <1>a DEF PendingRow
  <2>4. Tries(z) <= rec.attempts
    BY <1>3, <1>a DEF TriesCounted
  <2>5. issue'[z].pc = "mailed"
    BY <1>3, MailedCodeStays DEF MInv, StoredMailed
  <2>6. Tries(z)' <= rec'.attempts /\ Tries(z)' <= MaxAttempts
    BY <2>2, <2>3, <2>4, <1>3, <1>a, <1>b
  <2> QED BY <2>5, <2>6 DEF TriesCounted
<1> QED BY <1>1, <1>2, <1>3, TryingMoves DEF CodeStep

LEMMA MInit == Codes!CodesAssumption /\ Codes!Init => MInv
<1> SUFFICES ASSUME Codes!CodesAssumption, Codes!Init PROVE MInv
  OBVIOUS
<1>a. /\ now = 0 /\ row = Codes!NoRow /\ rec = Codes!NoRec
      /\ issue = [i \in Issue |-> [pc |-> "idle", at |-> 0, resend |-> FALSE, pass |-> 0]]
      /\ guess = [g \in Guess |-> [pc |-> "idle", at |-> 0, tried |-> "none",
                                   code |-> "none"]]
      /\ compared = [i \in Issue |-> 0] /\ CodeTime \in Nat /\ MaxAttempts \in Nat
  BY DEF Codes!Init, Codes!CodesAssumption
<1>b. 0 \in Nat /\ 0 \in 0..CodeTime
  BY <1>a
<1>1. MTyped
  BY <1>a, <1>b, NoRowTyped DEF MTyped, IssueRow, GuessRow
<1>2. CounterKept /\ StoredMailed
  BY <1>a, NoRowTyped DEF CounterKept, Codes!RowKeptLongEnough, StoredMailed
<1>3. \A g \in Guess : GuessSound(g)
  BY <1>a DEF GuessSound
<1>4. \A z \in Issue : TriesCounted(z)
  <2> SUFFICES ASSUME NEW z \in Issue PROVE TriesCounted(z)
    OBVIOUS
  <2>1. Trying(z) = {} /\ compared[z] = 0
    BY <1>a DEF Trying
  <2>2. Tries(z) = 0
    BY <2>1, FS_EmptySet DEF Tries
  <2>3. rec.st # "rec"
    BY <1>a, NoRowTyped
  <2> QED BY <2>1, <2>2, <2>3, <1>a DEF TriesCounted
<1> QED BY <1>1, <1>2, <1>3, <1>4 DEF MInv

LEMMA ClockStep ==
  ASSUME Codes!CodesAssumption, MInv, [Codes!Next]_Codes!vars
  PROVE  now' \in 0..CodeTime
<1>a. now \in 0..CodeTime /\ CodeTime \in Nat
  BY DEF MInv, MTyped, Codes!CodesAssumption
<1>0. CASE UNCHANGED Codes!vars
  BY <1>0, <1>a DEF Codes!vars
<1> DEFINE Goal == now' \in 0..CodeTime
<1>1. ASSUME NEW i \in Issue, NEW b \in BOOLEAN, Codes!Ask(i, b)
      PROVE  Goal
  BY <1>1, <1>a DEF Codes!Ask
<1>2. ASSUME NEW i \in Issue, Codes!RecordWithinCap(i)
      PROVE  Goal
  BY <1>2, <1>a DEF Codes!RecordWithinCap, Codes!GotoI
<1>3. ASSUME NEW i \in Issue, Codes!HasCounter(i)
      PROVE  Goal
  BY <1>3, <1>a DEF Codes!HasCounter, Codes!GotoI
<1>4. ASSUME NEW i \in Issue, Codes!OpenCounter(i)
      PROVE  Goal
  BY <1>4, <1>a DEF Codes!OpenCounter, Codes!GotoI
<1>5. ASSUME NEW i \in Issue, Codes!NewGeneration(i)
      PROVE  Goal
  BY <1>5, <1>a DEF Codes!NewGeneration, Codes!GotoI
<1>6. ASSUME NEW i \in Issue, Codes!RotateLiveCode(i)
      PROVE  Goal
  BY <1>6, <1>a DEF Codes!RotateLiveCode, Codes!GotoI, Codes!Mail, Codes!Stored
<1>7. ASSUME NEW i \in Issue, Codes!ReplaceExpiredCode(i)
      PROVE  Goal
  BY <1>7, <1>a DEF Codes!ReplaceExpiredCode, Codes!GotoI, Codes!Mail, Codes!Stored
<1>8. ASSUME NEW i \in Issue, Codes!HasRecord(i)
      PROVE  Goal
  BY <1>8, <1>a DEF Codes!HasRecord, Codes!GotoI
<1>9. ASSUME NEW i \in Issue, Codes!DropRecord(i)
      PROVE  Goal
  BY <1>9, <1>a DEF Codes!DropRecord, Codes!GotoI, Codes!DropExpired, Codes!NoRec
<1>10. ASSUME NEW i \in Issue, Codes!InsertRecord(i)
      PROVE  Goal
  BY <1>10, <1>a DEF Codes!InsertRecord, Codes!GotoI, Codes!Mail, Codes!Stored
<1>11. ASSUME NEW g \in Guess, NEW c \in Issue \cup {"wrong"}, Codes!VerifyCode(g, c)
      PROVE  Goal
  BY <1>11, <1>a DEF Codes!VerifyCode
<1>12. ASSUME NEW g \in Guess, Codes!ReserveAttempt(g)
      PROVE  Goal
  BY <1>12, <1>a DEF Codes!ReserveAttempt, Codes!GotoG, Codes!AttemptLeft
<1>13. ASSUME NEW g \in Guess, Codes!ReserveGuess(g)
      PROVE  Goal
  BY <1>13, <1>a DEF Codes!ReserveGuess, Codes!GotoG
<1>14. ASSUME NEW g \in Guess, Codes!Refuse(g)
      PROVE  Goal
  BY <1>14, <1>a DEF Codes!Refuse, Codes!GotoG, Codes!DropExpired, Codes!NoRec
<1>15. ASSUME NEW g \in Guess, NEW b \in BOOLEAN, Codes!ConsumeCode(g, b)
      PROVE  Goal
  BY <1>15, <1>a DEF Codes!ConsumeCode, Codes!GotoG, Codes!Claimable, Codes!NoRec
<1>16. ASSUME Codes!RemoveRow
      PROVE  Goal
  BY <1>16, <1>a DEF Codes!RemoveRow
<1>17. ASSUME Codes!RemoveRecord
      PROVE  Goal
  BY <1>17, <1>a DEF Codes!RemoveRecord, Codes!NoRec
<1>18. ASSUME Codes!Tick
      PROVE  Goal
  BY <1>18, <1>a DEF Codes!Tick
<1> QED
  BY <1>0, <1>1, <1>2, <1>3, <1>4, <1>5, <1>6, <1>7, <1>8, <1>9, <1>10, <1>11, <1>12,
      <1>13, <1>14, <1>15, <1>16, <1>17, <1>18 DEF Codes!Next

LEMMA MStep == Codes!CodesAssumption /\ MInv /\ [Codes!Next]_Codes!vars => MInv'
<1> SUFFICES ASSUME Codes!CodesAssumption, MInv, [Codes!Next]_Codes!vars PROVE MInv'
  OBVIOUS
<1>1. now' \in 0..CodeTime
  <2>1. now \in 0..CodeTime /\ CodeTime \in Nat
    BY DEF MInv, MTyped, Codes!CodesAssumption
  <2> QED BY <2>1, ClockStep
<1>2. MTyped'
  BY <1>1, CounterRowTypedStep, RecordTypedStep, IssueTypedStep, GuessTypedStep,
     ComparedTypedStep DEF MTyped
<1> QED
  BY <1>2, CounterKeptStep, StoredMailedStep, GuessSoundStep, TriesCountedStep DEF MInv

(* A code is compared at most as often as attempts are allowed, whoever    *)
(* tries it at once, and the row that counts mails and guesses is kept as  *)
(* long as they are remembered (reserveAttempt, recordWithinCap,           *)
(* reservePostgresGuess).                                                  *)
THEOREM CodesSafe ==
  ASSUME Codes!CodesAssumption
  PROVE  Codes!Spec => [](Codes!TypeOK /\ Codes!RowKeptLongEnough)
<1>1. Codes!Init => MInv
  BY MInit
<1>2. MInv /\ [Codes!Next]_Codes!vars => MInv'
  BY MStep
<1>3. MInv => Codes!TypeOK /\ Codes!RowKeptLongEnough
  <2> SUFFICES ASSUME MInv PROVE Codes!TypeOK /\ Codes!RowKeptLongEnough
    OBVIOUS
  <2>1. /\ now \in 0..CodeTime /\ row.st \in {"none", "row"} /\ row.level <= MaxLevel
        /\ rec.st \in {"none", "rec"} /\ rec.code \in Issue \cup {"none"}
    BY DEF MInv, MTyped, CounterRow, PendingRow, Codes!CodesAssumption
  <2>2. ASSUME NEW z \in Issue PROVE compared[z] <= MaxAttempts
    <3>1. /\ Tries(z) <= MaxAttempts /\ compared[z] \in Nat /\ Trying(z) \subseteq Guess
          /\ IsFiniteSet(Guess) /\ MaxAttempts \in Nat
      BY DEF MInv, MTyped, TriesCounted, Trying, Codes!CodesAssumption,
             Codes!IsFiniteSet, IsFiniteSet
    <3>2. Cardinality(Trying(z)) \in Nat
      BY <3>1, FS_Subset, FS_CardinalityType
    <3> QED BY <3>1, <3>2 DEF Tries
  <2> QED BY <2>1, <2>2 DEF Codes!TypeOK, MInv, CounterKept
<1> QED BY <1>1, <1>2, <1>3, PTL DEF Codes!Spec

LEMMA CurrentCode ==
  ASSUME Codes!CodesAssumption, MInv, [Codes!Next]_Codes!vars
  PROVE  Codes!OnlyCurrentCode
<1>a. issue \in [Issue -> IssueRow] /\ guess \in [Guess -> GuessRow] /\ rec \in PendingRow
  BY DEF MInv, MTyped
<1>b. StoredMailed /\ \A x \in Guess : GuessSound(x)
  BY DEF MInv
<1>0. CASE UNCHANGED Codes!vars
  BY <1>0, <1>a, <1>b DEF Codes!vars, Codes!OnlyCurrentCode, GuessSound, GuessRow
<1> DEFINE Goal == Codes!OnlyCurrentCode
<1>1. ASSUME NEW i \in Issue, NEW b \in BOOLEAN, Codes!Ask(i, b)
      PROVE  Goal
  BY <1>1, <1>a, <1>b DEF Codes!Ask, Codes!OnlyCurrentCode, GuessSound, GuessRow
<1>2. ASSUME NEW i \in Issue, Codes!RecordWithinCap(i)
      PROVE  Goal
  BY <1>2, <1>a, <1>b DEF Codes!RecordWithinCap, Codes!GotoI, Codes!OnlyCurrentCode,
      GuessSound, GuessRow
<1>3. ASSUME NEW i \in Issue, Codes!HasCounter(i)
      PROVE  Goal
  BY <1>3, <1>a, <1>b DEF Codes!HasCounter, Codes!GotoI, Codes!OnlyCurrentCode,
      GuessSound, GuessRow
<1>4. ASSUME NEW i \in Issue, Codes!OpenCounter(i)
      PROVE  Goal
  BY <1>4, <1>a, <1>b DEF Codes!OpenCounter, Codes!GotoI, Codes!OnlyCurrentCode,
      GuessSound, GuessRow
<1>5. ASSUME NEW i \in Issue, Codes!NewGeneration(i)
      PROVE  Goal
  BY <1>5, <1>a, <1>b DEF Codes!NewGeneration, Codes!GotoI, Codes!OnlyCurrentCode,
      GuessSound, GuessRow
<1>6. ASSUME NEW i \in Issue, Codes!RotateLiveCode(i)
      PROVE  Goal
  BY <1>6, <1>a, <1>b DEF Codes!RotateLiveCode, Codes!GotoI, Codes!Mail, Codes!Stored,
      Codes!OnlyCurrentCode, GuessSound, GuessRow
<1>7. ASSUME NEW i \in Issue, Codes!ReplaceExpiredCode(i)
      PROVE  Goal
  BY <1>7, <1>a, <1>b DEF Codes!ReplaceExpiredCode, Codes!GotoI, Codes!Mail,
      Codes!Stored, Codes!OnlyCurrentCode, GuessSound, GuessRow
<1>8. ASSUME NEW i \in Issue, Codes!HasRecord(i)
      PROVE  Goal
  BY <1>8, <1>a, <1>b DEF Codes!HasRecord, Codes!GotoI, Codes!OnlyCurrentCode,
      GuessSound, GuessRow
<1>9. ASSUME NEW i \in Issue, Codes!DropRecord(i)
      PROVE  Goal
  BY <1>9, <1>a, <1>b DEF Codes!DropRecord, Codes!GotoI, Codes!DropExpired, Codes!NoRec,
      Codes!OnlyCurrentCode, GuessSound, GuessRow
<1>10. ASSUME NEW i \in Issue, Codes!InsertRecord(i)
      PROVE  Goal
  BY <1>10, <1>a, <1>b DEF Codes!InsertRecord, Codes!GotoI, Codes!Mail, Codes!Stored,
      Codes!OnlyCurrentCode, GuessSound, GuessRow
<1>11. ASSUME NEW g \in Guess, NEW c \in Issue \cup {"wrong"}, Codes!VerifyCode(g, c)
      PROVE  Goal
  BY <1>11, <1>a, <1>b DEF Codes!VerifyCode, Codes!OnlyCurrentCode, GuessSound, GuessRow
<1>12. ASSUME NEW g \in Guess, Codes!ReserveAttempt(g)
      PROVE  Goal
  BY <1>12, <1>a, <1>b DEF Codes!ReserveAttempt, Codes!GotoG, Codes!AttemptLeft,
      Codes!OnlyCurrentCode, GuessSound, GuessRow
<1>13. ASSUME NEW g \in Guess, Codes!ReserveGuess(g)
      PROVE  Goal
  BY <1>13, <1>a, <1>b DEF Codes!ReserveGuess, Codes!GotoG, Codes!OnlyCurrentCode,
      GuessSound, GuessRow
<1>14. ASSUME NEW g \in Guess, Codes!Refuse(g)
      PROVE  Goal
  BY <1>14, <1>a, <1>b DEF Codes!Refuse, Codes!GotoG, Codes!DropExpired, Codes!NoRec,
      Codes!OnlyCurrentCode, GuessSound, GuessRow
<1>15. ASSUME NEW g \in Guess, NEW b \in BOOLEAN, Codes!ConsumeCode(g, b)
      PROVE  Goal
  BY <1>15, <1>a, <1>b DEF Codes!ConsumeCode, Codes!GotoG, Codes!Claimable, Codes!NoRec,
      Codes!OnlyCurrentCode, GuessSound, GuessRow
<1>16. ASSUME Codes!RemoveRow
      PROVE  Goal
  BY <1>16, <1>a, <1>b DEF Codes!RemoveRow, Codes!OnlyCurrentCode, GuessSound, GuessRow
<1>17. ASSUME Codes!RemoveRecord
      PROVE  Goal
  BY <1>17, <1>a, <1>b DEF Codes!RemoveRecord, Codes!NoRec, Codes!OnlyCurrentCode,
      GuessSound, GuessRow
<1>18. ASSUME Codes!Tick
      PROVE  Goal
  BY <1>18, <1>a, <1>b DEF Codes!Tick, Codes!OnlyCurrentCode, GuessSound, GuessRow
<1> QED
  BY <1>0, <1>1, <1>2, <1>3, <1>4, <1>5, <1>6, <1>7, <1>8, <1>9, <1>10, <1>11, <1>12,
      <1>13, <1>14, <1>15, <1>16, <1>17, <1>18 DEF Codes!Next

(* A code is consumed as it was compared: nothing newer was stored for the *)
(* address, and nobody consumed it before (claimCode).                     *)
THEOREM CurrentCodeOnly ==
  ASSUME Codes!CodesAssumption
  PROVE  Codes!Spec => [][Codes!OnlyCurrentCode]_Codes!vars
<1>1. Codes!Init => MInv
  BY MInit
<1>2. MInv /\ [Codes!Next]_Codes!vars => MInv'
  BY MStep
<1>3. MInv /\ [Codes!Next]_Codes!vars => [Codes!OnlyCurrentCode]_Codes!vars
  BY CurrentCode
<1> QED BY <1>1, <1>2, <1>3, PTL DEF Codes!Spec

(***************************************************************************)
(* What wrong codes cost.                                                  *)
(***************************************************************************)

(* How many locks an address had since it was last forgotten, and when the *)
(* last of them ends at the earliest: a guess that locks may have read the *)
(* clock before the lock before was over, by what a call may take.         *)
LocksEnd(j) ==
  CASE j = 0 -> 0
    [] j = 1 -> Codes!LockFor(0)
    [] j = 2 -> Codes!LockFor(0) + Codes!LockFor(1) - Slow
    [] j = 3 -> Codes!LockFor(0) + Codes!LockFor(1) + Codes!LockFor(2) - 2 * Slow

GuessOnTime(g) ==
  guess[g].pc # "idle" => guess[g].at <= now /\ now <= guess[g].at + Slow

(* The row knows every guess that is counted, until the third lock ends.   *)
LocksCounted(j) ==
  /\ row.level = j
  /\ counted = (CASE j = 0 -> 0 [] j = 1 -> Limit [] j = 2 -> 2 * Limit
                  [] j = 3 -> 3 * Limit) + row.failed
  /\ row.failed > 0 => j < 3 /\ now >= LocksEnd(j)
  /\ row.failed = 0 => j > 0 /\ row.locked >= LocksEnd(j)
GuessesKnown ==
  \/ counted = 0 /\ row.memory = 0
  \/ /\ row.st = "row" /\ row.memory >= Memory
     /\ row.failed \in 0..(Limit - 1)
     /\ \E j \in 0..3 : LocksCounted(j)

GInv ==
  /\ counted \in Nat /\ Codes!GuessesCostTime
  /\ row.st = "none" => row.memory = 0
  /\ \A g \in Guess : GuessOnTime(g)
  /\ now >= Memory \/ counted > 3 * Limit \/ GuessesKnown

(* The locks and what they take together, and that guesses are remembered  *)
(* for longer (CODE_GUESS_RULE).                                           *)
LockRule ==
  /\ MaxLevel >= 3
  /\ Memory >= Codes!LockFor(0) + Codes!LockFor(1) + Codes!LockFor(2)

LEMMA LockLengths ==
  ASSUME Codes!CodesAssumption
  PROVE  /\ Codes!LockFor(0) \in Nat /\ Codes!LockFor(1) \in Nat
         /\ Codes!LockFor(2) \in Nat
<1>1. 2^0 = 1 /\ 2^1 = 2 /\ 2^2 = 4
  OBVIOUS
<1>2. LockBase \in Nat /\ LockMax \in Nat
  BY DEF Codes!CodesAssumption
<1>3. Codes!LockFor(0) = Codes!Smaller(LockBase * 1, LockMax)
  BY <1>1 DEF Codes!LockFor
<1>4. Codes!LockFor(1) = Codes!Smaller(LockBase * 2, LockMax)
  BY <1>1 DEF Codes!LockFor
<1>5. Codes!LockFor(2) = Codes!Smaller(LockBase * 4, LockMax)
  BY <1>1 DEF Codes!LockFor
<1> QED BY <1>2, <1>3, <1>4, <1>5 DEF Codes!Smaller

(* A guess that is counted, where the row knows those before it.           *)
LEMMA CountedKnown ==
  ASSUME Codes!CodesAssumption, LockRule, MTyped, GInv, now < Memory,
         counted <= 3 * Limit, NEW x \in Nat, x <= now, now <= x + Slow,
         ~Codes!Locked(x), row' = Codes!Counted(x), counted' = counted + 1,
         now' = now
  PROVE  Codes!GuessesCostTime' /\ (counted' > 3 * Limit \/ GuessesKnown')
<1> DEFINE L0 == Codes!LockFor(0)
           L1 == Codes!LockFor(1)
           L2 == Codes!LockFor(2)
<1>a. /\ L0 \in Nat /\ L1 \in Nat /\ L2 \in Nat /\ Slow \in Nat /\ Limit \in Nat /\ Limit > 0
      /\ Memory \in Nat /\ now \in Nat /\ MaxLevel \in Nat /\ MaxLevel >= 3
      /\ row \in CounterRow /\ counted \in Nat
  BY LockLengths DEF Codes!CodesAssumption, LockRule, MTyped, GInv
<1>b. GuessesKnown /\ Codes!GuessesCostTime
  BY <1>a DEF GInv
<1>c. /\ row.memory \in Int /\ row.failed \in Int /\ row.level \in Nat /\ row.locked \in Int
      /\ row.level <= MaxLevel
  BY <1>a DEF CounterRow
<1>d. /\ row'.st = "row"
      /\ row'.failed = LET failed == IF Codes!Remembered(x) THEN row.failed ELSE 0
                       IN IF failed + 1 >= Limit THEN 0 ELSE failed + 1
      /\ row'.level = LET failed == IF Codes!Remembered(x) THEN row.failed ELSE 0
                          level == IF Codes!Remembered(x) THEN row.level ELSE 0
                      IN IF failed + 1 >= Limit THEN Codes!Smaller(level + 1, MaxLevel)
                         ELSE level
      /\ row'.locked = LET failed == IF Codes!Remembered(x) THEN row.failed ELSE 0
                           level == IF Codes!Remembered(x) THEN row.level ELSE 0
                       IN IF failed + 1 >= Limit THEN x + Codes!LockFor(level) ELSE 0
      /\ row'.memory = LET failed == IF Codes!Remembered(x) THEN row.failed ELSE 0
                           level == IF Codes!Remembered(x) THEN row.level ELSE 0
                       IN (IF failed + 1 >= Limit THEN x + Codes!LockFor(level) ELSE x)
                            + Memory
  BY <1>a DEF Codes!Counted, CounterRow
<1>1. CASE counted = 0 /\ row.memory = 0
  <2>1. ~Codes!Remembered(x)
    BY <1>1 DEF Codes!Remembered
  <2>2. /\ row'.failed = (IF 1 >= Limit THEN 0 ELSE 1)
        /\ row'.level = (IF 1 >= Limit THEN Codes!Smaller(1, MaxLevel) ELSE 0)
        /\ row'.locked = (IF 1 >= Limit THEN x + L0 ELSE 0)
        /\ row'.memory = (IF 1 >= Limit THEN x + L0 ELSE x) + Memory
    BY <2>1, <1>d
  <2>3. Codes!Smaller(1, MaxLevel) = 1
    BY <1>a DEF Codes!Smaller
  <2>4. counted' = 1
    BY <1>1
  <2>5. Codes!GuessesCostTime'
    BY <2>4, <1>a DEF Codes!GuessesCostTime
  <2>6. row'.memory >= Memory /\ row'.failed \in 0..(Limit - 1)
    BY <2>2, <1>a
  <2>7. CASE Limit = 1
    <3>1. LocksCounted(1)'
      BY <2>2, <2>3, <2>4, <2>7, <1>a DEF LocksCounted, LocksEnd
    <3> QED BY <3>1, <2>5, <2>6, <1>d DEF GuessesKnown
  <2>8. CASE Limit > 1
    <3>1. LocksCounted(0)'
      BY <2>2, <2>4, <2>8, <1>a DEF LocksCounted, LocksEnd
    <3> QED BY <3>1, <2>5, <2>6, <1>d DEF GuessesKnown
  <2> QED BY <2>7, <2>8, <1>a
<1>2. ASSUME row.st = "row", row.memory >= Memory, row.failed \in 0..(Limit - 1),
             NEW j \in 0..3, LocksCounted(j)
      PROVE  Codes!GuessesCostTime' /\ (counted' > 3 * Limit \/ GuessesKnown')
  <2>1. Codes!Remembered(x) /\ row.locked <= x
    BY <1>2, <1>a, <1>c DEF Codes!Remembered, Codes!Locked
  <2>2. /\ row'.failed = (IF row.failed + 1 >= Limit THEN 0 ELSE row.failed + 1)
        /\ row'.level = (IF row.failed + 1 >= Limit THEN Codes!Smaller(j + 1, MaxLevel) ELSE j)
        /\ row'.locked = (IF row.failed + 1 >= Limit THEN x + Codes!LockFor(j) ELSE 0)
        /\ row'.memory = (IF row.failed + 1 >= Limit THEN x + Codes!LockFor(j) ELSE x)
                           + Memory
    BY <2>1, <1>d, <1>2 DEF LocksCounted
  <2> DEFINE f == row.failed
  <2>f. f \in Nat /\ f <= Limit - 1
    BY <1>2, <1>a
  (* The guess comes after the locks so far, but for what a call takes.    *)
  <2>3. /\ f = 0 => x >= LocksEnd(j)
        /\ f > 0 => now >= LocksEnd(j)
    <3>1. LocksEnd(j) \in Int
      BY <1>a, <1>2 DEF LocksEnd
    <3> QED BY <3>1, <1>2, <1>c, <2>1, <2>f DEF LocksCounted
  <2>4. CASE j = 0
    <3>1. f > 0 /\ counted = f
      BY <1>2, <2>4, <2>f DEF LocksCounted
    <3>2. Codes!GuessesCostTime'
      BY <3>1, <2>f, <1>a DEF Codes!GuessesCostTime
    <3>3. CASE f + 1 < Limit
      <4>1. LocksCounted(0)'
        BY <3>1, <3>3, <2>2, <2>4, <2>f, <1>a DEF LocksCounted, LocksEnd
      <4>2. row'.memory >= Memory /\ row'.failed \in 0..(Limit - 1)
        BY <3>3, <2>2, <2>f, <1>a
      <4> QED BY <4>1, <4>2, <3>2, <1>d DEF GuessesKnown
    <3>4. CASE f + 1 = Limit
      <4>0. Codes!Smaller(j + 1, MaxLevel) = 1
        BY <2>4, <1>a DEF Codes!Smaller
      <4>1. LocksCounted(1)'
        BY <4>0, <3>1, <3>4, <2>2, <2>4, <2>f, <1>a DEF LocksCounted, LocksEnd
      <4>2. row'.memory >= Memory /\ row'.failed \in 0..(Limit - 1)
        BY <3>4, <2>2, <2>4, <2>f, <1>a
      <4> QED BY <4>1, <4>2, <3>2, <1>d DEF GuessesKnown
    <3> QED BY <3>3, <3>4, <2>f, <1>a
  <2>5. CASE j = 1
    <3>1. counted = Limit + f /\ LocksEnd(1) = L0
      BY <1>2, <2>5 DEF LocksCounted, LocksEnd
    <3>2. Codes!GuessesCostTime'
      BY <3>1, <2>3, <2>5, <2>f, <1>a, <1>b DEF Codes!GuessesCostTime
    <3>3. CASE f + 1 < Limit
      <4>1. LocksCounted(1)'
        BY <3>1, <3>3, <2>2, <2>3, <2>5, <2>f, <1>a DEF LocksCounted, LocksEnd
      <4>2. row'.memory >= Memory /\ row'.failed \in 0..(Limit - 1)
        BY <3>3, <2>2, <2>f, <1>a
      <4> QED BY <4>1, <4>2, <3>2, <1>d DEF GuessesKnown
    <3>4. CASE f + 1 = Limit
      <4>0. Codes!Smaller(j + 1, MaxLevel) = 2
        BY <2>5, <1>a DEF Codes!Smaller
      <4>1. LocksCounted(2)'
        <5>1. /\ row'.failed = 0 /\ row'.level = 2 /\ row'.locked = x + L1
              /\ counted' = 2 * Limit
          BY <4>0, <3>1, <3>4, <2>2, <2>5, <2>f, <1>a
        <5>2. x + L1 >= L0 + L1 - Slow
          BY <3>1, <2>3, <2>5, <2>f, <1>a
        <5>3. LocksEnd(2)' = L0 + L1 - Slow
          BY <1>a DEF LocksEnd
        <5> QED BY <5>1, <5>2, <5>3, <1>a DEF LocksCounted
      <4>2. row'.memory >= Memory /\ row'.failed \in 0..(Limit - 1)
        BY <3>4, <2>2, <2>5, <2>f, <1>a
      <4> QED BY <4>1, <4>2, <3>2, <1>d DEF GuessesKnown
    <3> QED BY <3>3, <3>4, <2>f, <1>a
  <2>6. CASE j = 2
    <3>1. counted = 2 * Limit + f /\ LocksEnd(2) = L0 + L1 - Slow
      BY <1>2, <2>6 DEF LocksCounted, LocksEnd
    <3>2. Codes!GuessesCostTime'
      BY <3>1, <2>3, <2>6, <2>f, <1>a, <1>b DEF Codes!GuessesCostTime
    <3>3. CASE f + 1 < Limit
      <4>1. LocksCounted(2)'
        BY <3>1, <3>3, <2>2, <2>3, <2>6, <2>f, <1>a DEF LocksCounted, LocksEnd
      <4>2. row'.memory >= Memory /\ row'.failed \in 0..(Limit - 1)
        BY <3>3, <2>2, <2>f, <1>a
      <4> QED BY <4>1, <4>2, <3>2, <1>d DEF GuessesKnown
    <3>4. CASE f + 1 = Limit
      <4>0. Codes!Smaller(j + 1, MaxLevel) = 3
        BY <2>6, <1>a DEF Codes!Smaller
      <4>1. LocksCounted(3)'
        <5>1. /\ row'.failed = 0 /\ row'.level = 3 /\ row'.locked = x + L2
              /\ counted' = 3 * Limit
          BY <4>0, <3>1, <3>4, <2>2, <2>6, <2>f, <1>a
        <5>2. x + L2 >= L0 + L1 - Slow + L2 - Slow
          BY <3>1, <2>3, <2>6, <2>f, <1>a
        <5>3. LocksEnd(3)' = L0 + L1 - Slow + L2 - Slow
          BY <1>a DEF LocksEnd
        <5> QED BY <5>1, <5>2, <5>3, <1>a DEF LocksCounted
      <4>2. row'.memory >= Memory /\ row'.failed \in 0..(Limit - 1)
        BY <3>4, <2>2, <2>6, <2>f, <1>a
      <4> QED BY <4>1, <4>2, <3>2, <1>d DEF GuessesKnown
    <3> QED BY <3>3, <3>4, <2>f, <1>a
  <2>7. CASE j = 3
    <3>0. f = 0
      BY <1>2, <2>7, <2>f DEF LocksCounted
    <3>1. counted = 3 * Limit /\ f = 0 /\ LocksEnd(3) = L0 + L1 + L2 - 2 * Slow
      BY <1>2, <2>7, <3>0, <1>a DEF LocksCounted, LocksEnd
    <3>2. Codes!GuessesCostTime'
      BY <3>1, <2>3, <2>7, <1>a, <1>b DEF Codes!GuessesCostTime
    <3> QED BY <3>1, <3>2, <1>a
  <2> QED BY <2>4, <2>5, <2>6, <2>7
<1> QED BY <1>1, <1>2, <1>b DEF GuessesKnown

(* A step that counts no guess and keeps the locks.                        *)
LEMMA LocksKept ==
  ASSUME Codes!CodesAssumption, MTyped, GInv, now' \in Int, now' >= now,
         counted' = counted, row'.st = row.st, row'.memory = row.memory,
         row'.failed = row.failed, row'.level = row.level, row'.locked = row.locked
  PROVE  /\ counted' \in Nat /\ Codes!GuessesCostTime'
         /\ row'.st = "none" => row'.memory = 0
         /\ now' >= Memory \/ counted' > 3 * Limit \/ GuessesKnown'
<1>a. /\ Codes!LockFor(0) \in Nat /\ Codes!LockFor(1) \in Nat /\ Codes!LockFor(2) \in Nat
      /\ Slow \in Nat /\ Limit \in Nat /\ Memory \in Nat /\ now \in Nat /\ counted \in Nat
  BY LockLengths DEF Codes!CodesAssumption, MTyped, GInv
<1>1. Codes!GuessesCostTime'
  BY <1>a DEF GInv, Codes!GuessesCostTime
<1>2. ASSUME NEW j \in 0..3, LocksCounted(j)
      PROVE  LocksCounted(j)'
  <2>1. LocksEnd(j)' = LocksEnd(j) /\ LocksEnd(j) \in Int
    BY <1>a DEF LocksEnd
  <2>2. row.failed > 0 => now' >= LocksEnd(j)
    BY <1>2, <1>a, <2>1 DEF LocksCounted
  <2> QED BY <1>2, <2>1, <2>2 DEF LocksCounted
<1>3. GuessesKnown => GuessesKnown'
  BY <1>2 DEF GuessesKnown
<1> QED BY <1>1, <1>3, <1>a DEF GInv

(* A row in which no guess is counted.                                     *)
LEMMA LocksForgotten ==
  ASSUME Codes!CodesAssumption, counted' = 0, row'.memory = 0, now' \in Nat
  PROVE  /\ counted' \in Nat /\ Codes!GuessesCostTime'
         /\ row'.st = "none" => row'.memory = 0
         /\ now' >= Memory \/ counted' > 3 * Limit \/ GuessesKnown'
<1>1. Limit \in Nat /\ Limit > 0
  BY DEF Codes!CodesAssumption
<1> QED BY <1>1 DEF Codes!GuessesCostTime, GuessesKnown

LEMMA GuessesOnTimeStep ==
  ASSUME Codes!CodesAssumption, MTyped, GInv, [Codes!Next]_Codes!vars
  PROVE  \A g \in Guess : GuessOnTime(g)'
<1>a. /\ now \in Nat /\ Slow \in Nat /\ guess \in [Guess -> GuessRow]
      /\ \A g \in Guess : GuessOnTime(g)
  BY DEF Codes!CodesAssumption, MTyped, GInv
<1> SUFFICES ASSUME NEW g \in Guess
             PROVE  GuessOnTime(g)'
  OBVIOUS
<1>b. guess[g] \in GuessRow /\ guess[g].at \in Nat /\ GuessOnTime(g)
  BY <1>a DEF GuessRow
<1>k. ASSUME now' = now, guess'[g].pc # "idle" =>
               guess'[g].at = guess[g].at /\ guess[g].pc # "idle"
      PROVE  GuessOnTime(g)'
  BY <1>k, <1>b DEF GuessOnTime
<1>0. CASE UNCHANGED Codes!vars
  BY <1>0, <1>k DEF Codes!vars
<1>1. ASSUME NEW i \in Issue,
             \/ \E resend \in BOOLEAN : Codes!Ask(i, resend)
             \/ Codes!RecordWithinCap(i) \/ Codes!HasCounter(i) \/ Codes!OpenCounter(i)
             \/ Codes!NewGeneration(i) \/ Codes!RotateLiveCode(i)
             \/ Codes!ReplaceExpiredCode(i) \/ Codes!HasRecord(i) \/ Codes!DropRecord(i)
             \/ Codes!InsertRecord(i)
      PROVE  GuessOnTime(g)'
  <2>1. now' = now /\ guess' = guess
    BY <1>1 DEF Codes!Ask, Codes!RecordWithinCap, Codes!HasCounter, Codes!OpenCounter,
                Codes!NewGeneration, Codes!RotateLiveCode, Codes!ReplaceExpiredCode,
                Codes!HasRecord, Codes!DropRecord, Codes!InsertRecord
  <2> QED BY <2>1, <1>k
<1>2. ASSUME NEW h \in Guess, NEW c \in Issue \cup {"wrong"}, Codes!VerifyCode(h, c)
      PROVE  GuessOnTime(g)'
  <2>1. CASE h = g
    <3>1. guess'[g].at = now /\ now' = now
      BY <1>2, <2>1, <1>a DEF Codes!VerifyCode
    <3> QED BY <3>1, <1>a DEF GuessOnTime
  <2>2. CASE h # g
    <3>1. guess'[g] = guess[g] /\ now' = now
      BY <1>2, <2>2, <1>a DEF Codes!VerifyCode
    <3> QED BY <3>1, <1>k
  <2> QED BY <2>1, <2>2
<1>3. ASSUME NEW h \in Guess,
             \/ Codes!ReserveAttempt(h) \/ Codes!ReserveGuess(h) \/ Codes!Refuse(h)
             \/ \E b \in BOOLEAN : Codes!ConsumeCode(h, b)
      PROVE  GuessOnTime(g)'
  <2>1. now' = now /\ guess[h].pc # "idle"
    BY <1>3 DEF Codes!ReserveAttempt, Codes!ReserveGuess, Codes!Refuse, Codes!ConsumeCode
  <2>2. \/ guess' = [guess EXCEPT ![h].pc = "guess", ![h].code = rec.code]
        \/ guess' = [guess EXCEPT ![h].pc = "drop"]
        \/ guess' = [guess EXCEPT ![h].pc = "consume"]
        \/ guess' = [guess EXCEPT ![h].pc = "idle"]
    <3>1. CASE Codes!ReserveAttempt(h)
      BY <3>1 DEF Codes!ReserveAttempt, Codes!GotoG
    <3>2. CASE Codes!ReserveGuess(h)
      BY <3>2 DEF Codes!ReserveGuess, Codes!GotoG
    <3>3. CASE Codes!Refuse(h)
      BY <3>3 DEF Codes!Refuse, Codes!GotoG
    <3>4. CASE \E b \in BOOLEAN : Codes!ConsumeCode(h, b)
      BY <3>4 DEF Codes!ConsumeCode, Codes!GotoG
    <3> QED BY <1>3, <3>1, <3>2, <3>3, <3>4
  <2>3. guess'[g].at = guess[g].at /\ (guess'[g].pc # "idle" => guess[g].pc # "idle")
    <3>1. guess[h] \in GuessRow
      BY <1>a
    <3>2. CASE h = g
      BY <2>1, <2>2, <3>1, <3>2, <1>a DEF GuessRow
    <3>3. CASE h # g
      BY <2>2, <3>3, <1>a
    <3> QED BY <3>2, <3>3
  <2> QED BY <2>1, <2>3, <1>k
<1>4. CASE Codes!RemoveRow \/ Codes!RemoveRecord
  BY <1>4, <1>k DEF Codes!RemoveRow, Codes!RemoveRecord
<1>5. CASE Codes!Tick
  BY <1>5, <1>a, <1>b DEF Codes!Tick, GuessOnTime
<1> QED BY <1>0, <1>1, <1>2, <1>3, <1>4, <1>5 DEF Codes!Next

LEMMA GuessesCountedStep ==
  ASSUME Codes!CodesAssumption, LockRule, MInv, GInv, [Codes!Next]_Codes!vars
  PROVE  /\ counted' \in Nat /\ Codes!GuessesCostTime'
         /\ row'.st = "none" => row'.memory = 0
         /\ now' >= Memory \/ counted' > 3 * Limit \/ GuessesKnown'
<1> DEFINE Goal == /\ counted' \in Nat /\ Codes!GuessesCostTime'
                   /\ row'.st = "none" => row'.memory = 0
                   /\ now' >= Memory \/ counted' > 3 * Limit \/ GuessesKnown'
<1>a. /\ MTyped /\ now \in Nat /\ Slow \in Nat /\ Limit \in Nat /\ Memory \in Nat
      /\ row \in CounterRow /\ counted \in Nat /\ guess \in [Guess -> GuessRow]
      /\ CounterKept /\ \A g \in Guess : GuessOnTime(g) /\ GuessSound(g)
  BY DEF Codes!CodesAssumption, MInv, MTyped, GInv
<1>k. ASSUME row' = row, counted' = counted, now' = now PROVE Goal
  BY <1>k, <1>a, LocksKept
<1>0. CASE UNCHANGED Codes!vars
  BY <1>0, <1>k DEF Codes!vars
<1>1. ASSUME NEW i \in Issue,
             \/ \E resend \in BOOLEAN : Codes!Ask(i, resend)
             \/ Codes!HasCounter(i) \/ Codes!NewGeneration(i) \/ Codes!RotateLiveCode(i)
             \/ Codes!ReplaceExpiredCode(i) \/ Codes!HasRecord(i) \/ Codes!DropRecord(i)
             \/ Codes!InsertRecord(i)
      PROVE  Goal
  <2>1. row' = row /\ counted' = counted /\ now' = now
    BY <1>1 DEF Codes!Ask, Codes!HasCounter, Codes!NewGeneration, Codes!RotateLiveCode,
                Codes!ReplaceExpiredCode, Codes!HasRecord, Codes!DropRecord,
                Codes!InsertRecord
  <2> QED BY <2>1, <1>k
<1>2. ASSUME NEW i \in Issue, Codes!RecordWithinCap(i) PROVE Goal
  <2>1. counted' = counted /\ now' = now /\ row' \in {row, Codes!Recorded(issue[i].at)}
    BY <1>2 DEF Codes!RecordWithinCap
  <2>2. /\ row'.st = row.st /\ row'.memory = row.memory /\ row'.failed = row.failed
        /\ row'.level = row.level /\ row'.locked = row.locked
    BY <2>1, <1>a DEF Codes!Recorded, CounterRow
  <2> QED BY <2>1, <2>2, <1>a, LocksKept
<1>3. ASSUME NEW i \in Issue, Codes!OpenCounter(i) PROVE Goal
  <2>1. CASE row.st = "none"
    <3>1. /\ counted' = counted /\ now' = now
          /\ row' = [Codes!NoRow EXCEPT !.st = "row", !.mailed = 1,
                       !.started = issue[i].at, !.exp = issue[i].at + CodeWindow]
      BY <1>3, <2>1 DEF Codes!OpenCounter
    <3>2. row'.st = "row" /\ row'.memory = 0
      BY <3>1 DEF Codes!NoRow
    <3>3. row.memory = 0 /\ Codes!GuessesCostTime /\ (GuessesKnown => counted = 0)
      BY <2>1 DEF GInv, GuessesKnown
    <3>4. Codes!GuessesCostTime'
      BY <3>1, <3>3 DEF Codes!GuessesCostTime
    <3>5. GuessesKnown => GuessesKnown'
      BY <3>1, <3>2, <3>3 DEF GuessesKnown
    <3> QED BY <3>1, <3>2, <3>4, <3>5, <1>a DEF GInv
  <2>2. CASE row.st # "none"
    <3>1. row' = row /\ counted' = counted /\ now' = now
      BY <1>3, <2>2 DEF Codes!OpenCounter
    <3> QED BY <3>1, <1>k
  <2> QED BY <2>1, <2>2
<1>4. ASSUME NEW h \in Guess,
             \/ \E c \in Issue \cup {"wrong"} : Codes!VerifyCode(h, c)
             \/ Codes!ReserveAttempt(h) \/ Codes!Refuse(h)
      PROVE  Goal
  <2>1. row' = row /\ counted' = counted /\ now' = now
    BY <1>4 DEF Codes!VerifyCode, Codes!ReserveAttempt, Codes!Refuse
  <2> QED BY <2>1, <1>k
<1>5. ASSUME NEW h \in Guess, Codes!ReserveGuess(h) PROVE Goal
  <2>1. CASE Codes!Locked(guess[h].at)
    <3>1. row' = row /\ counted' = counted /\ now' = now
      BY <1>5, <2>1 DEF Codes!ReserveGuess
    <3> QED BY <3>1, <1>k
  <2>2. CASE ~Codes!Locked(guess[h].at)
    <3> DEFINE x == guess[h].at
    <3>1. /\ row' = Codes!Counted(x) /\ counted' = counted + 1 /\ now' = now
          /\ guess[h].pc # "idle"
      BY <1>5, <2>2 DEF Codes!ReserveGuess
    <3>2. x \in Nat /\ x <= now /\ now <= x + Slow
      BY <3>1, <1>a DEF GuessRow, GuessOnTime
    <3>3. row'.st = "row" /\ counted' \in Nat
      BY <3>1, <1>a DEF Codes!Counted, CounterRow
    <3>4. CASE now >= Memory
      <4>1. Codes!GuessesCostTime'
        BY <3>1, <3>4, <1>a, LockLengths DEF Codes!GuessesCostTime, LockRule
      <4> QED BY <4>1, <3>1, <3>3, <3>4
    <3>5. CASE counted > 3 * Limit
      <4>1. counted > Limit /\ counted > 2 * Limit /\ counted' > 3 * Limit
        BY <3>1, <3>5, <1>a
      <4>2. Codes!GuessesCostTime'
        BY <4>1, <3>1, <3>5 DEF Codes!GuessesCostTime, GInv
      <4> QED BY <4>1, <4>2, <3>3
    <3>6. CASE now < Memory /\ counted <= 3 * Limit
      <4> HIDE DEF x
      <4>1. Codes!GuessesCostTime' /\ (counted' > 3 * Limit \/ GuessesKnown')
        BY <3>1, <3>2, <3>6, <2>2, <1>a, CountedKnown DEF x
      <4> QED BY <4>1, <3>3
    <3> QED BY <3>4, <3>5, <3>6, <1>a
  <2> QED BY <2>1, <2>2
<1>6. ASSUME NEW h \in Guess, NEW b \in BOOLEAN, Codes!ConsumeCode(h, b) PROVE Goal
  <2>1. CASE b /\ Codes!Claimable(h)
    <3>1. /\ counted' = 0 /\ now' = now
          /\ row' = IF row.st = "none" THEN row
                    ELSE [row EXCEPT !.failed = 0, !.level = 0, !.locked = 0, !.memory = 0]
      BY <1>6, <2>1 DEF Codes!ConsumeCode
    <3>2. row'.memory = 0
      BY <3>1, <1>a DEF GInv, CounterRow
    <3> QED BY <3>1, <3>2, <1>a, LocksForgotten
  <2>2. CASE ~(b /\ Codes!Claimable(h))
    <3>1. row' = row /\ counted' = counted /\ now' = now
      BY <1>6, <2>2 DEF Codes!ConsumeCode
    <3> QED BY <3>1, <1>k
  <2> QED BY <2>1, <2>2
<1>7. CASE Codes!RemoveRow
  <2>1. /\ row' = Codes!NoRow /\ counted' = counted /\ now' = now
        /\ row.st = "row" /\ row.exp <= now
    BY <1>7 DEF Codes!RemoveRow
  <2>2. row'.memory = 0 /\ row'.st = "none"
    BY <2>1 DEF Codes!NoRow
  <2>3. row.exp \in Nat /\ row.memory \in Int /\ row.exp >= row.memory
    BY <2>1, <1>a DEF CounterKept, Codes!RowKeptLongEnough, CounterRow
  <2>4. now >= Memory \/ counted > 3 * Limit \/ counted = 0
    BY <2>1, <2>3, <1>a DEF GInv, GuessesKnown
  <2>5. Codes!GuessesCostTime'
    BY <2>1 DEF Codes!GuessesCostTime, GInv
  <2> QED BY <2>1, <2>2, <2>4, <2>5, <1>a DEF GuessesKnown
<1>8. CASE Codes!RemoveRecord
  BY <1>8, <1>k DEF Codes!RemoveRecord
<1>9. CASE Codes!Tick
  <2>1. row' = row /\ counted' = counted /\ now' = now + 1
    BY <1>9 DEF Codes!Tick
  <2>2. now' \in Int /\ now' >= now
    BY <2>1, <1>a
  <2> QED BY <2>1, <2>2, <1>a, LocksKept
<1> QED
  BY <1>0, <1>1, <1>2, <1>3, <1>4, <1>5, <1>6, <1>7, <1>8, <1>9 DEF Codes!Next

LEMMA GInit == Codes!CodesAssumption /\ Codes!Init => GInv
<1> SUFFICES ASSUME Codes!CodesAssumption, Codes!Init
             PROVE  GInv
  OBVIOUS
<1>1. counted = 0 /\ row = Codes!NoRow /\ Limit \in Nat /\ Limit > 0
  BY DEF Codes!Init, Codes!CodesAssumption
<1>2. row.st = "none" /\ row.memory = 0
  BY <1>1 DEF Codes!NoRow
<1>3. \A g \in Guess : GuessOnTime(g)
  BY DEF Codes!Init, GuessOnTime
<1>4. Codes!GuessesCostTime
  BY <1>1 DEF Codes!GuessesCostTime
<1> QED BY <1>1, <1>2, <1>3, <1>4 DEF GInv, GuessesKnown

LEMMA GStep ==
  ASSUME Codes!CodesAssumption, LockRule, MInv, GInv, [Codes!Next]_Codes!vars
  PROVE  GInv'
<1>1. MTyped
  BY DEF MInv
<1> QED BY <1>1, GuessesOnTimeStep, GuessesCountedStep DEF GInv

(* Each limit of wrong codes costs a lock twice as long as the one before, *)
(* however many codes are asked for meanwhile and whatever is removed, if  *)
(* guesses are remembered for longer than three locks take                 *)
(* (reservePostgresGuess, CODE_GUESS_RULE).                                *)
THEOREM GuessesCost ==
  ASSUME Codes!CodesAssumption, LockRule
  PROVE  Codes!Spec => [](Codes!GuessesCostTime /\ GuessesCostTime)
<1>1. Codes!Init => MInv /\ GInv
  BY MInit, GInit
<1>2. MInv /\ GInv /\ [Codes!Next]_Codes!vars => MInv' /\ GInv'
  BY MStep, GStep
<1>3. MInv /\ GInv => Codes!GuessesCostTime /\ GuessesCostTime
  BY DEF GInv, GuessesCostTime
<1> QED BY <1>1, <1>2, <1>3, PTL DEF Codes!Spec
=============================================================================
