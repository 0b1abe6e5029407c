---------------------------- MODULE AddressClaims ---------------------------
(***************************************************************************)
(* Who gets an address: the address ledger, and the units of work that put *)
(* an account on one - creating an account, asking for a change of address *)
(* and confirming it (PostgresAddressLedger, AdminEmailChangeService,      *)
(* saveUserUpdate, createActivatedAccount, confirmEmailChange).            *)
(*                                                                         *)
(* Units of work run at READ COMMITTED: a statement sees what is committed *)
(* when it runs, rows it writes or takes stay locked until the end, and    *)
(* writes show at the commit.  A claim is a row by its address, so the     *)
(* lock of a claim is there before the row is.  The last writes of a unit  *)
(* of work and its commit are one step.                                    *)
(***************************************************************************)
EXTENDS Integers, FiniteSets

CONSTANTS
  Work,       \* units of work; one that creates an account names it
  User, Addr, \* accounts that exist; addresses at issue
  ExpiresIn,  \* how long a code, and a claim with it, lasts
  MaxTime, None

ClaimsAssumption ==
  /\ ExpiresIn \in Nat /\ MaxTime \in Nat
  /\ Work \cap User = {} /\ None \notin Work \cup User \cup Addr

VARIABLES
  now,
  acct,    \* users: address, pending address and its generation
  claim,   \* address_claims
  rec,     \* pending_registrations of purpose EMAIL_CHANGE
  work,    \* the units of work, with what they read before
  held     \* per unit of work: the locks it holds

vars == <<now, acct, claim, rec, work, held>>

Account == User \cup Work
NoClaim == [owner |-> None, lapses |-> 0]
NoCode == [code |-> None, user |-> None, gen |-> 0, exp |-> 0]
NoWork == [kind |-> "none", pc |-> "idle", user |-> None, addr |-> None,
           email |-> None, gen |-> 0, code |-> None, at |-> 0, exp |-> 0]

(* A user has asked for nothing, or waits to confirm an address.           *)
Init ==
  /\ now = 0
  /\ work = [w \in Work |-> NoWork] /\ held = [w \in Work |-> {}]
  /\ \E asked \in [User -> Addr \cup {None}] :
       /\ \A u, v \in User : u # v /\ asked[u] = asked[v] => asked[u] = None
       /\ acct = [x \in Account |->
            [live |-> x \in User, email |-> None,
             pending |-> IF x \in User THEN asked[x] ELSE None,
             gen |-> IF x \in User /\ asked[x] # None THEN 1 ELSE 0]]
       /\ claim = [a \in Addr |->
            IF \E u \in User : asked[u] = a
            THEN [owner |-> CHOOSE u \in User : asked[u] = a, lapses |-> ExpiresIn]
            ELSE NoClaim]
       /\ rec = [a \in Addr |->
            IF \E u \in User : asked[u] = a
            THEN [code |-> "first", user |-> CHOOSE u \in User : asked[u] = a,
                  gen |-> 1, exp |-> ExpiresIn]
            ELSE NoCode]

(***************************************************************************)
(* Statements.                                                             *)
(***************************************************************************)

Goto(w, pc) == work' = [work EXCEPT ![w].pc = pc]
GotoNow(w, pc) == work' = [work EXCEPT ![w].pc = pc, ![w].at = now]
HeldByOther(w, l) == \E v \in Work : v # w /\ l \in held[v]
Take(w, l) == held' = [held EXCEPT ![w] = @ \cup {l}]

(* The unit of work ends without a trace. *)
Rollback(w, pc) ==
  /\ work' = [work EXCEPT ![w].pc = pc]
  /\ held' = [held EXCEPT ![w] = {}]
  /\ UNCHANGED <<acct, claim, rec>>

Commit(w) ==
  /\ work' = [work EXCEPT ![w].pc = "done"]
  /\ held' = [held EXCEPT ![w] = {}]

(* Who claims: a user, or a reservation of its own. *)
Owner(w) == IF work[w].kind = "create" THEN w ELSE work[w].user

OnAddress(a) == {x \in Account : acct[x].email = a}

(* PostgresAddressLedger.isFree. *)
IsFree(a, owner) ==
  /\ OnAddress(a) = {}
  /\ claim[a].owner \in {None, owner} \/ claim[a].lapses <= now

(* The claim's upsert: it waits for the row, then needs it to be lapsed,   *)
(* by the clock read before, or its own.                                   *)
Claim(w) ==
  LET a == work[w].addr IN
  /\ work[w].pc = "claim" /\ ~HeldByOther(w, <<"claim", a>>)
  /\ IF claim[a].owner \in {None, Owner(w)} \/ claim[a].lapses <= work[w].at
     THEN /\ Take(w, <<"claim", a>>) /\ Goto(w, "accounts")
          /\ UNCHANGED <<acct, claim, rec>>
     ELSE Rollback(w, "taken")
  /\ UNCHANGED now

(* Fault: the claim is enough. *)
ClaimAccountsUnread(w) ==
  /\ work[w].pc = "accounts"
  /\ Goto(w, "write") /\ UNCHANGED <<acct, claim, rec, held, now>>

(* Its second statement: an account that came while it waited.             *)
ClaimAccounts(w) ==
  /\ work[w].pc = "accounts"
  /\ IF OnAddress(work[w].addr) \subseteq {Owner(w)}
     THEN Goto(w, "write") /\ UNCHANGED <<acct, claim, rec, held>>
     ELSE Rollback(w, "taken")
  /\ UNCHANGED now

(* Fault: the account is read FOR SHARE. *)
TakeUserShared(w) ==
  LET x == work[w] IN
  /\ x.pc = "user"
  /\ IF /\ acct[x.user].live /\ acct[x.user].gen = x.gen
        /\ IF x.kind = "save" THEN acct[x.user].email = x.email
                              ELSE acct[x.user].pending = x.addr
     THEN /\ Take(w, <<"user", x.user>>)
          /\ IF x.kind = "confirm" THEN Goto(w, "holds") ELSE GotoNow(w, "claim")
          /\ UNCHANGED <<acct, claim, rec>>
     ELSE Rollback(w, "refused")
  /\ UNCHANGED now

(* The target account, locked or given up at once (NOWAIT), and still as   *)
(* it was read.                                                            *)
TakeUser(w) ==
  LET x == work[w] IN
  /\ x.pc = "user"
  /\ IF /\ ~HeldByOther(w, <<"user", x.user>>)
        /\ acct[x.user].live /\ acct[x.user].gen = x.gen
        /\ IF x.kind = "save" THEN acct[x.user].email = x.email
                              ELSE acct[x.user].pending = x.addr
     THEN /\ Take(w, <<"user", x.user>>)
          /\ IF x.kind = "confirm" THEN Goto(w, "holds") ELSE GotoNow(w, "claim")
          /\ UNCHANGED <<acct, claim, rec>>
     ELSE Rollback(w, "refused")
  /\ UNCHANGED now

(***************************************************************************)
(* Creating an account.                                                    *)
(***************************************************************************)

CreateAccount(w, a) ==
  /\ work[w].pc = "idle"
  /\ work' = [work EXCEPT ![w] = [NoWork EXCEPT !.kind = "create", !.pc = "claim",
                                    !.addr = a, !.at = now]]
  /\ UNCHANGED <<now, acct, claim, rec, held>>

(* The insert, the end of the reservation, and the commit. *)
InsertAccount(w) ==
  LET a == work[w].addr IN
  /\ work[w].pc = "write" /\ work[w].kind = "create"
  /\ IF OnAddress(a) # {} THEN Rollback(w, "conflict")
     ELSE /\ acct' = [acct EXCEPT ![w].live = TRUE, ![w].email = a]
          /\ claim' = [claim EXCEPT ![a] = NoClaim]
          /\ Commit(w) /\ UNCHANGED rec
  /\ UNCHANGED now

(***************************************************************************)
(* Asking for another address.                                             *)
(***************************************************************************)

(* updateUser reads the account and looks at the address. *)
UpdateUser(w, u, a) ==
  /\ work[w].pc = "idle" /\ acct[u].live /\ acct[u].email # a
  /\ IsFree(a, u)
  /\ work' = [work EXCEPT ![w] =
       [NoWork EXCEPT !.kind = "save", !.pc = "user", !.user = u, !.addr = a,
                      !.email = acct[u].email, !.gen = acct[u].gen]]
  /\ UNCHANGED <<now, acct, claim, rec, held>>

(* Fault: the claim on the address asked for before is left. *)
ReleasedNothing(w, old) == FALSE

(* Is the claim on the address asked for before released. *)
Released(w, old) == /\ old \notin {None, work[w].addr}
                    /\ claim[old].owner = work[w].user

(* claimPendingIn's release, saveIdentity and the commit. *)
SaveIdentity(w) ==
  LET x == work[w]
      old == acct[x.user].pending
  IN /\ x.pc = "write" /\ x.kind = "save"
     /\ old # None => ~HeldByOther(w, <<"claim", old>>)
     /\ claim' = [a \in Addr |->
          CASE a = x.addr -> [owner |-> x.user, lapses |-> x.at + ExpiresIn]
            [] a = old /\ Released(w, old) -> NoClaim
            [] OTHER -> claim[a]]
     /\ acct' = [acct EXCEPT ![x.user].pending = x.addr, ![x.user].gen = @ + 1]
     /\ Commit(w) /\ UNCHANGED <<now, rec>>

(* sendConfirmation, after a save or for a resend: the account as it was   *)
(* read, the address, and a new code.                                      *)
SendConfirmation(w, u) ==
  /\ work[w].pc = "idle" /\ acct[u].live /\ acct[u].pending # None
  /\ IsFree(acct[u].pending, u)
  /\ work' = [work EXCEPT ![w] =
       [NoWork EXCEPT !.kind = "send", !.pc = "user", !.user = u,
          !.addr = acct[u].pending, !.gen = acct[u].gen, !.exp = now + ExpiresIn]]
  /\ UNCHANGED <<now, acct, claim, rec, held>>

(* Fault: a claim that stands is left as it is. *)
ClaimedUntilBefore(w) == claim[work[w].addr].lapses

(* The claim lapses with the code. *)
ClaimedUntil(w) == work[w].exp

(* putEmailChangeCodeIn and the commit: a code of a later generation stays.*)
PutCode(w) ==
  LET x == work[w] IN
  /\ x.pc = "write" /\ x.kind = "send"
  /\ ~HeldByOther(w, <<"code", x.addr>>)
  /\ IF rec[x.addr].user = x.user /\ rec[x.addr].gen > x.gen
     THEN Rollback(w, "refused")
     ELSE /\ claim' = [claim EXCEPT ![x.addr] =
                         [owner |-> x.user, lapses |-> ClaimedUntil(w)]]
          /\ rec' = [rec EXCEPT ![x.addr] =
                       [code |-> w, user |-> x.user, gen |-> x.gen, exp |-> x.exp]]
          /\ Commit(w) /\ UNCHANGED acct
  /\ UNCHANGED now

(***************************************************************************)
(* Confirming it.                                                          *)
(***************************************************************************)

(* verifyCode answered with the record that was compared. *)
Confirm(w, a) ==
  /\ work[w].pc = "idle" /\ rec[a].code # None /\ rec[a].exp > now
  /\ work' = [work EXCEPT ![w] =
       [NoWork EXCEPT !.kind = "confirm", !.pc = "consume", !.addr = a,
          !.user = rec[a].user, !.gen = rec[a].gen, !.code = rec[a].code]]
  /\ UNCHANGED <<now, acct, claim, rec, held>>

(* consumeCode: the delete waits for the row. *)
ConsumeCode(w) ==
  LET x == work[w] IN
  /\ x.pc = "consume" /\ ~HeldByOther(w, <<"code", x.addr>>)
  /\ IF rec[x.addr].code = x.code /\ rec[x.addr].exp > now
     THEN /\ Take(w, <<"code", x.addr>>) /\ GotoNow(w, "user")
          /\ UNCHANGED <<acct, claim, rec>>
     ELSE Rollback(w, "refused")
  /\ UNCHANGED now

(* Fault: the claim is read and not locked. *)
HoldsLiveClaimUnlocked(w) ==
  LET x == work[w] IN
  /\ x.pc = "holds" /\ ~HeldByOther(w, <<"claim", x.addr>>)
  /\ IF claim[x.addr].owner = x.user /\ claim[x.addr].lapses > x.at
     THEN Goto(w, "write") /\ UNCHANGED <<acct, claim, rec, held>>
     ELSE Rollback(w, "refused")
  /\ UNCHANGED now

(* SELECT ... FOR UPDATE of the claim. *)
HoldsLiveClaim(w) ==
  LET x == work[w] IN
  /\ x.pc = "holds" /\ ~HeldByOther(w, <<"claim", x.addr>>)
  /\ IF claim[x.addr].owner = x.user /\ claim[x.addr].lapses > x.at
     THEN /\ Take(w, <<"claim", x.addr>>) /\ Goto(w, "write")
          /\ UNCHANGED <<acct, claim, rec>>
     ELSE Rollback(w, "refused")
  /\ UNCHANGED now

(* confirmAddress, the release and the commit. *)
ConfirmAddress(w) ==
  LET x == work[w] IN
  /\ x.pc = "write" /\ x.kind = "confirm"
  /\ IF OnAddress(x.addr) \ {x.user} # {} THEN Rollback(w, "conflict")
     ELSE /\ acct' = [acct EXCEPT ![x.user].email = x.addr,
                                  ![x.user].pending = None]
          /\ claim' = [claim EXCEPT ![x.addr] =
                         IF @.owner = x.user THEN NoClaim ELSE @]
          /\ rec' = [rec EXCEPT ![x.addr] = NoCode]
          /\ Commit(w)
  /\ UNCHANGED now

(***************************************************************************)
(* The rest.                                                               *)
(***************************************************************************)

(* A unit of work is lost: a broken connection, or the one of two that     *)
(* wait for each other that the database ends.                             *)
Abort(w) ==
  /\ work[w].pc \in {"claim", "accounts", "user", "write", "consume", "holds"}
  /\ Rollback(w, "aborted") /\ UNCHANGED now

(* An administrator deactivates a user. *)
Deactivate(u) ==
  /\ acct[u].live /\ \A w \in Work : <<"user", u>> \notin held[w]
  /\ acct' = [acct EXCEPT ![u].live = FALSE]
  /\ UNCHANGED <<now, claim, rec, work, held>>

Tick == now < MaxTime /\ now' = now + 1
        /\ UNCHANGED <<acct, claim, rec, work, held>>

Next ==
  \/ \E w \in Work :
       \/ Claim(w) \/ ClaimAccounts(w) \/ TakeUser(w) \/ InsertAccount(w)
       \/ SaveIdentity(w) \/ PutCode(w) \/ ConsumeCode(w)
       \/ HoldsLiveClaim(w) \/ ConfirmAddress(w) \/ Abort(w)
       \/ \E a \in Addr : CreateAccount(w, a) \/ Confirm(w, a)
       \/ \E u \in User, a \in Addr : UpdateUser(w, u, a)
       \/ \E u \in User : SendConfirmation(w, u)
  \/ \E u \in User : Deactivate(u)
  \/ Tick

Spec == Init /\ [][Next]_vars

(***************************************************************************)
(* Properties.                                                             *)
(***************************************************************************)

(* Types; two units of work never hold one lock, and one that has ended    *)
(* holds none.                                                             *)
TypeOK ==
  /\ now \in 0..MaxTime
  /\ \A w \in Work :
       /\ work[w].pc \in {"idle", "done", "taken", "refused", "conflict",
                          "aborted"} => held[w] = {}
       /\ \A l \in held[w] : ~HeldByOther(w, l)
  /\ \A a \in Addr : claim[a].owner \in Account \cup {None}

(* The ledger decides, not the unique index of the accounts: no unit of    *)
(* work that went through the ledger ever finds its address taken by the   *)
(* time it writes, so nobody gets a conflict after the code was consumed.  *)
LedgerDecides == \A w \in Work : work[w].pc # "conflict"

(* A claim is kept: while a user's claim on an address is live, no other   *)
(* account is put on it.                                                   *)
ClaimIsKept ==
  \A a \in Addr, x \in Account :
    (acct'[x].email = a /\ acct[x].email # a) =>
      claim[a].owner \in {None, x} \/ claim[a].lapses <= now

(* A code that can still be confirmed has its claim: the account waits for *)
(* this address in this generation, and the claim is its own and lapses no *)
(* earlier than the code.                                                  *)
CodeHasItsClaim ==
  \A a \in Addr :
    (/\ rec[a].code # None /\ rec[a].exp > now
     /\ acct[rec[a].user].live /\ acct[rec[a].user].gen = rec[a].gen
     /\ acct[rec[a].user].pending = a)
      => claim[a].owner = rec[a].user /\ claim[a].lapses >= rec[a].exp

(* A user holds the claim of one address at most that is live: asking for  *)
(* another gives the one before back.                                      *)
OneLiveClaimEach ==
  \A a, b \in Addr : (/\ a # b /\ claim[a].owner \in User
                      /\ claim[a].owner = claim[b].owner
                      /\ acct[claim[a].owner].pending = a)
                        => claim[b].lapses <= now
=============================================================================
