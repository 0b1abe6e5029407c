----------------------------- MODULE MagicLink ------------------------------
(***************************************************************************)
(* Sign-in links for one address: MagicLinkService, the link and account   *)
(* stores, MagicLinkAccountCreation and the nonce that ties a link to the  *)
(* browser that asked for it.                                              *)
(*                                                                         *)
(* Every statement of a store is a step.  Creating the account is one      *)
(* unit of work, serialised with every other claim of the address by the   *)
(* row of the address ledger; AccountCreationPolicy, which as it stands    *)
(* admits everyone, refuses nothing.  Issuing the session is one unit of   *)
(* work, which refuses a deleted account, a disabled application, a        *)
(* blocked grant and an account at its session cap; AccountSessions models *)
(* how these come about, SecondFactor what becomes of a challenge.  Tokens *)
(* are only known to who got the mail: the visits are of delivered links.  *)
(* A visit whose server stops, or whose statement fails, takes no further  *)
(* step.                                                                   *)
(***************************************************************************)
EXTENDS Integers, FiniteSets

CONSTANTS
  Link, Browser, Visit, \* links by the request that made them; verify calls
  MaxPerHour,    \* magicLink.maxPerHour
  Window,        \* MAGIC_LINK_RATE_WINDOW_MS, in ticks
  ExpiresIn,     \* magicLink.expiresIn, in ticks
  Slow,          \* longest time a request takes
  MaxTime,       \* the run ends here
  None

LinkAssumption ==
  /\ {MaxPerHour, Window, ExpiresIn, Slow, MaxTime} \subseteq Nat
  /\ None \notin Link \cup Browser

VARIABLES
  now,
  link,      \* pending_magic_links, with the request that is making one
  counter,   \* the address's row in mail_counters, if any
  cookie,    \* per browser: the nonce it holds (named by a link), or None
  signed,    \* per browser: "nobody", "owner" or "other" is signed in
  account,   \* the account at the address
  reserved,  \* another owner has a live claim on the address
  visit,     \* the verify calls
  mails,     \* history: when links were mailed
  barred     \* history: the account was deleted, or the address reserved

vars == <<now, link, counter, cookie, signed, account, reserved, visit, mails,
          barred>>

NoLink == [st |-> "none", by |-> None, nonce |-> None, at |-> 0,
           deleted |-> FALSE, spent |-> FALSE, delivered |-> FALSE]
NoVisit == [pc |-> "idle", by |-> None, link |-> None, confirm |-> FALSE,
            nonce |-> None, sess |-> "nobody", at |-> 0, checked |-> 0,
            owes |-> FALSE]

Init ==
  /\ now = 0
  /\ link = [l \in Link |-> NoLink]
  /\ counter = [st |-> "none", n |-> 0, started |-> 0]
  /\ cookie = [b \in Browser |-> None]
  /\ signed \in [Browser -> {"nobody", "other"}]
  /\ account \in {[st |-> "none", verified |-> FALSE],
                  [st |-> "live", verified |-> FALSE]}
  /\ reserved = FALSE
  /\ visit = [v \in Visit |-> NoVisit]
  /\ mails = {} /\ barred = FALSE

ExpiresAt(l) == link[l].at + ExpiresIn

(***************************************************************************)
(* Asking for a link.                                                      *)
(***************************************************************************)

(* MagicLinkBrowserService.bind: a nonce the browser holds is kept.  The   *)
(* cookie reaches the browser with the answer, in Store.                   *)
Bind(l, b) == IF cookie[b] = None THEN l ELSE cookie[b]

(* The clock, the nonce and the account are read. *)
Request(l, b) ==
  /\ link[l].st = "none"
  /\ link' = [link EXCEPT ![l] =
       [@ EXCEPT !.st = "asking", !.by = b, !.nonce = Bind(l, b), !.at = now,
                 !.deleted = account.st = "deleted"]]
  /\ UNCHANGED <<now, counter, cookie, signed, account, reserved, visit, mails,
                 barred>>

(* Fault: a window is over when the clock has moved. *)
TakeRequestSlotNoWindow(at) ==
  IF counter.st = "none" \/ counter.started < at
  THEN [st |-> "open", n |-> 1, started |-> at]
  ELSE [counter EXCEPT !.n = @ + 1]

(* The counter after one more request whose clock read `at`.               *)
TakeRequestSlot(at) ==
  IF counter.st = "none" \/ counter.started <= at - Window
  THEN [st |-> "open", n |-> 1, started |-> at]
  ELSE [counter EXCEPT !.n = @ + 1]

(* The slot is taken, the link stored - already spent when it is not       *)
(* mailed - and the mail handed over, to arrive or not.                    *)
Store(l, arrives) ==
  LET slot == TakeRequestSlot(link[l].at)
      mailed == ~link[l].deleted /\ slot.n <= MaxPerHour
  IN /\ link[l].st = "asking"
     /\ arrives => mailed
     /\ counter' = slot
     /\ link' = [link EXCEPT ![l].st = "stored", ![l].spent = ~mailed,
                             ![l].delivered = arrives]
     /\ cookie' = [cookie EXCEPT ![link[l].by] = link[l].nonce]
     /\ mails' = IF mailed THEN mails \cup {<<l, now>>} ELSE mails
     /\ UNCHANGED <<now, signed, account, reserved, visit, barred>>

(* Retention: a row whose window is over. *)
RemoveCounter ==
  /\ counter.st = "open" /\ counter.started + Window <= now
  /\ counter' = [st |-> "none", n |-> 0, started |-> 0]
  /\ UNCHANGED <<now, link, cookie, signed, account, reserved, visit, mails,
                 barred>>

(***************************************************************************)
(* Following a link.                                                       *)
(***************************************************************************)

Goto(v, pc) == visit' = [visit EXCEPT ![v].pc = pc]

(* verify is called: what the request carries is fixed here. *)
Verify(v, l, b, c) ==
  /\ visit[v].pc = "idle" /\ link[l].delivered
  /\ visit' = [visit EXCEPT ![v] =
       [pc |-> IF c THEN "claim" ELSE "look", by |-> b, link |-> l,
        confirm |-> c, nonce |-> cookie[b], sess |-> signed[b], at |-> now,
        checked |-> 0, owes |-> FALSE]]
  /\ UNCHANGED <<now, link, counter, cookie, signed, account, reserved, mails,
                 barred>>

(* Fault: a browser with any nonce will do. *)
SameBrowserLoose(v) == visit[v].nonce # None

(* The nonce the browser presented is the link's. *)
SameBrowser(v) == visit[v].nonce # None
                  /\ visit[v].nonce = link[visit[v].link].nonce

(* findUnspentLink, the expiry and the nonce. *)
Look(v) ==
  LET l == visit[v].link IN
  /\ visit[v].pc = "look"
  /\ Goto(v, IF link[l].spent \/ ExpiresAt(l) <= visit[v].at THEN "invalid"
             ELSE IF ~SameBrowser(v) THEN "confirm"
             ELSE IF visit[v].sess = "nobody" THEN "claim" ELSE "owner")
  /\ UNCHANGED <<now, link, counter, cookie, signed, account, reserved, mails,
                 barred>>

(* Who is signed in on this browser, if the session still stands, against  *)
(* who owns the address.                                                   *)
LookAtOwner(v, stands) ==
  /\ visit[v].pc = "owner"
  /\ Goto(v, IF stands /\ (visit[v].sess = "other" \/ account.st = "none")
             THEN "confirm" ELSE "claim")
  /\ UNCHANGED <<now, link, counter, cookie, signed, account, reserved, mails,
                 barred>>

(* Fault: the link is read here, and spent with the sign-in. *)
ClaimLinkByReading(v) ==
  /\ visit[v].pc = "claim"
  /\ Goto(v, IF link[visit[v].link].spent THEN "invalid" ELSE "resolve")
  /\ UNCHANGED <<now, link, counter, cookie, signed, account, reserved, mails,
                 barred>>

(* claimLink: one statement, expired or not. *)
ClaimLink(v) ==
  /\ visit[v].pc = "claim"
  /\ IF link[visit[v].link].spent
     THEN Goto(v, "invalid") /\ UNCHANGED link
     ELSE Goto(v, "resolve")
          /\ link' = [link EXCEPT ![visit[v].link].spent = TRUE]
  /\ UNCHANGED <<now, counter, cookie, signed, account, reserved, mails,
                 barred>>

(* Fault: the expiry was looked at before. *)
ResolveUserAnyTime(v, owes) ==
  /\ visit[v].pc = "resolve"
  /\ owes => account.st = "live"
  /\ visit' = [visit EXCEPT ![v].checked = now, ![v].owes = owes, ![v].pc =
       IF account.st = "deleted" THEN "refused"
       ELSE IF account.st = "none" THEN "create"
       ELSE IF account.verified THEN "complete" ELSE "verify"]
  /\ UNCHANGED <<now, link, counter, cookie, signed, account, reserved, mails,
                 barred>>

(* The expiry by the clock of this moment, then the account and whether    *)
(* it owes a second factor.                                                *)
ResolveUser(v, owes) ==
  /\ visit[v].pc = "resolve"
  /\ owes => account.st = "live"
  /\ visit' = [visit EXCEPT ![v].checked = now, ![v].owes = owes, ![v].pc =
       IF ExpiresAt(visit[v].link) <= now THEN "expired"
       ELSE IF account.st = "deleted" THEN "refused"
       ELSE IF account.st = "none" THEN "create"
       ELSE IF account.verified THEN "complete" ELSE "verify"]
  /\ UNCHANGED <<now, link, counter, cookie, signed, account, reserved, mails,
                 barred>>

(* markVerified, whatever happened to the account meanwhile. *)
MarkVerified(v) ==
  /\ visit[v].pc = "verify"
  /\ account' = [account EXCEPT !.verified = TRUE]
  /\ Goto(v, "complete")
  /\ UNCHANGED <<now, link, counter, cookie, signed, reserved, mails, barred>>

(* Fault: whoever loses the address is turned away. *)
CreateUserOrRefuse(v) ==
  /\ visit[v].pc = "create"
  /\ IF reserved \/ account.st # "none"
     THEN Goto(v, "refused") /\ UNCHANGED account
     ELSE Goto(v, "complete") /\ account' = [st |-> "live", verified |-> TRUE]
  /\ UNCHANGED <<now, link, counter, cookie, signed, reserved, mails, barred>>

(* createUser's unit of work. *)
CreateUser(v) ==
  /\ visit[v].pc = "create"
  /\ IF reserved \/ account.st # "none"
     THEN Goto(v, "taken") /\ UNCHANGED account
     ELSE Goto(v, "complete") /\ account' = [st |-> "live", verified |-> TRUE]
  /\ UNCHANGED <<now, link, counter, cookie, signed, reserved, mails, barred>>

(* The address was taken: by an account that is there now, or not. *)
AddressTaken(v, owes) ==
  /\ visit[v].pc = "taken"
  /\ owes => account.st = "live"
  /\ visit' = [visit EXCEPT ![v].owes = owes, ![v].pc =
       IF account.st # "live" THEN "refused"
       ELSE IF account.verified THEN "complete" ELSE "verify"]
  /\ UNCHANGED <<now, link, counter, cookie, signed, account, reserved, mails,
                 barred>>

Release(v) == cookie' = [cookie EXCEPT ![visit[v].by] = None]

(* completeSignIn by the account as it was read: a challenge when it owes  *)
(* a second factor, else a session, unless issuance refuses: the account   *)
(* was deleted, or, with ~issued, the application is disabled, the grant   *)
(* blocked, the session cap reached or the store out of reach.  The nonce  *)
(* is released with a challenge or a session; the link is not given back.  *)
CompleteSignIn(v, issued) ==
  /\ visit[v].pc = "complete"
  /\ \/ /\ visit[v].owes
        /\ Goto(v, "challenged") /\ Release(v) /\ UNCHANGED signed
     \/ /\ ~visit[v].owes /\ account.st = "live" /\ issued
        /\ Goto(v, "signed_in") /\ Release(v)
        /\ signed' = [signed EXCEPT ![visit[v].by] = "owner"]
     \/ /\ ~visit[v].owes
        /\ \/ account.st # "live" /\ Goto(v, "refused")
           \/ account.st = "live" /\ ~issued /\ Goto(v, "unissued")
        /\ UNCHANGED <<signed, cookie>>
  /\ UNCHANGED <<now, link, counter, account, reserved, mails, barred>>

(***************************************************************************)
(* The rest of the system.                                                 *)
(***************************************************************************)

(* An administrator deletes the account; sessions and cookies end.         *)
DeleteAccount ==
  /\ account.st = "live"
  /\ account' = [account EXCEPT !.st = "deleted"]
  /\ signed' = [b \in Browser |-> IF signed[b] = "owner" THEN "nobody"
                                  ELSE signed[b]]
  /\ barred' = TRUE
  /\ UNCHANGED <<now, link, counter, cookie, reserved, visit, mails>>

(* Another route creates the account, verified or not. *)
CreatedElsewhere(verified) ==
  /\ account.st = "none" /\ ~reserved
  /\ account' = [st |-> "live", verified |-> verified]
  /\ UNCHANGED <<now, link, counter, cookie, signed, reserved, visit, mails,
                 barred>>

(* Another account claims the address as its next one. *)
ReservedElsewhere ==
  /\ account.st = "none" /\ ~reserved
  /\ reserved' = TRUE /\ barred' = TRUE
  /\ UNCHANGED <<now, link, counter, cookie, signed, account, visit, mails>>

(* Requests that are being answered are answered before Slow is over.      *)
Tick ==
  /\ now < MaxTime /\ now' = now + 1
  /\ \A l \in Link : link[l].st = "asking" => now - link[l].at < Slow
  /\ UNCHANGED <<link, counter, cookie, signed, account, reserved, visit,
                 mails, barred>>

Next ==
  \/ \E l \in Link, b \in Browser : Request(l, b)
  \/ \E l \in Link, a \in BOOLEAN : Store(l, a)
  \/ \E v \in Visit, l \in Link, b \in Browser, c \in BOOLEAN : Verify(v, l, b, c)
  \/ \E v \in Visit : \/ Look(v) \/ ClaimLink(v) \/ MarkVerified(v)
                      \/ CreateUser(v)
                      \/ \E s \in BOOLEAN : LookAtOwner(v, s) \/ CompleteSignIn(v, s)
                      \/ \E owes \in BOOLEAN : \/ ResolveUser(v, owes)
                                              \/ AddressTaken(v, owes)
  \/ RemoveCounter \/ DeleteAccount \/ ReservedElsewhere \/ Tick
  \/ \E verified \in BOOLEAN : CreatedElsewhere(verified)

Spec == Init /\ [][Next]_vars

(***************************************************************************)
(* Properties.                                                             *)
(***************************************************************************)

Past == {"resolve", "verify", "create", "taken", "complete", "signed_in",
         "challenged", "refused", "unissued", "expired"}
InUse == {v \in Visit : visit[v].pc \in Past}

(* Types; a link is in use only once it is spent.                          *)
TypeOK ==
  /\ now \in 0..MaxTime
  /\ counter \in [st : {"none", "open"}, n : Nat, started : 0..MaxTime]
  /\ account \in [st : {"none", "live", "deleted"}, verified : BOOLEAN]
  /\ \A v \in Visit : /\ visit[v].pc \in Past \cup
                           {"idle", "look", "owner", "claim", "confirm", "invalid"}
                      /\ v \in InUse => link[visit[v].link].spent

(* One link is worth one sign-in: of the visits of a link, confirmed or    *)
(* not, at once or later, one gets past the claim.                         *)
OneSignInPerLink ==
  \A v, w \in InUse : visit[v].link = visit[w].link => v = w

(* A token alone signs nobody in: without a confirmation only the browser  *)
(* that asked for the link gets past the claim, however requests, answers  *)
(* and earlier sign-ins of several browsers mix.                           *)
OnlyWhereAsked ==
  \A v \in InUse : ~visit[v].confirm => link[visit[v].link].by = visit[v].by

(* Nobody is signed in, or asked for the second factor alone, with a link  *)
(* that was claimed after its time, also when the claim had to wait or the *)
(* visit said it was confirmed.                                            *)
NotAfterExpiry ==
  \A v \in InUse : visit[v].pc \in {"signed_in", "challenged"} =>
    visit[v].checked < ExpiresAt(visit[v].link)

(* Whoever claims a link in time reaches the account, also when two links  *)
(* of a new address create it at once, while it is never deleted and       *)
(* nobody else reserves the address.  There a session is issued or the     *)
(* second factor asked for, or issuance refuses and the link is lost.      *)
ReachesTheAccount ==
  \A v \in InUse : visit[v].pc = "refused" => barred

(* All of it: a link is good for one sign-in, where it was asked for, in   *)
(* time, to the account at the address.                                    *)
LinkSignsInOnce ==
  /\ TypeOK /\ OneSignInPerLink /\ OnlyWhereAsked /\ NotAfterExpiry
  /\ ReachesTheAccount

(* The hourly cap: in any window, shortened by what a request may take, at *)
(* most twice the cap is mailed - the end of one window and the beginning  *)
(* of the next - and the removal of counters gives no request back.        *)
MailsAreCapped ==
  \A t \in 0..MaxTime :
    Cardinality({m \in mails : m[2] >= t /\ m[2] < t + Window - Slow})
      <= 2 * MaxPerHour
=============================================================================
