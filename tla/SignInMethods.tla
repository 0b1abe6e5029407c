---------------------------- MODULE SignInMethods ---------------------------
(***************************************************************************)
(* The ways into one account on PostgreSQL: provider accounts that are     *)
(* linked and unlinked, passkeys that are removed, and the rule both ask   *)
(* before they take a way away (AccountLinkingService,                     *)
(* PasskeyManagementService, SignInMethodRule and their stores).           *)
(*                                                                         *)
(* A removal holds the account's row, FOR NO KEY UPDATE NOWAIT, from its   *)
(* first statement to its commit.  Whatever else writes the row, or shares *)
(* it to add a passkey, waits for that; a second removal is refused and    *)
(* run again, which here is not taken until it can be.  Applications are   *)
(* read without a lock.                                                    *)
(***************************************************************************)
EXTENDS Integers, Sequences, FiniteSets

CONSTANTS
  Work, Kind,    \* requests, and what they may ask for
  Provider, Id,  \* a provider account is one of each
  Elsewhere,     \* provider accounts that are linked to somebody else
  Key, AppKeys,  \* passkeys, and those made for an app's own relying party
  MaxLinks,      \* links that are made, in all
  Confs,         \* deployments, and accounts, that are looked at
  None

(* The features that are on, whether some application offers the code,     *)
(* whether the account was made for its address, and has a password.       *)
Conf == [password : BOOLEAN, magicLink : BOOLEAN, emailCode : BOOLEAN,
         emailSignIn : BOOLEAN, hasPassword : BOOLEAN]

MethodsAssumption ==
  /\ Elsewhere \subseteq Provider \X Id /\ AppKeys \subseteq Key /\ MaxLinks \in Nat
  /\ Confs \subseteq Conf
  /\ Kind \subseteq {"link", "unlink", "remove", "primary"} /\ None \notin Provider

VARIABLES
  conf,     \* what the deployment offers, and how the account was made
  links,    \* user_linked_accounts of the account, in the order of their ids
  primary,  \* users.primary_provider
  keys,     \* passkeys of the account
  active,   \* it is not deactivated
  app,      \* the application that offers emailed codes is switched on
  grant,    \* and the account is not blocked there
  hold,     \* the request that holds the account's row
  work,     \* the requests, with what they read
  made      \* links that were made

vars == <<conf, links, primary, keys, active, app, grant, hold, work, made>>

NoWork == [kind |-> "none", pc |-> "idle", link |-> <<None, None>>, provider |-> None,
           key |-> None, primary |-> None, links |-> <<>>, keys |-> {}, door |-> FALSE]

ProvidersOf(l) == {l[i][1] : i \in DOMAIN l}

Init ==
  /\ conf \in Confs
  /\ \E l \in {<<>>} \cup {<<x>> : x \in (Provider \X Id) \ Elsewhere} :
       links = l /\ primary = IF l = <<>> THEN None ELSE l[1][1]
  /\ keys \in SUBSET Key /\ active = TRUE /\ app \in BOOLEAN /\ grant \in BOOLEAN
  /\ hold = None /\ work = [w \in Work |-> NoWork] /\ made = 0

store == <<conf, links, primary, keys, active, app, grant>>
Answer(w, pc) == work' = [work EXCEPT ![w] = [NoWork EXCEPT !.pc = pc]]

(***************************************************************************)
(* Linking.                                                                *)
(***************************************************************************)

(* linkProvider: the account is read, with no lock. *)
ReadToLink(w, x) ==
  /\ "link" \in Kind /\ work[w].pc = "idle" /\ active /\ x[1] \notin ProvidersOf(links)
  /\ work' = [work EXCEPT ![w] = [@ EXCEPT !.kind = "link", !.pc = "add",
                                           !.link = x, !.primary = primary]]
  /\ UNCHANGED <<store, hold, made>>

(* One provider account belongs to one account: user_linked_identity_unique. *)
Unlinked(x) == x \notin Elsewhere /\ ~\E i \in DOMAIN links : links[i] = x

(* addLink: the link, and the primary provider when none was read. *)
AddLink(w) ==
  LET x == work[w].link IN
  /\ work[w].pc = "add" /\ hold = None
  /\ IF Unlinked(x) /\ made < MaxLinks
     THEN /\ links' = Append(links, x) /\ made' = made + 1 /\ Answer(w, "done")
          /\ primary' = IF work[w].primary = None THEN x[1] ELSE primary
     ELSE Answer(w, "refused") /\ UNCHANGED <<links, primary, made>>
  /\ UNCHANGED <<conf, keys, active, app, grant, hold>>

(* A first sign-in with a provider that vouches for the address. *)
LinkFirstSignIn(x) ==
  /\ "link" \in Kind /\ hold = None /\ active /\ Unlinked(x) /\ made < MaxLinks
  /\ links' = Append(links, x) /\ made' = made + 1
  /\ primary' = IF primary = None THEN x[1] ELSE primary
  /\ UNCHANGED <<conf, keys, active, app, grant, hold, work>>

(* setPrimaryProvider: what is chosen was linked when the account was read ... *)
ReadToChoose(w, p) ==
  /\ "primary" \in Kind /\ work[w].pc = "idle" /\ active /\ p \in ProvidersOf(links)
  /\ work' = [work EXCEPT ![w] = [@ EXCEPT !.kind = "primary", !.pc = "save", !.provider = p]]
  /\ UNCHANGED <<store, hold, made>>

(* ... and is saved in a statement of its own. *)
SavePrimary(w) ==
  /\ work[w].pc = "save" /\ hold = None /\ primary' = work[w].provider
  /\ Answer(w, "done") /\ UNCHANGED <<conf, links, keys, active, app, grant, hold, made>>

(***************************************************************************)
(* The rule: what is left when one way in goes.                            *)
(***************************************************************************)

EmailWayIn(door) == conf.emailSignIn /\ (conf.password \/ conf.magicLink \/ door)

(* waysLeftWithout: other providers, and email while it is a way in. *)
LeftWithout(p, l, door) == EmailWayIn(door) \/ ProvidersOf(l) \ {p} # {}

WaysBesidesPasskeys(l) == (conf.password /\ conf.hasPassword) \/ l # <<>> \/ conf.magicLink

Party(k) == IF k \in AppKeys THEN AppKeys ELSE Key \ AppKeys

(* waysLeftWithoutOnePasskey and assertRelyingPartyKeepsAWayIn. *)
LeftWithoutKey(k, l, ks) == (ks \cap Party(k)) \ {k} # {} \/ WaysBesidesPasskeys(l)

(***************************************************************************)
(* Removals.                                                               *)
(***************************************************************************)

(* Fault: the ways in are read and not held. *)
HeldByMany(w) == TRUE

MayHold(w) == hold = None

(* remove: the passkey is looked for before the unit of work starts. *)
FindOwned(w, k) ==
  /\ "remove" \in Kind /\ work[w].pc = "idle" /\ k \in keys
  /\ work' = [work EXCEPT ![w] = [@ EXCEPT !.kind = "remove", !.pc = "hold", !.key = k]]
  /\ UNCHANGED <<store, hold, made>>

(* holdForAccount: the row, then the links and the passkeys. *)
HoldForAccount(w, x) ==
  /\ MayHold(w) /\ hold' = w
  /\ work' = [work EXCEPT ![w] = [x EXCEPT !.pc = "door", !.links = links, !.keys = keys]]
  /\ UNCHANGED <<store, made>>

HoldToUnlink(w, p) ==
  /\ "unlink" \in Kind /\ work[w].pc = "idle"
  /\ HoldForAccount(w, [NoWork EXCEPT !.kind = "unlink", !.provider = p])

HoldToRemove(w) == work[w].pc = "hold" /\ HoldForAccount(w, work[w])

(* emailCodeOpens: the application as it is now, and the grant. *)
ReadDoor(w) ==
  /\ work[w].pc = "door"
  /\ work' = [work EXCEPT ![w].pc = "decide", ![w].door = conf.emailCode /\ app /\ grant]
  /\ UNCHANGED <<store, hold, made>>

(* Fault: the primary provider is left as it is. *)
PrimaryLeft(p, remaining) == primary

PrimaryAfter(p, remaining) ==
  IF primary # p THEN primary ELSE IF remaining = <<>> THEN None ELSE remaining[1][1]

(* The answer, and the removal with its commit. *)
DecideUnlink(w) ==
  LET x == work[w]  remaining == SelectSeq(links, LAMBDA y : y[1] # x.provider) IN
  /\ x.kind = "unlink" /\ x.pc = "decide" /\ hold' = None
  /\ IF active /\ x.provider \in ProvidersOf(links) /\ LeftWithout(x.provider, x.links, x.door)
     THEN /\ links' = remaining /\ primary' = PrimaryAfter(x.provider, remaining)
          /\ Answer(w, "done")
     ELSE Answer(w, "refused") /\ UNCHANGED <<links, primary>>
  /\ UNCHANGED <<conf, keys, active, app, grant, made>>

DecideRemove(w) ==
  LET x == work[w] IN
  /\ x.kind = "remove" /\ x.pc = "decide" /\ hold' = None
  /\ IF x.key \in keys /\ LeftWithoutKey(x.key, x.links, x.keys)
     THEN keys' = keys \ {x.key} /\ Answer(w, "done")
     ELSE Answer(w, "refused") /\ UNCHANGED keys
  /\ UNCHANGED <<conf, links, primary, active, app, grant, made>>

(* A process stops; the database takes back what it did not commit. *)
Stop(w) ==
  /\ work[w].pc \notin {"idle", "done", "refused"} /\ Answer(w, "refused")
  /\ hold' = IF hold = w THEN None ELSE hold
  /\ UNCHANGED <<store, made>>

(***************************************************************************)
(* What else happens to the account and the application.                   *)
(***************************************************************************)

RecordKey(k) ==
  /\ k \notin keys /\ active /\ hold = None /\ keys' = keys \cup {k}
  /\ UNCHANGED <<conf, links, primary, active, app, grant, hold, work, made>>

SwitchApplication ==
  /\ app' = ~app
  /\ UNCHANGED <<conf, links, primary, keys, active, grant, hold, work, made>>

BlockGrant ==
  /\ hold = None /\ grant /\ grant' = FALSE
  /\ UNCHANGED <<conf, links, primary, keys, active, app, hold, work, made>>

Deactivate ==
  /\ hold = None /\ active /\ active' = FALSE
  /\ UNCHANGED <<conf, links, primary, keys, app, grant, hold, work, made>>

Next ==
  \/ \E w \in Work :
       \/ AddLink(w) \/ SavePrimary(w) \/ HoldToRemove(w) \/ ReadDoor(w)
       \/ DecideUnlink(w) \/ DecideRemove(w) \/ Stop(w)
       \/ \E x \in Provider \X Id : ReadToLink(w, x)
       \/ \E p \in Provider : HoldToUnlink(w, p) \/ ReadToChoose(w, p)
       \/ \E k \in Key : FindOwned(w, k)
  \/ \E x \in Provider \X Id : LinkFirstSignIn(x)
  \/ \E k \in Key : RecordKey(k)
  \/ SwitchApplication \/ BlockGrant \/ Deactivate

Spec == Init /\ [][Next]_vars

(***************************************************************************)
(* Properties.                                                             *)
(***************************************************************************)

(* Types; the row is held by one request that removes something, and one   *)
(* provider account is linked once.                                        *)
TypeOK ==
  /\ conf \in Conf /\ primary \in Provider \cup {None} /\ keys \subseteq Key
  /\ \A i, j \in DOMAIN links : links[i] = links[j] => i = j
  /\ \A w \in Work : work[w].pc \in {"door", "decide"} <=> hold = w

(* Whatever is removed leaves a way in on the account as it is then: after *)
(* an unlink another provider or a way in by email, after a passkey one of *)
(* its own relying party or a way in that is no passkey.  Only the         *)
(* application that mails codes may have been switched off since it was    *)
(* read (SignInMethodRule.holdForRemoval).                                 *)
RemovalLeavesAWay ==
  /\ Len(links') < Len(links) =>
       \/ links' # <<>>
       \/ conf.emailSignIn /\ (conf.password \/ conf.magicLink)
       \/ conf.emailSignIn /\ grant /\ \E w \in Work : work'[w] # work[w] /\ work[w].door
  /\ \A k \in keys \ keys' :
       \/ \E other \in keys' : other \in AppKeys <=> k \in AppKeys
       \/ (conf.password /\ conf.hasPassword) \/ conf.magicLink \/ links # <<>>

(* The provider whose profile is followed is a linked one (unlinkHeld,     *)
(* primaryAnswer).                                                         *)
PrimaryIsLinked == primary # None => primary \in ProvidersOf(links)
=============================================================================
