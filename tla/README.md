# TLA+ development for AuthStack Starter

AuthStack Starter is a monorepo for applications with accounts: a NestJS
backend that runs on PostgreSQL or MongoDB, a Next.js frontend, a mobile client,
and the SDK they share. Its own core is the life of sessions, tokens and
credentials: who may act as whom, for how long, and what ends it. This directory
models that core, checks it with TLC and proves its central parts with TLAPS.

Paths below are relative to `src/`; `S` is `backend/src/session`, `A` is
`backend/src/auth`.

## The system

| Component | State | Operations | Interacts with |
|---|---|---|---|
| Native token family (`S/native/{token,refresh,retry,revoke,access}`) | per mobile session: refresh and access token rows, spent/revoked marks, successor link, retry claim | exchange a code, rotate, retry, replay, revoke, first use | stores, account sessions, mobile client |
| Stores and units of work (`S/native/persistence`, `common/persistence`) | tables or collections; a transaction per request; a queue of authority changes per administrator (MongoDB) | guarded updates, lock or conflict, commit, rerun | everything that writes |
| Account sessions (`S/services`, `S/revocation`, `S/applications`, `S/authority`) | session rows; versions of account, application and grant | sign in, validate, extend, revoke one/all/others, block, disable, deactivate | user, admin and role services move versions |
| DPoP proofs (`S/native/proof`) | reserved proof ids, stateless nonces | verify, reserve, purge | refresh, exchange, revoke |
| Native authorization (`S/native/authorize`, `A/native`) | attempts with revisions and leases, transactions, codes | factors, consent, deny, issue and exchange a code | token family, session cap |
| Sign-in factors (`A/{magic-link,pending-codes,two-factor,passkeys}`) | links, codes, guess and mail counters, challenges, keys | request, guess, claim, consume | session issuance |
| Linked accounts (`A/oauth`, `backend/src/user`) | provider links, primary provider | link, unlink, choose | sign-in rule shared with passkeys |
| Roles, admin, users (`backend/src/{role,admin,user}`) | roles, holders, owed repairs, accounts | rename/delete role, sweep holders, repair, change status, role and permissions | session versions |
| Address ledger (`backend/src/common/persistence`) | reserved addresses | reserve, finish, release | registration, change of address |
| Mobile client (`mobile/auth/src`) | stored record, tokens in memory, epoch, pending revocations | single-flight refresh, sign out, restore, dispose | backend over the network |
| SDK, frontend, generator, scripts | – | transport, pages, code generation | – |

What is hard here, and hard to test:

* **Two requests on one thing.** A phone repeats a refresh whose answer was lost
  while the first answer is being used; two browsers open one link; two
  administrators leave at once. Everything rests on guarded statements.
* **Two databases, one contract.** PostgreSQL locks rows and reads what is
  committed; MongoDB reads a snapshot and conflicts only on documents that both
  units of work write.
* **Reads without a unit of work.** A validation reads four rows one after the
  other while versions move; a setup reads an account and writes it later.
* **Captured time.** `now` is read before a unit of work and kept over its
  reruns, or after a snapshot was taken; servers' clocks differ.
* **Unknown outcomes.** A commit whose answer is lost must not be run again if
  it may have been stored.
* **Crashes.** The app dies between marking, sending and storing a refresh; a
  server between renaming a role and moving its holders.
* **Late answers.** Storage of the device outlives its deadline and writes later.

`PROJECT.json` lists these as hazards, each at its line, with the properties
that would catch it.

## Modules

| Module | Models |
|---|---|
| `TokenFamily` | What a family promises, with no rows, dates or proofs |
| `FamilyTables` | The rows of one family and every guarded statement on them |
| `NativeFamily` | One family under whole units of work; the refinement mapping to `TokenFamily` |
| `FamilyStores` | The same units of work statement by statement, on PostgreSQL or MongoDB, with reruns and lost commits |
| `ProofIds` | One proof of possession in time: nonce, acceptance window, stored id, purge, clocks apart |
| `AccountSessions` | All browser sessions of one account: sign-in, validation, every way to end them |
| `MobileEngine` | The mobile client around one session, with its slot, network, server and host |
| `AuthorityQueue` | `MongoUnitOfWorkRunner.runForAuthority` |
| `AdminAuthority` | Changes of accounts by administrators, and accounts that leave |
| `RoleSweeps` | Rename and delete of roles, sweeps, owed repairs, repair at start-up, assignment |
| `PendingCodes` | Mailed codes, the counter of mails and the guess lock |
| `MagicLink` | Sign-in links |
| `AddressClaims` | The address ledger and the units of work that put an account on an address |
| `SecondFactor` | Setup, confirmation, answers, recovery codes and the lock |
| `PasskeyCeremonies` | Passkey challenges, sign-in, second factor, registration |
| `SignInMethods` | Linking, unlinking, removal of passkeys, the rule that keeps a way in |
| `NativeAttempts` | A native sign-in, registration or recovery up to its code |
| `CodeExchange` | The answer to an authorization request and the exchange of the code |
| `RolePromises` | `AdminAuthority` with one instance of `RoleSweeps` beside it, constants arbitrary, and what the roles promise |
| `MailPromises`, `CodePromises`, `FactorPromises`, with `SignInShared` | One instance each of the sign-in modules with arbitrary constants, and what it promises |
| `NativeFamilyProofs` (with `ProofIds`), `FamilyStoresProofs`, `AccountSessionsProofs`, `AuthorityQueueProofs`, `AdminAuthorityProofs`, `SignInProofs`, `FactorProofs`, `PasskeyProofs` | TLAPS proofs |
| `MC*` | The instances TLC checks |

`NativeFamily` and `FamilyStores` extend `FamilyTables`; `MobileEngine` extends
`TokenFamily`, so the client runs against the very promise that `NativeFamily` is
proved to keep. `MCAuthority`, `MCMails`, `MCNativeSignIn` and `MCFactors` extend the
promise modules and give their constants values; `AdminAuthorityProofs`,
`SignInProofs`, `FactorProofs` and `PasskeyProofs` extend the same modules and prove the same properties with the
constants left open. Conventions shared by all modules:

* A definition that a property depends on is followed or preceded by a faulty
  variant, marked "Fault:", which `PROJECT.json` uses as a mutant.
* A request is a member of a set (`Work`, `Task`, `Worker`) and has a program
  counter; every statement of a store is a step, so anything may come between
  two of them. Reads that only refuse, and the last writes of a unit of work with
  its commit, are merged into one step where nothing can tell the difference.
* The rules of the databases (locks, `NOWAIT`, snapshots, write conflicts) are
  marked external in the map: they are what the adapters rely on.
* History variables (`outdated`, `late`, `outcome`, `uses`, `compared`, ...)
  record facts for the properties; no action reads them.

### NativeFamily and FamilyTables

The pair issued k-th is number k; row k of `refresh` and of `access` are its
two tokens. Token strings and their hashes are abstracted to k.
`successorRefreshHash` and `successorAccessHash` are always written together
with the hashes of one pair, so they are one field `next`. `from` is history:
the token whose spending issued the pair. Dates are natural numbers, `0` is an
absent date. `Exchange` and `SpendCode` are `NativeTokenService`; `Rotate`,
`Replace`, `Replay`, `ReplayUsed` are the four outcomes of
`NativeRefreshService.rotate` that store something; `RevokeToken` is
`NativeRevokeService.revoke`; `RevokeNativeSession` is sign-out; `RevokeSelected`
is the device list, which ends the session row only; `UseAccess` is the marking
of a first use. `at` is the time a request captured before its unit of work: any
time up to the clock. `authority` stands for everything above the session and
flips freely. A DPoP proof is *refused*, *replayed* or *fresh*.

### FamilyStores

A worker runs one unit of work at a time. On PostgreSQL the first statement locks
the family's session row with `NOWAIT`. On MongoDB a unit reads its snapshot, and
a write is refused when another open unit wrote the document or it was committed
since. A refused unit runs again up to `MaxAttempts`; its request time is not
captured again. A commit can be stored, aborted, or left unanswered with either
outcome, and any statement can fail for good.

### ProofIds

Time is in units of 10 s. A server's clock is the time plus its `Offset`. A copy
of the request is checked at one server (`Check`: nonce among the candidates of
the current and the last bucket, `iat` within the tolerance), and its id is
stored up to `Delay` later (`Reserve`), or found there. `Purge` removes an id
when any clock has passed its expiry.

### AccountSessions

A session row carries the versions of its account, application and grant at
sign-in. Ending sessions moves a version; a session *stands* while all three
match, and *holds authority* while it also is inside its deadlines. The
sign-in (`SessionIssuanceService.issue`) is one step per statement and the
validation (`SessionValidator.authorize`) one step per read; the idle extension
is a further statement that may land late. `RevokeAllForUser` stands for every
caller of the revoker (change of role or address, an administrator).

### MobileEngine

Five tasks (refresh, sign-out, restore, drain, save) share the engine's memory,
a queue of writes to the slot and one refresh in flight. What an `await` waits
for is the task's `ans`; its continuation runs before the next event. A storage
call succeeds, fails or outlives its deadline and is carried out later; a request
is lost or delayed before or after the server acts; the host may dispose the
engine; the process may be killed at any moment and started again. `cur` says
whether the epoch a task captured is still the engine's.

### Sign-in modules

`MagicLink`, `PendingCodes`, `AddressClaims`, `SecondFactor`,
`PasskeyCeremonies`, `SignInMethods`, `NativeAttempts` and `CodeExchange` model
the PostgreSQL stores statement by statement under `READ COMMITTED`. Codes, links,
challenges and secrets are named by the request that made them, so "the right
code" is an equality. Verification of TOTP codes, passwords, WebAuthn signatures
and provider answers is a library's: a request carries an answer that verifies
or one that does not. Mail is external: what was stored may have been delivered.

In `MagicLink` the link is spent by a statement of its own (`ClaimLink`), before the
account is found (`ResolveUser`, `CreateUser`, `AddressTaken`) and a session issued
(`CompleteSignIn`). A visit past the claim ends `signed_in`, `challenged` (the account,
as it was read, owes a second factor), `expired`, `refused` (the account was deleted
or the address reserved: `ReachesTheAccount` says when) or `unissued`: issuance refused
because the application is disabled, the grant blocked or the session cap reached, any
of which may be so at any time. The code gives the link back in none of these, so an
account at its cap that follows a good link loses it.

### Administration

`AdminAuthority` has `leave`, `status`, `role` and `grant` requests: read or take
the target, check the actor, hold the actor (the kinds that do), save.
`RoleSweeps` has edits, deletions, insertions, assignments, creation of accounts
and the start of a process (`boot`), which runs the owed repairs; any process
may stop after any step.

## Runs

An MC module holds several small instances of one or more modules. Each instance
is a *case*: the first state picks one of `Cases`, only that instance moves, and a
property speaks of the cases that were made for it. This keeps questions that
belong together in one run without multiplying their states.

| Run | Module, cases | Shows |
|---|---|---|
| `native_family` | `MCNativeFamily`: family, proof | `KeepsPromise`: units of work on a family implement `TokenFamily`. `AcceptedOnce`, `NonceLasts`: a proof is accepted once although ids are purged, and a nonce lasts a bucket, at another server but for the distance of the clocks at both ends |
| `family_stores` | `MCFamilyStores`: postgres, mongo | `AtomicOnPostgres`: statements amount to `NativeFamily`'s atomic units of work, nobody waits, a write takes the family. On both: `StoredOnce` (no rerun of what is stored, one pair per proof), `OneLivePair`, `AnsweredAtMostTwice`, `UsedPairKept`, `WithdrawnForGood` |
| `account_sessions` | `MCAccountSessions`: postgres, caps, mongo (and `inTime` for `mongo_session_cap`) | `SessionCap`; `OutdatedHoldsNothing`: overtaken sign-ins; `AuthorisedHeldAuthority`: a yes is never about a session already ended; `EndedStaysEnded` |
| `mobile_engine` | `MCMobileEngine`: unbound, revoking, keyed | `StoredIsUsable`: no spent token is stored or held as good; `SignOutHolds`; `NothingForgotten`: revocations; `NeverOlder` |
| `calls_end` | `MCCallsEnd`: queue, stores, engine | `OneAtATime`, `CountersExact` of the queue; `RequestsEnd`: admitted calls and requests on a family; `ClientCallsEnd`: `refresh()` and `signOut()` |
| `authority` | `MCAuthority`: postgres, leaving, fenced, roles, renames, deletes | `AdminRemains`; `HandedOutByHolder`; `FencesHold`: what was judged holds at the commit (MongoDB); `RolesSettle`: a start repairs what is owed, and on MongoDB nobody is left on a slug no role carries; `HoldersHaveRoles`: once it is settled, on PostgreSQL too |
| `mails` | `MCMails`: codes, windows, guesses, links, linkWindows, claims | `MailsAreCapped`, `GuessesCostTime`, `LinkSignsInOnce`, `LedgerDecides`: one account per address, `CheckedStillStands`: the code or claim that was checked is the one that is used |
| `factors` | `MCFactors`: answers, settings, locks, counters, signIns, registrations, methods | `AnsweredOnce`; `FactorHolds`: locks, and a factor that is on was confirmed; `OneUsePerChallenge`, `TwoFactorsShown`, `WaysInKept` |
| `native_sign_in` | `MCNativeSignIn`: passwords, accounts, mails, registration, recovery, answers, exchanges | `OneEarnedCode` per attempt and none after cancelling, `AnswersAreBacked`, `Forward`, `OneSessionPerCode` |
| `setup_race` | `MCFactors`, `MCSetupRace.cfg` | *Violation*: a setup turns off a factor confirmed meanwhile |
| `late_sign_out` | `MCMobileEngine`, `MCLateSignOut.cfg` | *Violation*: a sign-out that was stored late is undone |
| `mongo_session_cap` | `MCAccountSessions`, `MCMongoSessionCap.cfg` | *Violation*: the cap is exceeded when a session is extended after the snapshot |

A component module states its properties one by one. An MC module combines those
that make one promise together (`LinkSignsInOnce` is "once, where it was asked for, in
time and to the account at the address") with the types of the module, and a run checks the
combination. The faulty variants in the component modules say which part they
break; one of them per combination is listed as a mutant.

Run them in this directory, for example
`tlc -workers 2 -config MCFactors.cfg MCFactors`. Each takes between half a
minute and three minutes.

### Bounds, and why they are enough

* *family*: window 2, absolute lifetime 4, clock to 5, four pairs: an exchange, a
  rotation, its replacement and a third answer if one were possible. The clock
  passes the end of the window, of the claim and of the session. The theorems
  remove these bounds, and prove the family's invariants, which the run
  therefore leaves out. *proof*: the code's 60 s, 150 s and 60 s in units of 10 s,
  two servers one unit apart, two copies, time to past the expiry of the id.
* *family_stores*: two workers (conflicts are between two), three requests (the
  two that race and the one that finds what they left), one rerun, one lost
  commit. Four pairs never stop a request. Clock to 2 with a window of 1.
* *account_sessions*: two sign-ins, caps of one (with time) and of two and one
  (within an instant), so both caps are met; clock to 2 with an idle lifetime of 2
  and an absolute one of 3, so sessions expire and are extended late; two changes
  of version on PostgreSQL, one on MongoDB, where time is left out because
  it breaks the cap (`mongo_session_cap`).
* *mobile_engine*: one refresh request (two for a device key, whose refresh sends
  twice), five calls of the host (four for a key), starts included: a refresh, a
  sign-out, a kill and two calls after it.
* *calls_end*: four calls of two administrators, two per actor and two in all, so
  both limits refuse; two requests on a family; four calls on an engine.
* *authority*: three requests over four accounts of four levels with two
  administrators; for roles two or three roles, three slugs, one or two accounts,
  three passes of a sweep: a change, one that overtakes it, and a restart.
* *mails*: two requests and two visits or guessers, or three requests around the
  edge of a window, or two callers through two locks; for addresses three units of
  work over two users and two addresses.
* *factors*: two to four requests over one or two challenges; caps and thresholds
  small enough to be met.
* *native_sign_in*: three or four requests of every kind on one attempt, one change
  of the account meanwhile, a clock that passes the lease and the attempt; four
  requests for one account with room for one session and two codes.

Bounds are in the guards (`MaxPairs`, `MaxClock`, `MaxTime`, `MaxRequests`,
`MaxLost`, `MaxIssued`, `MaxChanges`, `MaxCalls`, `MaxSends`, `MaxGuesses`) or are
the sizes of the sets of requests. `FamilyStores` and `AccountSessions` have a
step `Rest` for used-up bounds, so deadlock is checked there and finds only real
ones. In the others every request ends and nothing has to follow: the cfg says
`CHECK_DEADLOCK FALSE`. Symmetry is over requests or workers that are alike; the
run with liveness properties uses none.

### Fairness

* `FamilyStores`: weak fairness of each worker's own next statement. The event loop
  keeps running a request it has started and the database answers a statement or
  fails it.
* `AuthorityQueue`: weak fairness of start, finish and settling of each call: promise
  jobs run, and a unit of work ends (it has a deadline of its own).
* `MobileEngine`: weak fairness of continuations, of deadlines of storage calls and
  requests (`setTimeout` fires) and of handling an answer that has arrived.

Nothing is assumed about requests arriving, answers being delivered, storage
answering, failures, kills or time otherwise. `MCCallsEnd` restates these
conditions per case.

## Disagreements

Three are runs of their own and are quoted under `findings` in `PROJECT.json`:

* `setup_race`. `A/two-factor/two-factor.service.ts:53`: "Nothing about how the
  account signs in changes until confirm succeeds." `savePendingSecret` writes
  without a condition what was judged on an earlier read.
* `late_sign_out`. `mobile/auth/src/sign-out/sign-out.ts:189`: "The write landed
  after its deadline: the device says signed out, so memory follows." It does not
  follow when the engine was restored meanwhile.
* `mongo_session_cap`. The contract of both databases says that the cap refuses the
  next sign-in; on MongoDB a session extended after the snapshot is not counted.

The following were met while modelling. TLC reports the property as violated, with
the trace, under the configuration that is named; where `Cases` is given, the
file needs that value and the property in place of its own. They are not among
the runs.

| `tlc -config` | Property | The code, and what it says |
|---|---|---|
| `MCMongoTakesFamily.cfg MCFamilyStores` | `EveryStoreTakesFamily` | `native-credential.store.ts:102` "no other unit of work can change that family until this one ends". On MongoDB a rotation and a device-list revocation write no common document; a pair is stored for an ended session. It is not usable. |
| `MCKeptSession.cfg MCAccountSessions` | `RefusesOnlyTheEnded` | `session-revoker.ts:35` "moves the kept session along with it in the same unit of work", but a validation reads session and account separately and may refuse the kept session once. |
| `MCReplayedRefresh.cfg MCMobileEngine` | `ClearedIsUnspent` | `mobile/auth/README.md:117` clears the marker because "The server refused before rotation"; the second request of a bound refresh may be throttled after the first was carried out. `StoredIsRepairable` shows that the server still answers that token while its successor is unused. |
| `MCDisposedRevoke.cfg MCMobileEngine` | `RevokesCarryProof` | `mobile/auth/README.md:79` "code exchange, refresh, and revoke carry a fresh DPoP proof"; after `dispose()` a revocation is sent without one. |
| `MCUnreadSlot.cfg MCMobileEngine` | `UnreadForgetsNothing` | `credential-write.ts:39` "Removing the session keeps the revocations that wait"; not when the slot could not be read. |
| `MCAuthority.cfg MCAuthority`, with `Cases = {"unfenced"}` | `EveryoneActsWithRank` | `assertFreshActorCanModify` reads the actor without taking it: an actor demoted or deactivated after the check still commits. With `Cases = {"rolesOnly"}` the same for a change of role alone. |
| `MCAuthority.cfg MCAuthority`, with `Cases = {"moves"}` | `FencedMoveLands` | `role-sweep.store.ts`: "an edit of that role and this move cannot both commit"; on PostgreSQL the fence locks the role but does not read it again. |
| `MCLostRepair.cfg MCAuthority` | `RepairsAreKept` | `role-pending-repair.ts`: "A failed one is logged and stays owed"; a deletion writes back a list it read without a lock. |
| `MCAuthority.cfg MCAuthority`, with `Cases = {"reuses"}` | `ReusedSlugSettles` | `role-holder-sweep.ts`: "Put every account left on a slug no role carries onto a live role"; a sweep whose first slug is taken again ends early. |
| `MCFactors.cfg MCFactors`, with `Cases = {"batches"}` | `OneBatch` | `two-factor.service.ts:197` "Every code from the old batch stops working"; two requests at once leave two batches. |
| the same, with `Cases = {"recounts"}` | `LockHolds` | `two-factor-verification.service.ts`: "nothing is checked while the lock holds"; the statement compares only the count. |
| the same, with `Cases = {"overtaken"}` | `SecondFactorOwed` | `A`'s `SignInCompletion`: "An account with a confirmed second factor gets a challenge cookie instead of a session"; the account is judged as it was read. |
| the same, with `Cases = {"chosen"}` | `PrimaryIsLinked` | `backend/docs/oauth-authentication.md`: a provider that is not linked answers `400`; one that is unlinked while it is chosen becomes primary. |
| `MCMails.cfg MCMails`, with `Cases = {"requests"}` | `RefusedMeansFull` | `mail-counter.service.ts:58` "A counter that is left is full inside its window"; another first request may just have opened it. |
| the same | `LeftRecordIsExpired` | `pending-registration-issuer.ts:195` "A record that is left is expired"; another request may just have inserted it. |

## Proofs

Eight modules. Constants are arbitrary, under the named
assumptions of the module (`ASSUME`), which TLC evaluates on its instances.

| Theorem | States | For every |
|---|---|---|
| `NativeFamilyProofs`: `TypeCorrect`, `AtMostOneLivePair`, `NeverAThirdAnswer`, `PairInUseIsKept`, `GenerationsFormAChain` | `TypeOK`, `OneLivePair`, `AnsweredAtMostTwice`, `UsedPairKept`, `OneChain` | window, lifetimes above zero, clock, number of pairs |
| `EndIsFinal` | `EndedForGood` | same |
| `Refinement` | `KeepsPromise`: `Spec` implements `TokenFamily` | same |
| `FamilyStoresProofs`: `StoredAndAnsweredOnce` | `StoredOnce` | units of work at once, requests, runs, lost commits, either database |
| `AtomicUnitsOfWork`, `FamilyIsTaken`, `NeverWaits` | the three parts of `AtomicOnPostgres`: `Spec` of `NativeFamily`, `OneUnitOfWorkAtATime`, `NoStatementWaits` | same, with `Backend = "postgres"` |
| `FamilyPromisesOnPostgres` | `OneLivePair`, `AnsweredAtMostTwice`, `UsedPairKept`, `KeepsPromise`, statement by statement | same, with `Backend = "postgres"` |
| `LateUnitsOfWork` | the rows change as in `NativeFamily`, but that a rotation or retry may be stored after the session ended (`LateNext`) | same, with `Backend = "mongo"` |
| `OneLivePairInStores`, `NoThirdAnswerInStores`, `PairInUseKeptInStores`, `NothingComesBack` | `OneLivePair`, `AnsweredAtMostTwice`, `UsedPairKept`, `WithdrawnForGood`, statement by statement | same, either database |
| `AccountSessionsProofs`: `OvertakenSignInHoldsNothing`, `YesMeansHeld`, `EndedNeverReturns`, `RowsTyped` | `OutdatedHoldsNothing`, `AuthorisedHeldAuthority`, `EndedStaysEnded`, `ATypeOK` | applications, sign-ins and validations at once, lifetimes, caps, either database |
| `CapsHoldOnPostgres` | `SessionCap` | same, with `Backend = "postgres"` |
| `NativeFamilyProofs`: `AcceptedOnceAlways`, `RemovalNeverDecides`, `ProofIdsTyped` | `AcceptedOnce`, `RemovalDecidesNothing`, `PTypeOK` | servers, copies, clocks, tolerance, with `Ttl > 2 * Tolerance + Skew + Delay` |
| `NonceLastsABucket` | `NonceLasts` | same, every length of a bucket |
| `AuthorityQueueProofs`: `RunsOneAtATime`, `RunsInOrder`, `CountersAreExact` | `OneAtATime`, `InOrder`, `CountersExact` | calls, actors, limits |
| `AdminAuthorityProofs`: `AnAdminRemains`, `HandedOutAlways`, `AuthorityTyped` | `AdminRemains`, `HandedOutByHolder`, `TypeOK` | accounts, roles, levels, requests, either database |
| `RolesSettleAlways` | `RolesSettle`: `StartSettles` and, on MongoDB, `NobodyStranded` | roles, slugs, accounts, requests, passes, limits, either database; `RoleAssumption`: the first roles have slugs of their own and accounts hold existing ones |
| `SignInProofs`: `ExchangeSafe` | `OneSessionPerCode`: one answer per transaction, one session per code with what was approved, nothing for a withdrawn code, and the cap | transactions, codes, requests, users, changes, limits |
| `LinkSafe` | `LinkSignsInOnce`: one visit of a link past its claim, where it was asked for or confirmed, in time, and turned away before issuance only if account or address are gone; issuance may refuse it | links, browsers, visits, limits |
| `ClaimsSafe`, `ClaimKept` | `LedgerDecides`; `ClaimIsKept` (part of `CheckedStillStands`) | units of work, users, addresses |
| `CodesSafe`, `CurrentCodeOnly` | `TypeOK`, `RowKeptLongEnough`; `OnlyCurrentCode` (part of `CheckedStillStands`) | requests, callers, limits and lengths |
| `GuessesCost` | `GuessesCostTime` | same, with `LockRule`: guesses are remembered for at least three locks |
| `FactorProofs`: `FactorSafe` | `TypeOK`, `OneSessionPerChallenge`, and both parts of `FactorHolds`: `ConfirmedWithItsCode`, `GuessesCostTime` | requests of any kinds, challenges, steps, thresholds, locks |
| `AnswersAcceptedOnce` | `AnsweredOnce` | same, with `"setup"` not in `Kind` |
| `PasskeyProofs`: `PasskeysSafe` | all parts of `OneUsePerChallenge`: `OneUsePerChallenge`, `CountersIncrease`, `RegisteredWhereProved` | ceremonies, challenges, keys, sessions, accounts |
| `OwedFactorsShown` | `TwoFactorsShown` | same |
| `KeysForTheActive` | `StandingGetsKey` (part of `WaysInKept`) | same |

Why the invariants have to be strengthened:

* **NativeFamily** (`IndInv`). `RowsLinked`: a token's successor link and the
  successor's `from` agree; without it a retry could withdraw a pair of another
  token. `ClaimOutlastsWindow`: a retry claim lasts at least until the window of
  its token has closed, because a retry is inside the window only if `at >=
  consumedAt`; a third answer would have to be inside the window and after the
  claim at once, although `at` may be older than what others wrote.
  `SessionOwnsPairs`: the exchange is the first step of a family and happens once.
* **FamilyStores** (`StoreInv`, `PostgresInv`). On both databases a unit of work has
  written only rows of the family it found, keeps the row it found, and holds the
  id of its proof alone until it ends (`Sound`, `ProofsApart`); every answer was
  given for a reserved proof (`AnswersReserved`), so none is given twice. On
  PostgreSQL the unit of work that found the family holds its lock alone
  (`LockOnce`), and for every statement it is about to run `Standing` says what
  it has read and written against the rows as committed: the row it found is
  still the committed one, what it wrote is what the atomic action would write, and
  the guard of that action held. A first use may come in between, which is why
  `Standing` speaks of the access rows by what survives one. At its commit the
  overlay of its writes is then the effect of `Rotate`, `Replace`, `Replay`,
  `ReplayUsed`, `RevokeToken`, `RevokeNativeSession` or `RevokeSelected`, and every
  other step leaves the rows alone.
* **FamilyStores on MongoDB** (`MongoInv`). Nobody holds the family, so the argument
  is about documents. What a unit of work reads is what is committed, but for the
  documents it wrote and those that are stale (`ReadsThePast`); no document is
  written by two open units of work (`WritesApart`), and none that is stale is
  written. `Stands` says which documents a unit of work has written at each
  statement and what they hold. A pair that was issued since the snapshot has
  left a token of the snapshot stale (`SeesEveryPair`): whoever issues one writes
  the live token. So a rotation that claims its token has seen every pair,
  and has written every access token that is not spent; an end of the family that
  writes every token has seen every pair, too; and a successor that was found
  unused is so until a document of it or of its token is written. What
  a commit, or a first use, does to the others is `Overtakes`. Only the session's
  document is not written by a rotation: it may be ended meanwhile, from the device
  list without a token being touched. `LateRotate` and `LateReplace` say so, and
  keep `IndInv`, which never asks for a live session.
* **AccountSessions** (`IInv`). The argument is about versions: no row is ahead of
  the account, application and grant it was stored under, and one that is level
  with a fact is level with a favourable one (`RowsArePast`), while every step only
  moves the facts on; so what is behind stays behind. The same is kept for what a
  sign-in has read (`ReadsArePast`), for its snapshot (`ViewsArePast`) and for the
  row a validation read first, which, if its session held no authority then, fails
  one of the checks still to come (`ValidationsSound`). A sign-in that was overtaken
  finds a row it wants to write rewritten, or carries an application version that
  has moved (`OvertakenIsBehind`). For the caps (`CapInv`) a sign-in that has counted
  has to keep its room until it stores its session (`RoomLeft`): its lock on the
  account keeps the others from counting, and no other step adds to the sessions
  with authority. On MongoDB this does not hold (`mongo_session_cap`).
* **ProofIds** (`ProofInv`). Once a copy was accepted either the id is stored or
  every clock is past the last moment a copy that was checked in time can be
  reserved (`KeptOrOver`); that needs that what was checked was in time at its
  server (`CheckedInTime`). The condition on `Ttl` is the one the defaults meet:
  150 s against 120 s, so clocks and delays together may take less than 30 s.
  `NonceLasts` needs that the clock of the server that sent a nonce has not gone
  back (`SentBefore`) and that clocks are at most `Skew` apart.
* **AuthorityQueue** (`IInv`). Mutual exclusion follows from order: the tail of an
  actor is its last call not yet settled (`TailIsLast`, `NoTailAllDone`), a call
  waits for the one before it (`PriorIsLast`, `NoPriorAllDone`), and a settled
  tail means that all before it are done (`SettledAllDone`). The counters are those
  of `Live`, a finite set that an admission or an end changes by one call.
* **AdminAuthority** (`IInv`). On PostgreSQL a row that a unit of work has taken or
  shared is changed by no other (`LockOnce`, `SharedUntaken`, `FenceOnce`). On
  MongoDB a row that kept its version is as the snapshot says, and while the
  administrator role kept its version no administrator has gone (`SnapTrue`).
  Either way what a request has seen (`TargetLow`, `LeaveBacked`, `HeldGood`) still
  holds when it commits.
* **RoleSweeps** (`Settling`, `Backed`). A start ends settled because every repair
  owed and every deletion listed while nobody disturbs it is still before it, in
  what its pass has yet to visit (`Covered`); a repair that is done meanwhile is not
  owed again by anyone but a request, and a request disturbs the start. On MongoDB a
  request that has read a role either knows the slug it carries or finds the role
  changed when it commits (`Believed`). So no account is ever stored on a slug that
  no role carries, and no sweep has anyone to move (`Placed`, `Alone`).
* **CodeExchange** (`XInv`). A row that a request has taken is taken once
  (`RowsHeldOnce`). What an approval read of account, application and grant is not
  ahead of them, and level while nothing was withdrawn; a code that was withdrawn is
  behind in one of the three versions (`ApprovalsSound`), so the exchange, which
  compares all of them, refuses it. An exchange that has counted keeps its room
  (`RoomKept`).
* **MagicLink** (`LInv`). Every nonce, in a link, a cookie or a visit, leads to the
  browser whose request drew it (`NonceOf`), although links are replaced and cookies
  overwritten; what is past the claim has a spent link, and no other visit of that
  link is (`OneSignInPerLink`). An account that was there to be verified or signed in
  never stops being there but by deletion (`AccountSound`, `Barred`).
* **AddressClaims** (`CInv`). What a unit of work found under its locks still stands
  (`UnitsFound`), because the rows it is about cannot move without a lock it
  holds (`UnitLocks`); a claim keeps other accounts off its address, and the code of
  a pending address has a claim that ends no earlier (`CodesClaimed`).
* **PendingCodes** (`MInv`, `GInv`). Comparisons of a code, together with those that
  have reserved one, are at most its attempts (`TriesCounted`). For the cost of
  guesses `GInv` counts with the row: while nothing was forgotten, the guesses are
  `Limit` per lock plus those since, and the last of j locks ends no earlier than
  j locks take, less `Slow` for each but the first (`LocksCounted`). A row may
  be forgotten only when its memory is over; by then the clock is past `Memory`,
  which is longer than the three locks (`LockRule`: 24 h against 15, 30 and 60
  minutes in `CODE_GUESS_RULE`), and nothing is left to show.
* **SecondFactor** (`FInv`). A challenge that is being answered is claimed by one
  request (`ChallengesHeld`). Whoever has read the count that stands has read the
  lock that stands (`LocksRead`), unless the count started again in between;
  therefore the dates of the locks add up (`LockDatesSound`). Steps only go on
  (`StepsSound`) unless a setup replaces the secret: then a step of the old
  secret is free again, and `AnswersAcceptedOnce` leaves that case out.
* **PasskeyCeremonies** (`PInv`). The challenge of a request that goes on was spent
  by it alone (`SpentOnce`), and a held sign-in that is answered is claimed by one
  request, which removes it before it has its session (`ClaimedOnce`). No accepted
  assertion is ahead of the counter of its key, where `made` tells a key from a
  later one with the same id (`CounterAhead`, `KeysMade`).

The chain of argument for the token family on PostgreSQL is: interleaved
statements implement `NativeFamily` (`AtomicUnitsOfWork`), which implements
`TokenFamily` (`Refinement`), and `mobile_engine` shows what the client achieves
against `TokenFamily`. Only the last link rests on an instance. On MongoDB the first
link is weaker (`LateUnitsOfWork`): a pair may be stored for a session that has ended,
so `TokenFamily` is not implemented there. The promises about the tokens
themselves do not need a live session, and are proved on both.

Of `FactorHolds` and `OneUsePerChallenge` every part is proved (`FactorSafe`,
`PasskeysSafe`), but for a component with arbitrary constants; the runs check each
part in a case of its own, so the theorems do not state the combination.

Only model-checked:

* `StoredIsUsable`, `SignOutHolds`, `NothingForgotten` of `MobileEngine`,
  and `OneEarnedCode`, `AnswersAreBacked`, `Forward` of `NativeAttempts`: their
  invariants have to name every step of long requests.
* `HoldersHaveRoles`: on PostgreSQL an account may hold a slug nobody carries until
  the next pass, so the invariant has to follow every sweep with what it has moved.
  `FencesHold`, which adds the repairs that are owed on MongoDB.
* `MailsAreCapped`: mails of two windows are told apart only by a history of
  windows that the model does not keep.
* What `SignInMethods` adds to `WaysInKept`.
* All liveness: fairness is outside the prover's reach.

## Not modelled

The repository has 165 000 lines; about half are tests, and most of the rest are
pages, components, mobile screens, a project generator with its copies of the
template, and build scripts. They keep no state the properties are about. In the
part that decides:

* Signatures, hashing, parsing, TOTP and WebAuthn arithmetic, mail, HTTP,
  configuration and user interface.
* Security events: written in the same unit of work, read by no decision.
* The authentication epoch and schema version: constants of a running process.
* The MongoDB stores of links, codes, addresses, second factors, passkeys, links to
  providers, attempts and authorization codes. They use the same services;
  where the databases differ most (families, sessions, roles, administration)
  both are modelled.
* Browser re-authentication: a condition of the actions that need one.
* Signing in on the mobile client and its platform adapters; passkeys and
  providers as factors of a native attempt; review access.
* Nested units of work, migrations and start-up, which run before requests.
* Retention jobs, except for proof ids and mail counters.

## Plan

1. Theorems for `NativeAttempts`, `MobileEngine` and `SignInMethods`, and for
   `RoleSweeps` on PostgreSQL; the cap on mails.
2. MongoDB stores of `CodeExchange` and `NativeAttempts`.
3. Signing in on the mobile client with its callbacks; passkey and provider
   factors of a native attempt.
4. Browser proofs of re-authentication; the migration lock.
