---------------------------- MODULE MobileEngine ----------------------------
(***************************************************************************)
(* The mobile sign-in engine (mobile/auth/src) around one session: its     *)
(* credential slot on the device, the queue of writes to it, refresh,      *)
(* restore, sign-out with a stored revocation, disposal, and the process   *)
(* being killed at any moment.  The server is the token family's promise   *)
(* (TokenFamily), reached over a network that loses and delays.            *)
(*                                                                         *)
(* One engine runs at a time: a disposed one is followed by another only   *)
(* when its calls have returned, as the package asks of its host.  What an *)
(* `await` waits for is the task's `ans`; the continuation runs before the *)
(* next event (Quiet), as promise jobs do.  Storage calls succeed, fail or *)
(* outlive their deadline; `left` marks a write nobody waits for any more. *)
(* Signing in is the environment's: it put the first pair in the slot.     *)
(***************************************************************************)
EXTENDS TokenFamily, FiniteSets

CONSTANTS
  Bound,        \* is the session bound to a device key
  ReadsFail,    \* may a read of the slot fail
  Disposes,     \* may the host dispose the engine
  MaxSends,     \* refresh requests sent, over all starts
  MaxCalls,     \* calls the host makes, starts of the app included
  MaxAttempts   \* PENDING_REVOCATION_MAX_ATTEMPTS

EngineAssumption ==
  /\ Bound \in BOOLEAN /\ ReadsFail \in BOOLEAN /\ Disposes \in BOOLEAN
  /\ MaxSends \in Nat /\ MaxCalls \in Nat /\ MaxAttempts \in Nat \ {0}

VARIABLES
  slot,      \* the stored value: session token, its marker, what waits
  up,        \* is an engine "live", "disposed" but still working, or "off"
  eng,       \* the engine's memory (AuthRuntime)
  held,      \* what signOut() took out of memory
  flight,    \* the refresh request under way
  pc, ans,   \* per task: its step, and what its await resolved to
  cur,       \* per task: is the epoch it captured still the engine's
  queue,     \* writes to the slot (writeTail), the head being carried out
  nextDrain, \* the drain waiting to start: "none", "plain" or "reserved"
  net,       \* requests on their way to the server
  replies,   \* answers to refresh requests on their way back
  lates,     \* refresh requests whose deadline passed, in this process
  sends,     \* refresh requests sent so far
  calls,     \* calls the host has made
  outcome,   \* what sign-outs have achieved, of "stored", "reported"
             \* (signed out to the caller) and "revoked"
  gaveUp     \* a stored revocation was dropped at its limit or without key

tasks == <<pc, ans, cur>>
server == <<open, status, parent, used>>
wires == <<net, replies, sends>>
told == <<outcome, gaveUp>>
vars == <<slot, up, eng, held, flight, tasks, queue, nextDrain, wires, lates,
          calls, told, server>>

Task == {"refresh", "signOut", "restore", "drain", "save"}
Token == 0 .. MaxSends + 1                     \* 0: no token
Answers == {"none", "wait", "ok", "no", "fail", "locked",
            "tokens", "ended", "oauth", "busy", "silent", "key", "keyGone",
            "revoked", "late"}
Steps == {"idle", "marking", "sending", "asking", "saving", "clearing",
          "keying", "keyLost", "ending", "keeping", "settling", "unkept",
          "revoking", "tidying",
          "peeking", "storing", "removing", "draining", "askLocally",
          "askOnce", "erasing", "reading", "reserving", "finishing",
          "giving", "lastDrain"}

(* Steps whose own action ends the wait. *)
Direct == {"reading", "peeking", "sending", "settling", "unkept"}

(* A new AuthRuntime. *)
Fresh == [tok |-> 0, acc |-> FALSE, rec |-> 0, mark |-> FALSE,
          st |-> "restoring", op |-> "none", warn |-> "none", owed |-> FALSE,
          intents |-> {}, known |-> FALSE, pend |-> 0, att |-> 0,
          keep |-> FALSE]

NoFlight == [tok |-> 0, new |-> 0, try |-> 0, n |-> 0]
NotHeld == [tok |-> 0, acc |-> FALSE, rec |-> 0, mark |-> FALSE,
            st |-> "restoring", op |-> "none", intent |-> 0]
AllTasks(v) == [t \in Task |-> v]

(* Continuations of promises that have resolved run before anything else.  *)
Quiet == \A t \in Task : ans[t] \in {"none", "wait"}
Ready(t, step) == up # "off" /\ pc[t] = step /\ ans[t] \notin {"none", "wait"}

(***************************************************************************)
(* The queue of writes.                                                    *)
(***************************************************************************)

(* The memory a late sign-out compares with its own: none of a restored    *)
(* record's is the one an earlier sign-out took, even if it reads the same. *)
NoBack == [tok |-> 0, rec |-> 0, mark |-> FALSE]
NotBack == [NoBack EXCEPT !.tok = MaxSends + 2]

(* A record write: its late correction always leaves the marker out, and   *)
(* its guard names the record it may replace after disposal.               *)
Rec(who, t, m, gtok, gmark) ==
  [who |-> who, kind |-> "rec", tok |-> t, mark |-> m, gtok |-> gtok,
   gmark |-> gmark, cur |-> TRUE, left |-> FALSE, stage |-> "queued",
   back |-> NoBack]

(* A deletion; gtok 0 is no guard, so nothing is deleted after disposal.   *)
Del(who, gtok, gmark) ==
  [Rec(who, 0, FALSE, gtok, gmark) EXCEPT !.kind = "del"]

(* A change of what waits on the server: "add" clears the session too.     *)
Pend(who, change, t) ==
  [Rec(who, t, FALSE, t, FALSE) EXCEPT !.kind = change]

StaleJobs(q) == [i \in DOMAIN q |-> [q[i] EXCEPT !.cur = FALSE]]
Awaiting(t) == {i \in DOMAIN queue : queue[i].who = t /\ ~queue[i].left}

(* Fault: an operation does not notice that the epoch moved. *)
BumpNothing(t) == cur' = [x \in Task |-> cur[x] \/ x = t]

(* bumpEpoch: whatever captured the epoch before is stale now, all but the *)
(* task t that moved it.  The caller marks the queued writes (StaleJobs).  *)
BumpEpoch(t) == cur' = [x \in Task |-> x = t]

(* Task t goes to a step that waits; epoch captured as the engine's.       *)
Wait(t, step) == /\ pc' = [pc EXCEPT ![t] = step]
                 /\ ans' = [ans EXCEPT ![t] = "wait"]
Done(t) == /\ pc' = [pc EXCEPT ![t] = "idle"]
           /\ ans' = [ans EXCEPT ![t] = "none"]

(* classifyDisposedCredentialRecord on the session read from the slot.     *)
(* `sentTok` is what a session guard knows this engine sent, 0 if nothing. *)
Owner(gtok, gmark, sentTok) ==
  CASE slot.tok = 0 -> "empty"
    [] slot.tok = gtok /\ (gmark => slot.mark) -> "same"
    [] slot.tok # sentTok -> "other"
    [] OTHER -> "foreign"

(* What a read of the slot may find. *)
ReadOutcome == IF ReadsFail THEN BOOLEAN ELSE {TRUE}

Finish(job, result) ==
  /\ queue' = Tail(queue)
  /\ ans' = IF job.left THEN ans ELSE [ans EXCEPT ![job.who] = result]

(* May the write go on after disposal: the slot still holds its record.    *)
Guarded(job, read) ==
  IF job.kind \in {"reserve", "end"}
  THEN read /\ slot.tok = 0 /\ slot.pend # 0 /\ slot.pend = eng.pend
  ELSE read /\ job.gtok # 0 /\ Owner(job.gtok, job.gmark, 0) = "same"

(* The head of the queue is taken up: a stale record write, one abandoned  *)
(* before it began, and one whose guard no longer holds write nothing.     *)
JobStart ==
  /\ Quiet /\ queue # <<>> /\ Head(queue).stage = "queued"
  /\ \E learnt \in ReadOutcome, read \in ReadOutcome :
       LET job == Head(queue)
           pends == job.kind \in {"add", "reserve", "end"}
           learns == pends /\ ~job.left /\ ~eng.known /\ learnt
           skip == \/ job.kind = "rec" /\ ~job.cur
                   \/ job.kind # "rec" /\ job.left
                   \/ up = "disposed" /\ (~Guarded(job, read) \/ job.left)
                   \/ job.kind \in {"reserve", "end"} /\ eng.pend # job.tok
       IN  /\ eng' = IF learns
                     THEN [eng EXCEPT !.known = TRUE, !.pend = slot.pend,
                                      !.att = slot.att]
                     ELSE eng
           /\ IF skip THEN Finish(job, "no")
              ELSE /\ queue' = [queue EXCEPT ![1].stage = "write"]
                   /\ UNCHANGED ans
  /\ UNCHANGED <<slot, up, held, flight, pc, cur, nextDrain, wires, lates,
                 calls, told, server>>

Landing(kind) ==
  /\ Quiet /\ queue # <<>>
  /\ Head(queue).stage = "write" /\ Head(queue).kind = kind

(* The port refuses, the store being locked or otherwise unavailable.      *)
PortRefuses ==
  /\ Quiet /\ queue # <<>> /\ Head(queue).stage # "queued"
  /\ \E why \in {"fail", "locked"} :
       Finish(Head(queue), IF Head(queue).stage = "write" THEN why ELSE "no")
  /\ UNCHANGED <<slot, up, eng, held, flight, pc, cur, nextDrain, wires,
                 lates, calls, told, server>>

(* replaceCredentialRecord after the write landed: what corrects a write   *)
(* that came too late, "none" if it stays.                                 *)
LateFix(job, read, again) ==
  LET gone == up = "disposed"
      removes == (gone /\ job.left) \/ (~job.cur /\ eng.rec = 0)
      stays == /\ gone /\ job.left /\ job.tok \notin eng.intents
               /\ read \/ (job.mark /\ ~job.cur)
  IN  CASE job.cur /\ ~job.left -> "none"
        [] stays \/ (gone /\ ~(removes /\ again)) -> "none"
        [] OTHER -> IF removes THEN "fixDel" ELSE "fixRec"

(* replaceCredentialRecord: the record is stored beside what waits.        *)
RecordLands ==
  /\ Landing("rec")
  /\ \E read \in ReadOutcome, again \in ReadOutcome :
       LET job == Head(queue)
           fix == LateFix(job, read, again)
           good == job.cur /\ ~job.left
       IN  /\ slot' = [tok |-> job.tok, mark |-> job.mark,
                       pend |-> eng.pend, att |-> eng.att]
           /\ IF fix # "none"
              THEN queue' = [queue EXCEPT ![1].stage = fix] /\ UNCHANGED ans
              ELSE Finish(job, IF good THEN "ok" ELSE "no")
           /\ eng' = IF good
                     THEN [eng EXCEPT !.rec = job.tok, !.mark = job.mark,
                                      !.owed = FALSE]
                     ELSE eng
  /\ UNCHANGED <<up, held, flight, pc, cur, nextDrain, wires, lates, calls,
                 told, server>>

(* applyLateCorrection: the record is removed, or stored without marker.   *)
CorrectionLands ==
  /\ Quiet /\ queue # <<>> /\ Head(queue).stage \in {"fixDel", "fixRec"}
  /\ LET job == Head(queue)
         t == IF job.stage = "fixDel" THEN 0 ELSE job.tok
     IN  /\ slot' = [tok |-> t, mark |-> FALSE, pend |-> eng.pend,
                     att |-> eng.att]
         /\ eng' = IF job.cur THEN [eng EXCEPT !.rec = t, !.mark = FALSE]
                   ELSE eng
         /\ Finish(job, "no")
  /\ UNCHANGED <<up, held, flight, pc, cur, nextDrain, wires, lates, calls,
                 told, server>>

(* deleteCredentialRecord: what waits on the server stays in the slot.     *)
DeletionLands ==
  /\ Landing("del")
  /\ LET job == Head(queue)
     IN  /\ slot' = [tok |-> 0, mark |-> FALSE, pend |-> eng.pend,
                     att |-> eng.att]
         /\ eng' = IF job.cur
                   THEN [eng EXCEPT !.owed = FALSE, !.rec = 0, !.mark = FALSE]
                   ELSE [eng EXCEPT !.owed = FALSE]
         /\ Finish(job, IF job.cur THEN "ok" ELSE "no")
  /\ UNCHANGED <<up, held, flight, pc, cur, nextDrain, wires, lates, calls,
                 told, server>>

(* updatePendingRevocations for a sign-out: one write stores the intent    *)
(* with its first attempt reserved and clears the session.  When its       *)
(* deadline has already answered, finishLateSignOut lets memory follow.    *)
IntentLands ==
  /\ Landing("add")
  /\ LET job == Head(queue)
         stored == [eng EXCEPT !.known = TRUE, !.pend = job.tok, !.att = 1]
         follows == /\ job.left /\ up = "live"
                    /\ job.back = [tok |-> eng.tok, rec |-> eng.rec,
                                    mark |-> eng.mark]
     IN  /\ slot' = [tok |-> 0, mark |-> FALSE, pend |-> job.tok, att |-> 1]
         /\ IF follows
            THEN /\ eng' = [stored EXCEPT !.tok = 0, !.acc = FALSE,
                                !.rec = 0, !.mark = FALSE,
                                !.st = "signedOut", !.op = "none",
                                !.warn = "none"]
                 /\ BumpEpoch("none")
                 /\ queue' = StaleJobs(Tail(queue))
                 /\ nextDrain' = "reserved"
                 /\ UNCHANGED ans
            ELSE /\ eng' = stored
                 /\ Finish(job, "ok")
                 /\ UNCHANGED <<cur, nextDrain>>
  /\ outcome' = outcome \cup {"stored"}
  /\ UNCHANGED <<up, held, flight, pc, wires, lates, calls, gaveUp, server>>

(* updatePendingRevocations for the drain: the next attempt is counted     *)
(* before it is made, or the entry leaves; the session beside it stays.    *)
DrainWriteLands ==
  /\ \/ Landing("reserve")
     \/ Landing("end")
  /\ LET job == Head(queue)
         t == IF job.kind = "end" THEN 0 ELSE eng.pend
         a == IF job.kind = "end" THEN 0 ELSE eng.att + 1
     IN  /\ slot' = [tok |-> eng.rec, mark |-> eng.mark, pend |-> t, att |-> a]
         /\ eng' = [eng EXCEPT !.pend = t, !.att = a]
         /\ gaveUp' = (gaveUp \/ (job.kind = "end" /\ job.mark))
         /\ Finish(job, "ok")
  /\ UNCHANGED <<up, held, flight, pc, cur, nextDrain, wires, lates, calls,
                 outcome, server>>

(* Fault: the deadline abandons the write and answers nobody. *)
PortDeadlineWaits(t) ==
  /\ Quiet /\ up # "off"
  /\ \E i \in Awaiting(t) : queue' = [queue EXCEPT ![i].left = TRUE]
  /\ UNCHANGED <<slot, up, eng, held, flight, pc, ans, cur, nextDrain, wires,
                 lates, calls, told, server>>

(* withPortDeadline: the caller is answered, the write goes on.            *)
PortDeadline(t) ==
  /\ Quiet /\ up # "off"
  /\ \E i \in Awaiting(t) :
       /\ queue' = [queue EXCEPT ![i].left = TRUE]
       /\ ans' = [ans EXCEPT ![t] = "fail"]
  /\ UNCHANGED <<slot, up, eng, held, flight, pc, cur, nextDrain, wires,
                 lates, calls, told, server>>

(***************************************************************************)
(* Refresh (refresh/refresh.ts).                                           *)
(***************************************************************************)

Enqueue(job) == queue' = Append(queue, job)

(* The host makes another of the calls the model allows it.                *)
Called == Quiet /\ calls < MaxCalls /\ calls' = calls + 1

SignedIn == eng.st = "signedIn"

(* Fault: the request is sent without a marker in the slot. *)
RefreshUnmarked ==
  /\ Called /\ up = "live" /\ pc["refresh"] = "idle"
  /\ SignedIn /\ eng.tok # 0
  /\ sends + (IF Bound THEN 2 ELSE 1) <= MaxSends
  /\ flight' = [NoFlight EXCEPT !.tok = eng.tok, !.try = 1]
  /\ eng' = [eng EXCEPT !.op = "refreshing"]
  /\ cur' = [cur EXCEPT !["refresh"] = TRUE]
  /\ Wait("refresh", "sending")
  /\ UNCHANGED <<slot, up, held, queue, nextDrain, wires, lates, told,
                 server>>

(* performRefresh up to its first await: one refresh at a time; the marker *)
(* is written before anything is sent.  MaxSends bounds the model.         *)
Refresh ==
  /\ Called /\ up = "live" /\ pc["refresh"] = "idle"
  /\ SignedIn /\ eng.tok # 0
  /\ sends + (IF Bound THEN 2 ELSE 1) <= MaxSends
  /\ flight' = [NoFlight EXCEPT !.tok = eng.tok, !.try = 1]
  /\ eng' = [eng EXCEPT !.op = "refreshing"]
  /\ Enqueue(Rec("refresh", eng.tok, TRUE, eng.tok, TRUE))
  /\ cur' = [cur EXCEPT !["refresh"] = TRUE]
  /\ Wait("refresh", "marking")
  /\ UNCHANGED <<slot, up, held, nextDrain, wires, lates, told, server>>

(* finishRefresh: the warning says why the store refused.                  *)
FinishRefresh(e, refused) ==
  [e EXCEPT !.op = "none",
            !.warn = CASE refused = "locked" -> "locked"
                       [] refused = "fail" -> "blocked"
                       [] OTHER -> "none"]

Install(e, t) == [e EXCEPT !.tok = t, !.acc = TRUE]

(* The marker's write is answered. *)
RefreshMarked ==
  /\ Ready("refresh", "marking")
  /\ IF cur["refresh"] /\ ans["refresh"] = "ok"
     THEN Wait("refresh", "sending") /\ UNCHANGED eng
     ELSE /\ Done("refresh")
          /\ eng' = IF cur["refresh"] THEN FinishRefresh(eng, ans["refresh"])
                    ELSE eng
  /\ UNCHANGED <<slot, up, held, flight, cur, queue, nextDrain, wires, lates,
                 calls, told, server>>

(* requestRefreshTokens: the request leaves, or nothing is sent because    *)
(* the timer or the device key refuses.                                    *)
RefreshSend ==
  /\ Quiet /\ up # "off" /\ pc["refresh"] = "sending"
  /\ \/ /\ sends' = sends + 1
        /\ flight' = [flight EXCEPT !.n = sends + 1]
        /\ net' = net \cup {[kind |-> "refresh", n |-> sends + 1,
                             tok |-> flight.tok]}
        /\ Wait("refresh", "asking")
     \/ /\ \E a \in (IF Bound THEN {"key", "keyGone"} ELSE {})
                    \cup (IF flight.try = 1 THEN {"busy"} ELSE {}) :
             ans' = [ans EXCEPT !["refresh"] = a]
        /\ pc' = [pc EXCEPT !["refresh"] = "asking"]
        /\ UNCHANGED <<sends, flight, net>>
  /\ UNCHANGED <<slot, up, eng, held, cur, queue, nextDrain, replies, lates,
                 calls, told, server>>

(* The answer, no answer, or the request's deadline.  An answer after the  *)
(* deadline is looked at by LateRotation.                                  *)
RefreshAnswered ==
  /\ Quiet /\ up # "off" /\ pc["refresh"] = "asking"
  /\ \/ \E r \in replies :
          /\ r.n = flight.n
          /\ ans' = [ans EXCEPT !["refresh"] = r.res]
          /\ flight' = [flight EXCEPT !.new = r.tok, !.n = 0]
          /\ replies' = replies \ {r}
          /\ UNCHANGED lates
     \/ \E a \in {"silent", "late"} :
          /\ ans' = [ans EXCEPT !["refresh"] = a]
          /\ flight' = [flight EXCEPT !.n = 0]
          /\ lates' = IF a = "late" THEN lates \cup {flight.n} ELSE lates
          /\ replies' = IF a = "late" THEN replies
                        ELSE {r \in replies : r.n # flight.n}
  /\ UNCHANGED <<slot, up, eng, held, pc, cur, queue, nextDrain, net, sends,
                 calls, told, server>>

Revoke(t, proof, who) == [kind |-> "revoke", tok |-> t, proof |-> proof,
                          who |-> who]
Preserves == up = "disposed" /\ eng.keep

(* settleLateRotation: disposed, the slot is read first; otherwise the new *)
(* token is revoked quietly.                                               *)
SettleLate ==
  IF up = "disposed"
  THEN Wait("refresh", "settling") /\ UNCHANGED net
  ELSE Done("refresh") /\ net' = net \cup {Revoke(flight.new, TRUE, "quiet")}

(* persistRotatedSessionAfterDispose: stored only over this refresh's own  *)
(* marker.                                                                 *)
KeepRotated ==
  /\ Enqueue(Rec("refresh", flight.new, FALSE, flight.tok, TRUE))
  /\ Wait("refresh", "keeping")

(* New tokens arrive. *)
RefreshRotated ==
  /\ Ready("refresh", "asking") /\ ans["refresh"] = "tokens"
  /\ IF cur["refresh"]
     THEN /\ Enqueue(Rec("refresh", flight.new, FALSE, flight.new, FALSE))
          /\ Wait("refresh", "saving")
          /\ UNCHANGED net
     ELSE IF Preserves THEN KeepRotated /\ UNCHANGED net
     ELSE SettleLate /\ UNCHANGED queue
  /\ UNCHANGED <<slot, up, eng, held, flight, cur, nextDrain, replies, sends,
                 lates, calls, told, server>>

(* The new record's write is answered: refused with the epoch current, the *)
(* pair is used from memory.                                               *)
RefreshSaved ==
  /\ Ready("refresh", "saving")
  /\ IF cur["refresh"]
     THEN /\ eng' = FinishRefresh(Install(eng, flight.new), ans["refresh"])
          /\ Done("refresh") /\ UNCHANGED <<queue, net>>
     ELSE IF Preserves
     THEN KeepRotated /\ UNCHANGED <<eng, net>>
     ELSE SettleLate /\ UNCHANGED <<eng, queue>>
  /\ UNCHANGED <<slot, up, held, flight, cur, nextDrain, replies, sends,
                 lates, calls, told, server>>

RefreshKept ==
  /\ Ready("refresh", "keeping")
  /\ IF ans["refresh"] = "ok" THEN Done("refresh")
     ELSE Wait("refresh", "unkept")
  /\ UNCHANGED <<slot, up, eng, held, flight, cur, queue, nextDrain, wires,
                 lates, calls, told, server>>

(* settleDisposedToken: a late token that the slot does not hold, and that *)
(* no successor replaced, is revoked once; the call made after a refused   *)
(* save passes no device key.  Unreadable, a guarded delete follows.       *)
SettleDisposed ==
  /\ Quiet /\ up # "off" /\ pc["refresh"] \in {"settling", "unkept"}
  /\ \E read \in ReadOutcome :
       LET owner == IF read THEN Owner(flight.new, FALSE, flight.tok)
                    ELSE "unreadable"
           proof == Bound => pc["refresh"] = "settling"
           asks == /\ owner \notin {"same", "other"}
                   /\ flight.new \notin eng.intents
           who == IF read THEN "quiet" ELSE "refresh"
       IN  /\ IF asks
              THEN /\ eng' = [eng EXCEPT !.intents = @ \cup {flight.new}]
                   /\ net' = net \cup {Revoke(flight.new, proof, who)}
              ELSE UNCHANGED <<eng, net>>
           /\ IF asks /\ ~read THEN Wait("refresh", "revoking")
              ELSE Done("refresh")
  /\ UNCHANGED <<slot, up, held, flight, cur, queue, nextDrain, replies,
                 sends, lates, calls, told, server>>

RefreshTidies ==
  /\ Ready("refresh", "revoking")
  /\ Enqueue(Del("refresh", flight.new, FALSE))
  /\ Wait("refresh", "tidying")
  /\ UNCHANGED <<slot, up, eng, held, flight, cur, nextDrain, wires, lates,
                 calls, told, server>>

(* onLateSuccess: the answer came after its deadline, in the same process. *)
LateRotation ==
  /\ Quiet /\ up # "off" /\ pc["refresh"] = "idle"
  /\ \E r \in replies :
       /\ r.n \in lates
       /\ replies' = replies \ {r}
       /\ lates' = lates \ {r.n}
       /\ IF r.res # "tokens"
          THEN UNCHANGED <<flight, pc, ans, net>>
          ELSE /\ flight' = [flight EXCEPT !.new = r.tok]
               /\ IF up = "disposed"
                  THEN Wait("refresh", "settling") /\ UNCHANGED net
                  ELSE /\ net' = net \cup {Revoke(r.tok, TRUE, "quiet")}
                       /\ UNCHANGED <<pc, ans>>
  /\ UNCHANGED <<slot, up, eng, held, cur, queue, nextDrain, sends, calls,
                 told, server>>

(* mayRetryUnknownRefresh: a bound refresh is sent once more.              *)
MayRetry == /\ Bound /\ flight.try = 1 /\ ans["refresh"] = "silent"
            /\ cur["refresh"] /\ up = "live" /\ SignedIn

RefreshRetry ==
  /\ Ready("refresh", "asking") /\ MayRetry
  /\ flight' = [flight EXCEPT !.try = 2]
  /\ Wait("refresh", "sending")
  /\ UNCHANGED <<slot, up, eng, held, cur, queue, nextDrain, wires, lates,
                 calls, told, server>>

(* Fault: an unanswered refresh is taken for one that never arrived. *)
OutcomeOptimist(a) ==
  CASE a = "ended" -> "gone"
    [] a = "oauth" -> "unknown"
    [] OTHER -> "unspent"

(* What a failure says about the token that was sent: it is gone for good, *)
(* it may have been spent, or it was not (429 and 503 with their codes,    *)
(* nothing sent, no usable device key).                                    *)
Outcome(a) ==
  CASE a = "ended" -> "gone"
    [] a \in {"oauth", "silent", "late"} -> "unknown"
    [] OTHER -> "unspent"

(* performRefresh's catch with the epoch current.                          *)
RefreshFails ==
  /\ Ready("refresh", "asking") /\ ans["refresh"] # "tokens" /\ ~MayRetry
  /\ cur["refresh"]
  /\ CASE Outcome(ans["refresh"]) = "gone" ->
            /\ BumpEpoch("refresh")
            /\ eng' = [eng EXCEPT !.tok = 0, !.acc = FALSE]
            /\ queue' = Append(StaleJobs(queue), Del("refresh", 0, FALSE))
            /\ Wait("refresh", "ending")
       [] Outcome(ans["refresh"]) = "unknown" ->
            /\ BumpEpoch("none")
            /\ eng' = [eng EXCEPT !.tok = 0, !.acc = FALSE, !.st = "reauth",
                                  !.op = "none", !.warn = "none"]
            /\ queue' = StaleJobs(queue)
            /\ Done("refresh")
       [] OTHER ->
            /\ Enqueue(Rec("refresh", flight.tok, FALSE, flight.tok, FALSE))
            /\ Wait("refresh", CASE ans["refresh"] = "key" -> "keying"
                                 [] ans["refresh"] = "keyGone" -> "keyLost"
                                 [] OTHER -> "clearing")
            /\ UNCHANGED <<cur, eng>>
  /\ UNCHANGED <<slot, up, held, flight, nextDrain, wires, lates, calls,
                 told, server>>

(* settleDisposedRefreshFailure, when the refresh had been going on: the   *)
(* marker is cleared or the record removed, over this refresh's marker.    *)
SettleFailure(a) ==
  LET key == a \in {"key", "keyGone"}
  IN  CASE a = "busy" \/ (key /\ flight.try = 1) ->
             /\ Enqueue(Rec("refresh", flight.tok, FALSE, flight.tok, TRUE))
             /\ Wait("refresh", "tidying")
        [] a = "ended" -> /\ Enqueue(Del("refresh", flight.tok, TRUE))
                          /\ Wait("refresh", "tidying")
        [] OTHER -> Done("refresh") /\ UNCHANGED queue

RefreshFailsStale ==
  /\ Ready("refresh", "asking") /\ ans["refresh"] # "tokens"
  /\ ~cur["refresh"]
  /\ IF Preserves THEN SettleFailure(ans["refresh"])
     ELSE Done("refresh") /\ UNCHANGED queue
  /\ UNCHANGED <<slot, up, eng, held, flight, cur, nextDrain, wires, lates,
                 calls, told, server>>

(* clearMarkerAfterThrottle and settleDeviceKeyRefreshFailure after their  *)
(* write; the former starts again after disposal.                          *)
RefreshCleared ==
  /\ up # "off"
  /\ \E step \in {"clearing", "keying", "keyLost"} :
       /\ Ready("refresh", step)
       /\ IF up = "disposed" /\ step = "clearing" /\ ans["refresh"] # "ok"
          THEN SettleFailure("busy") /\ UNCHANGED eng
          ELSE /\ eng' = CASE ~cur["refresh"] -> eng
                           [] step = "keyLost" ->
                                [eng EXCEPT !.tok = 0, !.acc = FALSE,
                                            !.st = "reauth", !.op = "none"]
                           [] step = "keying" /\ ans["refresh"] # "ok" ->
                                [eng EXCEPT !.op = "none", !.warn = "blocked"]
                           [] OTHER -> FinishRefresh(eng, ans["refresh"])
               /\ Done("refresh") /\ UNCHANGED queue
  /\ UNCHANGED <<slot, up, held, flight, cur, nextDrain, wires, lates, calls,
                 told, server>>

(* The deletion after a definitive refusal, and the writes after disposal. *)
RefreshEnds ==
  /\ \/ Ready("refresh", "ending")
     \/ Ready("refresh", "tidying")
  /\ Done("refresh")
  /\ eng' = IF pc["refresh"] = "ending" /\ cur["refresh"]
            THEN [eng EXCEPT !.op = "none",
                             !.st = IF ans["refresh"] \in {"fail", "locked"}
                                    THEN "blocked" ELSE "signedOut"]
            ELSE eng
  /\ UNCHANGED <<slot, up, held, flight, cur, queue, nextDrain, wires, lates,
                 calls, told, server>>

(* The access token of the pair in memory is used. *)
UseAccess ==
  /\ up = "live" /\ SignedIn /\ eng.acc /\ eng.tok # 0
  /\ AUse(eng.tok) /\ eng.tok \notin used
  /\ UNCHANGED <<slot, up, eng, held, flight, tasks, queue, nextDrain, wires,
                 lates, calls, told>>

(***************************************************************************)
(* Restore (storage/restore.ts) and the save it makes after an unlock.     *)
(***************************************************************************)

(* drain(): one that waits to start is joined.                             *)
DrainAsked(kind) == IF nextDrain = "none" THEN kind ELSE
                    IF kind = "reserved" THEN kind ELSE nextDrain

(* restore() when a session is in memory: only a pair that a locked store  *)
(* refused is saved.                                                       *)
SaveAfterUnlock ==
  /\ Called /\ up = "live" /\ pc["restore"] = "idle" /\ pc["save"] = "idle"
  /\ SignedIn /\ eng.tok # 0 /\ eng.op = "none" /\ eng.warn = "locked"
  /\ Enqueue(Rec("save", eng.tok, FALSE, eng.tok, FALSE))
  /\ cur' = [cur EXCEPT !["save"] = TRUE]
  /\ Wait("save", "saving")
  /\ nextDrain' = DrainAsked("plain")
  /\ UNCHANGED <<slot, up, eng, held, flight, wires, lates, told, server>>

SaveAnswered ==
  /\ Ready("save", "saving")
  /\ Done("save")
  /\ eng' = IF cur["save"] /\ SignedIn /\ eng.op = "none"
            THEN FinishRefresh(eng, ans["save"]) ELSE eng
  /\ UNCHANGED <<slot, up, held, flight, cur, queue, nextDrain, wires, lates,
                 calls, told, server>>

(* restore(): at start and on return to the foreground.  A deletion owed   *)
(* by a sign-out comes before the slot is read.                            *)
Restore ==
  /\ Called /\ up = "live" /\ pc["restore"] = "idle"
  /\ ~(SignedIn /\ eng.tok # 0) /\ eng.op = "none"
  /\ BumpEpoch("restore")
  /\ eng' = [eng EXCEPT !.st = "restoring", !.warn = "none"]
  /\ IF eng.owed
     THEN /\ queue' = Append(StaleJobs(queue), Del("restore", 0, FALSE))
          /\ Wait("restore", "erasing")
     ELSE /\ queue' = StaleJobs(queue)
          /\ Wait("restore", "reading")
  /\ nextDrain' = DrainAsked("plain")
  /\ UNCHANGED <<slot, up, held, flight, wires, lates, told, server>>

RestoreErased ==
  /\ Ready("restore", "erasing")
  /\ IF ~cur["restore"] THEN Done("restore") /\ UNCHANGED eng
     ELSE IF ans["restore"] = "ok" THEN Wait("restore", "reading") /\ UNCHANGED eng
     ELSE Done("restore") /\ eng' = [eng EXCEPT !.st = "blocked"]
  /\ UNCHANGED <<slot, up, held, flight, cur, queue, nextDrain, wires, lates,
                 calls, told, server>>

(* Fault: a stored marker is not looked at. *)
RestoredUnmarked(key) ==
  IF slot.tok = 0 THEN [eng EXCEPT !.rec = 0, !.mark = FALSE, !.tok = 0,
                                   !.st = "signedOut"]
  ELSE [eng EXCEPT !.rec = slot.tok, !.mark = slot.mark,
                   !.tok = IF key = "ok" THEN slot.tok ELSE 0, !.acc = FALSE,
                   !.st = CASE key = "ok" -> "signedIn"
                            [] key = "busy" -> "blocked"
                            [] OTHER -> "reauth"]

(* performRestore on what the slot holds: a marker asks for sign-in, a     *)
(* bound session needs its key, a token becomes a session without access.  *)
Restored(key) ==
  IF slot.tok = 0 THEN [eng EXCEPT !.rec = 0, !.mark = FALSE, !.tok = 0,
                                   !.st = "signedOut"]
  ELSE IF slot.mark
  THEN [eng EXCEPT !.rec = slot.tok, !.mark = TRUE, !.tok = 0, !.acc = FALSE,
                   !.st = "reauth"]
  ELSE [eng EXCEPT !.rec = slot.tok, !.mark = FALSE,
                   !.tok = CASE key = "ok" -> slot.tok
                             [] key = "busy" -> eng.tok
                             [] OTHER -> 0,
                   !.acc = FALSE,
                   !.st = CASE key = "ok" -> "signedIn"
                            [] key = "busy" -> "blocked"
                            [] OTHER -> "reauth"]

KeyStates == IF Bound THEN {"ok", "busy", "gone"} ELSE {"ok"}

RestoreReads ==
  /\ Quiet /\ up # "off" /\ pc["restore"] = "reading"
  /\ Done("restore")
  /\ \E read \in ReadOutcome, key \in KeyStates :
       /\ eng' = CASE ~cur["restore"] -> eng
                   [] ~read -> [eng EXCEPT !.st = "blocked"]
                   [] OTHER -> [Restored(key) EXCEPT !.known = TRUE,
                                  !.pend = slot.pend, !.att = slot.att]
       /\ nextDrain' = IF cur["restore"] /\ read /\ slot.pend # 0
                       THEN DrainAsked("plain") ELSE nextDrain
       /\ queue' = IF cur["restore"] /\ read /\ slot.tok # 0
                   THEN [i \in DOMAIN queue |->
                           IF queue[i].back = NoBack THEN queue[i]
                           ELSE [queue[i] EXCEPT !.back = NotBack]]
                   ELSE queue
  /\ UNCHANGED <<slot, up, held, flight, cur, wires, lates, calls, told,
                 server>>

(***************************************************************************)
(* Sign-out (sign-out/sign-out.ts) and the drain of what waits.            *)
(***************************************************************************)

Known == IF eng.tok # 0 THEN eng.tok ELSE eng.rec
HasSession == held.tok # 0 \/ held.rec # 0

(* Sign-out asks for the intent to be stored, in the write that clears the *)
(* session.                                                                *)
StoreIntent(t, q) ==
  /\ queue' = Append(q, [Pend("signOut", "add", t) EXCEPT
                           !.back = [tok |-> held'.tok, rec |-> held'.rec,
                                     mark |-> held'.mark]])
  /\ Wait("signOut", "storing")

(* signOut(): memory is emptied at once; a running refresh is stale now.   *)
SignOut ==
  /\ Called /\ up = "live" /\ pc["signOut"] = "idle"
  /\ held' = [tok |-> eng.tok, acc |-> eng.acc, rec |-> eng.rec,
              mark |-> eng.mark, st |-> eng.st, op |-> eng.op,
              intent |-> Known]
  /\ BumpEpoch("signOut")
  /\ eng' = [eng EXCEPT !.tok = 0, !.acc = FALSE, !.rec = 0, !.mark = FALSE,
                        !.op = "signingOut",
                        !.st = IF Known # 0 THEN @ ELSE "signedOut",
                        !.intents = IF Known # 0 THEN @ \cup {Known} ELSE @]
  /\ IF Known # 0 THEN StoreIntent(Known, StaleJobs(queue))
     ELSE Wait("signOut", "peeking") /\ queue' = StaleJobs(queue)
  /\ UNCHANGED <<slot, up, flight, nextDrain, wires, lates, told, server>>

(* readStoredToken, for a sign-out before anything was read.  Without a    *)
(* token the record is deleted.                                            *)
SignOutPeeks ==
  /\ Quiet /\ up # "off" /\ pc["signOut"] = "peeking"
  /\ \E read \in ReadOutcome :
       LET t == IF read THEN slot.tok ELSE 0
           learnt == IF read /\ ~eng.known
                     THEN [eng EXCEPT !.known = TRUE, !.pend = slot.pend,
                                      !.att = slot.att]
                     ELSE eng
       IN  IF ~cur["signOut"]
           THEN eng' = learnt /\ Done("signOut") /\ UNCHANGED <<held, queue>>
           ELSE IF t # 0
           THEN /\ eng' = learnt
                /\ held' = [held EXCEPT !.intent = t]
                /\ StoreIntent(t, queue)
           ELSE /\ eng' = [learnt EXCEPT !.owed = TRUE]
                /\ Enqueue(Del("signOut", 0, FALSE))
                /\ Wait("signOut", "removing")
                /\ UNCHANGED held
  /\ UNCHANGED <<slot, up, flight, cur, nextDrain, wires, lates, calls, told,
                 server>>

(* signOutWithoutRevocation: what waits and is due is tried.               *)
SignOutRemoved ==
  /\ Ready("signOut", "removing")
  /\ Wait("signOut", "lastDrain")
  /\ nextDrain' = DrainAsked("plain")
  /\ UNCHANGED <<slot, up, eng, held, flight, cur, queue, wires, lates,
                 calls, told, server>>

(* The intent is stored: signed out; its revocation is tried now.          *)
SignOutStored ==
  /\ Ready("signOut", "storing") /\ ans["signOut"] = "ok"
  /\ eng' = [eng EXCEPT !.owed = FALSE,
                        !.st = IF cur["signOut"] THEN "signedOut" ELSE @]
  /\ nextDrain' = DrainAsked("reserved")
  /\ Wait("signOut", "draining")
  /\ outcome' = outcome \cup {"reported"}
  /\ UNCHANGED <<slot, up, held, flight, cur, queue, wires, lates, calls,
                 gaveUp, server>>

(* Fault: the session comes back although a refresh was running. *)
EndsLocallyNever == FALSE

(* notSaved: a session that a refresh was changing is not put back.        *)
EndsLocally == HasSession /\ held.op # "none"

(* notSaved and keepSession. *)
SignOutNotSaved ==
  /\ Ready("signOut", "storing") /\ ans["signOut"] # "ok"
  /\ IF up = "disposed" \/ EndsLocally
     THEN /\ net' = net \cup {Revoke(held.intent, TRUE, "signOut")}
          /\ Wait("signOut", IF up = "disposed" THEN "askOnce" ELSE "askLocally")
          /\ eng' = IF up = "disposed" THEN eng
                    ELSE [eng EXCEPT !.owed = TRUE, !.st = "signedOut",
                                     !.warn = "blocked"]
     ELSE /\ Done("signOut")
          /\ eng' = CASE ~cur["signOut"] -> eng
                      [] ~HasSession -> [eng EXCEPT !.st = "signedOut",
                                           !.op = "none", !.warn = "blocked"]
                      [] OTHER -> [eng EXCEPT !.tok = held.tok, !.acc = held.acc,
                                     !.rec = held.rec, !.mark = held.mark,
                                     !.st = held.st, !.op = "none",
                                     !.intents = @ \ {held.intent}]
          /\ UNCHANGED net
  /\ UNCHANGED <<slot, up, held, flight, cur, queue, nextDrain, replies,
                 sends, lates, calls, told, server>>

(* The end of endLocally, of the one request after disposal, and of the    *)
(* drain that tried this sign-out's revocation.                            *)
SignOutAnswered ==
  /\ \/ Ready("signOut", "askOnce")
     \/ Ready("signOut", "askLocally")
     \/ Ready("signOut", "draining")
     \/ Ready("signOut", "lastDrain")
  /\ Done("signOut")
  /\ eng' = IF up = "disposed" THEN eng
            ELSE [eng EXCEPT !.op = "none", !.st = "signedOut",
                             !.warn = IF pc["signOut"] = "askLocally"
                                      THEN "blocked" ELSE "none"]
  /\ outcome' = outcome \cup ({ans["signOut"]} \cap {"revoked"})
  /\ UNCHANGED <<slot, up, held, flight, cur, queue, nextDrain, wires, lates,
                 calls, gaveUp, server>>

(* The run that holds sign-out's own entry is the last one asked for.      *)
DrainDone(result) ==
  /\ pc' = [pc EXCEPT !["drain"] = "idle"]
  /\ ans' = [ans EXCEPT !["drain"] = "none",
               !["signOut"] =
                 IF \/ pc["signOut"] = "draining" /\ nextDrain' # "reserved"
                    \/ pc["signOut"] = "lastDrain" /\ nextDrain' = "none"
                 THEN result ELSE @]

AskServer ==
  \/ /\ net' = net \cup {Revoke(eng.pend, TRUE, "drain")}
     /\ Wait("drain", "asking")
  \/ /\ Bound
     /\ pc' = [pc EXCEPT !["drain"] = "asking"]
     /\ \E a \in {"keyGone", "fail"} : ans' = [ans EXCEPT !["drain"] = a]
     /\ UNCHANGED net

(* Fault: the limit on attempts is not looked at. *)
LimitNever == FALSE

(* run: the entry has had every attempt it may have. *)
LimitReached == eng.att >= MaxAttempts

(* run: nothing waits; the entry was reserved by sign-out's own write; its *)
(* attempts are used up; it is not due; or its next attempt is reserved.   *)
DrainStarts ==
  /\ Quiet /\ up # "off" /\ pc["drain"] = "idle" /\ nextDrain # "none"
  /\ nextDrain' = "none"
  /\ \/ eng.pend = 0 /\ DrainDone("fail") /\ UNCHANGED <<queue, net>>
     \/ /\ eng.pend # 0 /\ nextDrain = "reserved"
        /\ AskServer /\ UNCHANGED queue
     \/ /\ eng.pend # 0 /\ nextDrain = "plain" /\ LimitReached
        /\ Enqueue([Pend("drain", "end", eng.pend) EXCEPT !.mark = TRUE])
        /\ Wait("drain", "giving") /\ UNCHANGED net
     \/ /\ eng.pend # 0 /\ nextDrain = "plain" /\ ~LimitReached
        /\ \/ DrainDone("fail") /\ UNCHANGED <<queue, net>>
           \/ /\ Enqueue(Pend("drain", "reserve", eng.pend))
              /\ Wait("drain", "reserving") /\ UNCHANGED net
  /\ UNCHANGED <<slot, up, eng, held, flight, cur, replies, sends, lates,
                 calls, told, server>>

DrainReserved ==
  /\ Ready("drain", "reserving")
  /\ IF ans["drain"] = "ok" THEN AskServer /\ UNCHANGED nextDrain
     ELSE UNCHANGED <<net, nextDrain>> /\ DrainDone("fail")
  /\ UNCHANGED <<slot, up, eng, held, flight, cur, queue, replies, sends,
                 lates, calls, told, server>>

(* Fault: the entry leaves whatever the server said. *)
RemovesAlways(a) == TRUE
Removes(a) == a \in {"revoked", "keyGone"}

DrainAnswered ==
  /\ Ready("drain", "asking")
  /\ UNCHANGED nextDrain
  /\ IF Removes(ans["drain"])
     THEN /\ Enqueue([Pend("drain", "end", eng.pend) EXCEPT
                        !.mark = ans["drain"] = "keyGone"])
          /\ Wait("drain", IF ans["drain"] = "revoked" THEN "finishing"
                           ELSE "giving")
     ELSE DrainDone("fail") /\ UNCHANGED queue
  /\ UNCHANGED <<slot, up, eng, held, flight, cur, wires, lates, calls, told,
                 server>>

DrainFinishes ==
  /\ UNCHANGED nextDrain
  /\ \/ Ready("drain", "finishing") /\ DrainDone("revoked")
     \/ Ready("drain", "giving") /\ DrainDone("fail")
  /\ UNCHANGED <<slot, up, eng, held, flight, cur, queue, wires, lates,
                 calls, told, server>>

(***************************************************************************)
(* Disposal, the end of the process, a new start.                          *)
(***************************************************************************)

(* dispose(): a refresh or sign-out under way goes on with its deadlines;  *)
(* otherwise every timer fires now and whoever waits is answered.          *)
Dispose ==
  /\ Disposes /\ Called /\ up = "live"
  /\ up' = "disposed"
  /\ BumpEpoch("none")
  /\ eng' = [eng EXCEPT !.tok = 0, !.acc = FALSE, !.st = "signedOut",
                        !.op = "none", !.warn = "none",
                        !.keep = eng.op = "refreshing" /\ eng.tok # 0]
  /\ IF eng.op = "none" \/ (eng.op = "refreshing" /\ eng.tok = 0)
     THEN /\ queue' = [i \in DOMAIN queue |->
                         [queue[i] EXCEPT !.cur = FALSE, !.left = TRUE]]
          /\ ans' = [t \in Task |-> IF ans[t] = "wait" /\ pc[t] \notin Direct
                                    THEN "fail" ELSE ans[t]]
          /\ net' = {IF m.kind = "revoke" THEN [m EXCEPT !.who = "quiet"]
                     ELSE m : m \in net}
     ELSE queue' = StaleJobs(queue) /\ UNCHANGED <<ans, net>>
  /\ UNCHANGED <<slot, held, flight, pc, nextDrain, replies, sends, lates,
                 told, server>>

(* The process is killed, or a disposed engine has nothing left to do.     *)
Kill ==
  /\ up # "off"
  /\ up' = "off"
  /\ eng' = Fresh /\ held' = NotHeld /\ flight' = NoFlight
  /\ pc' = AllTasks("idle") /\ ans' = AllTasks("none") /\ cur' = AllTasks(FALSE)
  /\ queue' = <<>> /\ nextDrain' = "none"
  /\ net' = {IF m.kind = "revoke" THEN [m EXCEPT !.who = "quiet"]
             ELSE m : m \in net}
  /\ replies' = {} /\ lates' = {}
  /\ UNCHANGED <<slot, sends, calls, told, server>>

Start ==
  /\ Called /\ up = "off"
  /\ up' = "live"
  /\ UNCHANGED <<slot, eng, held, flight, tasks, queue, nextDrain, wires,
                 lates, told, server>>

(***************************************************************************)
(* The server, as TokenFamily promises it, and its answers.                *)
(***************************************************************************)

Reply(m, res, t) ==
  replies' = IF m.n = flight.n \/ m.n \in lates
             THEN replies \cup {[n |-> m.n, res |-> res, tok |-> t]}
             ELSE replies

(* POST /oauth/token with a refresh token: exchanged, refused for good, or *)
(* answered without reading the token.                                     *)
ServeRefresh(m) ==
  /\ m \in net /\ m.kind = "refresh"
  /\ net' = net \ {m}
  /\ \/ /\ AExchange(m.tok) \/ (Bound /\ AReissue(m.tok))
        /\ Reply(m, "tokens", Len(status) + 1)
     \/ /\ ~(open = "yes" /\ status[m.tok] = "held")
        /\ AEnd /\ Reply(m, "ended", 0)
     \/ /\ \E res \in {"busy", "oauth", "ended"} : Reply(m, res, 0)
        /\ UNCHANGED server
  /\ UNCHANGED <<slot, up, eng, held, flight, tasks, queue, nextDrain, sends,
                 lates, calls, told>>

(* Does the task wait for the answer to a revocation. *)
Asks(t) == \/ pc[t] \in {"askOnce", "askLocally", "revoking"}
           \/ t = "drain" /\ pc[t] = "asking"

(* POST /oauth/revoke: any token of the family ends it; a bound family     *)
(* asks for a proof.  The answer reaches the engine or is lost.            *)
ServeRevoke(m) ==
  /\ m \in net /\ m.kind = "revoke"
  /\ net' = net \ {m}
  /\ IF Bound /\ ~m.proof THEN UNCHANGED server ELSE AEnd
  /\ \/ UNCHANGED ans
     \/ /\ Quiet /\ m.who \in Task /\ Asks(m.who)
        /\ ans' = [ans EXCEPT ![m.who] = IF Bound /\ ~m.proof THEN "fail"
                                         ELSE "revoked"]
  /\ UNCHANGED <<slot, up, eng, held, flight, pc, cur, queue, nextDrain,
                 replies, sends, lates, calls, told>>

(* Fault: no answer is taken for the end of the session. *)
RevokeUnansweredAsDone(t) ==
  /\ Quiet /\ up # "off" /\ Asks(t) /\ ans[t] = "wait"
  /\ ans' = [ans EXCEPT ![t] = "revoked"]
  /\ net' = {IF m.kind = "revoke" /\ m.who = t THEN [m EXCEPT !.who = "quiet"]
             ELSE m : m \in net}
  /\ UNCHANGED <<slot, up, eng, held, flight, pc, cur, queue, nextDrain,
                 replies, sends, lates, calls, told, server>>

(* sendRevoke: refused, or no answer within its deadline.                  *)
RevokeUnanswered(t) ==
  /\ Quiet /\ up # "off" /\ Asks(t) /\ ans[t] = "wait"
  /\ ans' = [ans EXCEPT ![t] = "fail"]
  /\ net' = {IF m.kind = "revoke" /\ m.who = t THEN [m EXCEPT !.who = "quiet"]
             ELSE m : m \in net}
  /\ UNCHANGED <<slot, up, eng, held, flight, pc, cur, queue, nextDrain,
                 replies, sends, lates, calls, told, server>>

(* The session ends on the server's side. *)
EndElsewhere ==
  /\ open = "yes" /\ AEnd
  /\ UNCHANGED <<slot, up, eng, held, flight, tasks, queue, nextDrain, wires,
                 lates, calls, told>>

(* Signed in once: the first pair is in the slot, no process runs.         *)
Init ==
  /\ open = "yes" /\ status = <<"held">> /\ parent = <<0>> /\ used = {}
  /\ slot = [tok |-> 1, mark |-> FALSE, pend |-> 0, att |-> 0]
  /\ up = "off" /\ eng = Fresh /\ held = NotHeld /\ flight = NoFlight
  /\ pc = AllTasks("idle") /\ ans = AllTasks("none") /\ cur = AllTasks(FALSE)
  /\ queue = <<>> /\ nextDrain = "none"
  /\ net = {} /\ replies = {} /\ lates = {} /\ sends = 0 /\ calls = 0
  /\ outcome = {} /\ gaveUp = FALSE

Storage ==
  \/ JobStart \/ RecordLands \/ CorrectionLands \/ DeletionLands
  \/ IntentLands \/ DrainWriteLands \/ PortRefuses

(* What a deadline or a resolved promise makes the engine do.              *)
Deadlines ==
  \/ \E t \in Task : PortDeadline(t) \/ RevokeUnanswered(t)
  \/ RefreshAnswered

Continuations ==
  \/ RefreshMarked \/ RefreshSend \/ RefreshRotated \/ RefreshSaved
  \/ RefreshKept \/ SettleDisposed \/ RefreshTidies \/ RefreshRetry
  \/ RefreshFails \/ RefreshFailsStale \/ RefreshCleared \/ RefreshEnds
  \/ SaveAnswered \/ RestoreErased \/ RestoreReads
  \/ SignOutPeeks \/ SignOutRemoved \/ SignOutStored \/ SignOutNotSaved
  \/ SignOutAnswered \/ DrainStarts \/ DrainReserved \/ DrainAnswered
  \/ DrainFinishes

Calls == Refresh \/ Restore \/ SaveAfterUnlock \/ SignOut \/ Dispose
         \/ UseAccess \/ Kill \/ Start

ServerSide ==
  \/ \E m \in net : ServeRefresh(m) \/ ServeRevoke(m)
  \/ LateRotation
  \/ EndElsewhere

Next == Storage \/ Deadlines \/ Continuations \/ Calls \/ ServerSide

Spec == Init /\ [][Next]_vars

(***************************************************************************)
(* Properties.                                                             *)
(***************************************************************************)

(* Types; a revocation that waits has had at most one attempt counted      *)
(* beyond the limit, by a reservation whose deadline had passed.           *)
TypeOK ==
  /\ slot \in [tok : Token, mark : BOOLEAN, pend : Token,
               att : 0 .. MaxAttempts + 1]
  /\ up \in {"off", "live", "disposed"}
  /\ eng.tok \in Token /\ eng.rec \in Token /\ eng.pend \in Token
  /\ eng.st \in {"restoring", "signedIn", "signedOut", "reauth", "blocked"}
  /\ eng.op \in {"none", "refreshing", "signingOut"}
  /\ eng.warn \in {"none", "blocked", "locked"}
  /\ pc \in [Task -> Steps] /\ ans \in [Task -> Answers]
  /\ cur \in [Task -> BOOLEAN]
  /\ outcome \subseteq {"stored", "reported", "revoked"} /\ gaveUp \in BOOLEAN

(* A token stored without a marker was never exchanged, whenever the app   *)
(* is killed: the marker is on disk before a refresh is sent and leaves    *)
(* only with the new pair or an answer that rules rotation out             *)
(* (performRefresh).  So a start never presents a spent token.             *)
StoredIsUnspent ==
  slot.tok # 0 /\ ~slot.mark /\ open = "yes" => status[slot.tok] = "held"

(* An engine that shows a session with no operation running holds a token  *)
(* that was not exchanged: performRestore looks at the marker, and         *)
(* endLocally does not put back a session a refresh was changing.          *)
SignedInIsUnspent ==
  SignedIn /\ eng.tok # 0 /\ eng.op = "none" /\ open = "yes" =>
    status[eng.tok] = "held"

(* For a session bound to a device key, which sends a refresh twice: the   *)
(* token stored without a marker can still be exchanged, or its answer     *)
(* asked for again, as no token it was exchanged for has been used.        *)
StoredIsRepairable ==
  slot.tok # 0 /\ ~slot.mark /\ open = "yes" =>
    status[slot.tok] = "held" \/ Children(slot.tok) \cap used = {}

(* Once a sign-out is stored, its revocation waits in the slot until the   *)
(* session is over on the server, across restarts, late writes and the     *)
(* session writes beside it, unless the drain gave it up at its limit.     *)
NothingForgotten ==
  "stored" \in outcome /\ open = "yes" => slot.pend # 0 \/ gaveUp

(* A sign-out that reports its revocation as done has ended the session on *)
(* the server (finishSignOut, endLocally).                                 *)
RevokedMeansEnded == "revoked" \in outcome => open = "ended"

(* After finishSignOut has told its caller that the sign-out is saved, no  *)
(* later step of a refresh, a restore or a drain stores the session again. *)
SignedOutStays == "reported" \in outcome => slot.tok = 0

(* The same from the moment the sign-out is on disk, reported or not:      *)
(* finishLateSignOut says "the device says signed out, so memory follows". *)
StoredSignOutStays == "stored" \in outcome => slot.tok = 0

(* Every revocation a bound session sends carries a proof of its key.      *)
RevokesCarryProof ==
  Bound => \A m \in net : m.kind = "revoke" => m.proof

(* A write never stores an older token than the slot holds without a       *)
(* marker, however late it lands (replaceCredentialRecord).                *)
NeverOlder ==
  slot'.tok # 0 /\ ~slot'.mark => slot'.tok >= slot.tok

(* Promise jobs run and timers fire as long as the process lives; storage  *)
(* and server need not answer at all.                                      *)
Fairness == /\ WF_vars(Continuations) /\ WF_vars(RefreshAnswered)
            /\ \A t \in Task : /\ WF_vars(PortDeadline(t))
                              /\ WF_vars(RevokeUnanswered(t))

FairSpec == Spec /\ Fairness

(* A refresh returns to its caller although storage or server hang:        *)
(* withPortDeadline and withNetworkDeadline bound every wait.              *)
RefreshSettles == pc["refresh"] # "idle" ~> pc["refresh"] = "idle"

(* signOut() returns to its caller, the drain it joins included.           *)
SignOutSettles == pc["signOut"] # "idle" ~> pc["signOut"] = "idle"
=============================================================================
