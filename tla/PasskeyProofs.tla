---------------------------- MODULE PasskeyProofs ---------------------------
(***************************************************************************)
(* Passkeys (PasskeyCeremonies), for any ceremonies at once and any        *)
(* accounts, challenges and keys: a challenge is used once, who a passkey  *)
(* lets in has shown the factors it owes, and a key is registered where    *)
(* its owner proved who they are.                                          *)
(*                                                                         *)
(* The invariant says what a challenge, a key, a held sign-in and a        *)
(* ceremony owe one another at every step of two ceremonies that answer    *)
(* the same challenge.                                                     *)
(***************************************************************************)
EXTENDS FactorPromises, Integers, Sequences, FiniteSetTheorems, SequenceTheorems, TLAPS

ChalRow ==
  [state : {"new", "open", "gone"},
   purpose : {"none", "login", "register", "nativeRegister"},
   user : User \cup {None}, session : Session \cup {None}, exp : Nat]
KeyRow ==
  [owner : User \cup {None}, counter : 0..MaxCounter, web : BOOLEAN, made :
    Ceremony \cup {None}]
HeldRow ==
  [state : {"new", "open", "claimed", "gone"}, user : User \cup {None},
   first : {"none", "passkey", "password"}, attempts : 0..HeldAttempts]
CeremonyPc ==
  {"idle", "consume", "find", "advance", "account", "discard", "load", "hold", "held",
   "issue", "compare", "record", "failed", "refused", "done", "stopped"}
CeremonyRow ==
  [kind : {"none", "login", "second", "register"}, pc : CeremonyPc,
   chal : Chal \cup {None}, key : Key \cup {None}, n : 0..MaxCounter, uv : BOOLEAN,
   session : Session \cup {None}, held : Held \cup {None}, read : KeyRow, owed : BOOLEAN]
UseRow ==
  [by : Ceremony, chal : Chal, key : Key, made : Ceremony \cup {None}, n : 0..MaxCounter]

UseOf(w) == [by |-> w, chal |-> work[w].chal, key |-> work[w].key,
             made |-> work[w].read.made, n |-> work[w].n]

PTyped ==
  /\ now \in 0..EndTime
  /\ chal \in [Chal -> ChalRow]
  /\ key \in [Key -> KeyRow]
  /\ held \in [Held -> HeldRow]
  /\ active \subseteq User /\ factor \subseteq User
  /\ work \in [Ceremony -> CeremonyRow]
  /\ uses \in Seq(UseRow)
  /\ made \subseteq Ceremony /\ sessions \subseteq Ceremony

Assertion == {"consume", "find", "advance"}
Finding == {"find", "advance", "compare", "record"}
Holding == {"account", "consume", "find", "advance", "discard", "failed"}
Ended == {"issue", "done", "failed", "refused", "stopped"}

(* A challenge for a registration is of the session it was given to.       *)
ChalSound(c) == LET x == chal[c] IN
  /\ x.state = "new" <=> x.purpose = "none"
  /\ x.purpose \in {"register", "nativeRegister"} =>
       /\ x.session \in Session /\ x.user = OwnerOf[x.session]
       /\ x.purpose = "nativeRegister" <=> x.session \in Native

HeldSound(h) == LET x == held[h] IN
  /\ x.state = "new" <=> x.first = "none"
  /\ x.state = "claimed" => x.attempts < HeldAttempts

(* What a request has on it.                                               *)
CeremonySound(w) == LET x == work[w] IN
  /\ x.kind = "none" => x = Passkeys!NoWork
  /\ x.kind # "none" => x.chal \in Chal /\ x.key \in Key /\ chal[x.chal].state # "new"
  /\ x.kind = "login" => x.pc \in Assertion \cup Ended \cup {"load", "hold", "held"}
  /\ x.kind = "second" => /\ x.held \in Held /\ held[x.held].state # "new"
                          /\ x.pc \in Assertion \cup Ended \cup {"account", "discard"}
  /\ x.kind = "register" => /\ x.session \in Session
                            /\ x.pc \in {"consume", "compare", "record"} \cup Ended
                            /\ x.pc # "issue"
  /\ x.kind # "second" => x.held = None
  /\ x.pc \in {"advance", "load", "hold"} => x.read.owner \in User
  /\ x.pc = "advance" => Passkeys!MovedForward(x.read.counter, x.n)

(* The challenge of a request that goes on is spent, and was by it alone.  *)
SpentSound(w) == work[w].pc \in Finding =>
  /\ chal[work[w].chal].state = "gone"
  /\ \A v \in Ceremony : v # w /\ work[v].pc \in Finding => work[v].chal # work[w].chal
  /\ \A i \in DOMAIN uses : uses[i].chal # work[w].chal
  /\ \A v \in made : work[v].chal # work[w].chal

UsedOnce ==
  /\ \A i \in DOMAIN uses : chal[uses[i].chal].state = "gone"
  /\ \A v \in made : /\ work[v].kind = "register" /\ work[v].pc = "done"
                     /\ chal[work[v].chal].state = "gone"
  /\ Passkeys!OneUsePerChallenge

(* A held sign-in that is being answered is claimed by one request, which  *)
(* removes it before it gets its session.                                  *)
ClaimedSound(w) == work[w].kind = "second" =>
  /\ work[w].pc \in Holding =>
       /\ held[work[w].held].state = "claimed"
       /\ \A v \in Ceremony : v # w /\ work[v].kind = "second" /\ work[v].pc \in Holding
            => work[v].held # work[w].held
  /\ work[w].pc = "issue" \/ w \in sessions =>
       /\ held[work[w].held].state = "gone"
       /\ \A v \in Ceremony : v # w /\ work[v].kind = "second"
                          /\ (work[v].pc = "issue" \/ v \in sessions)
            => work[v].held # work[w].held

AdmittedSound == \A w \in sessions :
  work[w].pc = "done" /\ work[w].kind \in {"login", "second"}

(* Who is let in has shown what it owes.                                   *)
Shown(w) == LET x == work[w] IN
  /\ \E i \in DOMAIN uses : uses[i].by = w
  /\ x.kind = "login" => (x.owed => x.uv)
  /\ x.kind = "second" => /\ x.read.owner = held[x.held].user
                          /\ x.uv \/ held[x.held].first = "password"

ShownWhereDue(w) ==
  /\ work[w].pc \in {"load", "hold"} => \E i \in DOMAIN uses : uses[i].by = w
  /\ work[w].pc \in {"discard", "issue"} \/ w \in sessions => Shown(w)

(* Which key an assertion and a request are about.                         *)
KeysMade ==
  /\ \A k \in Key : key[k].made \in made \cup {None}
  /\ \A w \in Ceremony : work[w].read.made \in made \cup {None}
  /\ \A i \in DOMAIN uses : uses[i].made \in made \cup {None}

(* No assertion was accepted with a counter ahead of its key's.            *)
CounterAhead ==
  \A i \in DOMAIN uses : LET k == key[uses[i].key] IN
    k.owner # None /\ k.made = uses[i].made => uses[i].n <= k.counter

(* A registration goes on in the session its challenge was given to.       *)
ProvedSound(w) == LET x == work[w]
                      c == chal[x.chal] IN
  /\ x.pc = "compare" => /\ c.purpose = Passkeys!PurposeOf(w)
                         /\ c.purpose = "nativeRegister" => c.session = x.session
  /\ x.pc = "record" \/ w \in made =>
       c.session = x.session /\ c.user = OwnerOf[x.session]

ChalsSound == \A c \in Chal : ChalSound(c)
HeldsSound == \A h \in Held : HeldSound(h)
CeremoniesSound == \A w \in Ceremony : CeremonySound(w)
SpentOnce == \A w \in Ceremony : SpentSound(w)
ClaimedOnce == \A w \in Ceremony : ClaimedSound(w)
ShownSound == \A w \in Ceremony : ShownWhereDue(w)
ProvedByAll == \A w \in Ceremony : ProvedSound(w)

PInv ==
  /\ PTyped /\ ChalsSound /\ HeldsSound /\ CeremoniesSound /\ SpentOnce /\ UsedOnce
  /\ ClaimedOnce /\ AdmittedSound /\ ShownSound /\ KeysMade /\ CounterAhead /\ ProvedByAll
  /\ Passkeys!CountersIncrease
USE DEF Passkeys!Goto, Passkeys!store, Passkeys!ghosts

LEMMA PcTyped ==
  ASSUME NEW w \in Ceremony, NEW p \in CeremonyPc, work \in [Ceremony -> CeremonyRow]
  PROVE  [work EXCEPT ![w].pc = p] \in [Ceremony -> CeremonyRow]
<1> DEFINE x == [work[w] EXCEPT !.pc = p]
<1>1. x \in CeremonyRow
  BY DEF CeremonyRow
<1>2. [work EXCEPT ![w].pc = p] = [work EXCEPT ![w] = x]
  OBVIOUS
<1> QED BY <1>1, <1>2

LEMMA CeremonyKinds ==
  ASSUME PInv, NEW w \in Ceremony
  PROVE  LET x == work[w] IN
         /\ x.kind = "none" => x = Passkeys!NoWork
         /\ x.pc # "idle" => /\ x.kind # "none" /\ x.chal \in Chal /\ x.key \in Key
                            /\ chal[x.chal].state # "new"
         /\ x.pc \in {"compare", "record"} => x.kind = "register" /\ x.session \in Session
         /\ x.pc \in {"load", "hold", "held"} => x.kind = "login"
         /\ x.pc \in {"account", "discard"} => x.kind = "second"
         /\ x.pc \in {"find", "advance", "issue"} => x.kind \in {"login", "second"}
         /\ x.kind = "second" => x.held \in Held /\ held[x.held].state # "new"
<1>1. work[w] \in CeremonyRow /\ CeremonySound(w)
  BY DEF PInv, PTyped, CeremoniesSound
<1>2. work[w].kind \in {"none", "login", "second", "register"}
        /\ work[w].pc \in CeremonyPc
  BY <1>1 DEF CeremonyRow
<1>3. work[w].kind = "none" => work[w] = Passkeys!NoWork /\ work[w].pc = "idle"
  BY <1>1 DEF CeremonySound, Passkeys!NoWork
<1> QED BY <1>1, <1>2, <1>3 DEF CeremonySound, Assertion, Ended

LEMMA CeremonyTypedStep ==
  ASSUME Passkeys!CeremonyAssumption, PInv, [Passkeys!Next]_Passkeys!vars
  PROVE  work' \in [Ceremony -> CeremonyRow]
<1>a. work \in [Ceremony -> CeremonyRow] /\ key \in [Key -> KeyRow]
  BY DEF PInv, PTyped
<1>b. \A w \in Ceremony : CeremonySound(w)
  BY DEF PInv, CeremoniesSound
<1>0. CASE UNCHANGED Passkeys!vars
  BY <1>0, <1>a DEF Passkeys!vars
<1> DEFINE Goal == work' \in [Ceremony -> CeremonyRow]
<1>1. ASSUME NEW w \in Ceremony, Passkeys!Consume(w)
      PROVE  Goal
  <2>1. \E p \in CeremonyPc : work' = [work EXCEPT ![w].pc = p]
    BY <1>1 DEF Passkeys!Consume, CeremonyPc
  <2> QED BY <2>1, <1>a, PcTyped
<1>2. ASSUME NEW w \in Ceremony, Passkeys!FindChallengedAccount(w)
      PROVE  Goal
  <2>1. \E p \in CeremonyPc : work' = [work EXCEPT ![w].pc = p]
    BY <1>2 DEF Passkeys!FindChallengedAccount, CeremonyPc
  <2> QED BY <2>1, <1>a, PcTyped
<1>3. ASSUME NEW w \in Ceremony, Passkeys!FindByCredentialId(w)
      PROVE  Goal
  <2>1. \E p \in {"advance", "failed"} :
          work' = [work EXCEPT ![w].read = key[work[w].key], ![w].pc = p]
    BY <1>3 DEF Passkeys!FindByCredentialId
  <2>2. PICK p \in {"advance", "failed"} :
          work' = [work EXCEPT ![w].read = key[work[w].key], ![w].pc = p]
    BY <2>1
  <2> DEFINE x == [work[w] EXCEPT !.read = key[work[w].key], !.pc = p]
  <2>3. work[w] \in CeremonyRow /\ key[work[w].key] \in KeyRow
    BY <1>3, <1>a, <1>b DEF CeremonySound, Passkeys!FindByCredentialId, Passkeys!NoWork
  <2>4. x \in CeremonyRow
    BY <2>3 DEF CeremonyRow, CeremonyPc
  <2>5. work' = [work EXCEPT ![w] = x]
    BY <2>2, <1>a
  <2> HIDE DEF x
  <2> QED BY <2>4, <2>5, <1>a
<1>4. ASSUME NEW w \in Ceremony, Passkeys!Advance(w)
      PROVE  Goal
  <2>1. \E p \in CeremonyPc : work' = [work EXCEPT ![w].pc = p]
    BY <1>4 DEF Passkeys!Advance, CeremonyPc
  <2> QED BY <2>1, <1>a, PcTyped
<1>5. ASSUME NEW w \in Ceremony, Passkeys!FindAccount(w)
      PROVE  Goal
  <2>1. \E p \in {"refused", "issue", "hold"}, b \in BOOLEAN :
          work' = [work EXCEPT ![w].owed = b, ![w].pc = p]
    <3> DEFINE b == work[w].read.owner \in factor
    <3>1. b \in BOOLEAN
      OBVIOUS
    <3> QED BY <3>1, <1>5 DEF Passkeys!FindAccount
  <2>2. PICK p \in {"refused", "issue", "hold"}, b \in BOOLEAN :
          work' = [work EXCEPT ![w].owed = b, ![w].pc = p]
    BY <2>1
  <2> DEFINE x == [work[w] EXCEPT !.owed = b, !.pc = p]
  <2>3. x \in CeremonyRow
    BY ZenonT(60), <1>a DEF CeremonyRow, CeremonyPc
  <2>4. work' = [work EXCEPT ![w] = x]
    BY <2>2, <1>a
  <2> HIDE DEF x
  <2> QED BY <2>3, <2>4, <1>a
<1>6. ASSUME NEW w \in Ceremony, Passkeys!Discard(w)
      PROVE  Goal
  <2>1. \E p \in CeremonyPc : work' = [work EXCEPT ![w].pc = p]
    BY <1>6 DEF Passkeys!Discard, CeremonyPc
  <2> QED BY <2>1, <1>a, PcTyped
<1>7. ASSUME NEW w \in Ceremony, Passkeys!IssueSession(w)
      PROVE  Goal
  <2>1. \E p \in CeremonyPc : work' = [work EXCEPT ![w].pc = p]
    BY <1>7 DEF Passkeys!IssueSession, CeremonyPc
  <2> QED BY <2>1, <1>a, PcTyped
<1>8. ASSUME NEW w \in Ceremony, Passkeys!RegisterFailure(w)
      PROVE  Goal
  <2>1. \E p \in CeremonyPc : work' = [work EXCEPT ![w].pc = p]
    BY <1>8 DEF Passkeys!RegisterFailure, CeremonyPc
  <2> QED BY <2>1, <1>a, PcTyped
<1>9. ASSUME NEW w \in Ceremony, Passkeys!Compare(w)
      PROVE  Goal
  <2>1. \E p \in CeremonyPc : work' = [work EXCEPT ![w].pc = p]
    BY <1>9 DEF Passkeys!Compare, CeremonyPc
  <2> QED BY <2>1, <1>a, PcTyped
<1>10. ASSUME NEW w \in Ceremony, Passkeys!Record(w)
      PROVE  Goal
  <2>1. \E p \in CeremonyPc : work' = [work EXCEPT ![w].pc = p]
    BY <1>10 DEF Passkeys!Record, CeremonyPc
  <2> QED BY <2>1, <1>a, PcTyped
<1>11. ASSUME NEW w \in Ceremony, Passkeys!Stop(w)
      PROVE  Goal
  <2>1. \E p \in CeremonyPc : work' = [work EXCEPT ![w].pc = p]
    BY <1>11 DEF Passkeys!Stop, CeremonyPc
  <2> QED BY <2>1, <1>a, PcTyped
<1>12. ASSUME NEW w \in Ceremony, NEW h \in Held, Passkeys!Hold(w, h)
      PROVE  Goal
  <2>1. \E p \in CeremonyPc : work' = [work EXCEPT ![w].pc = p]
    BY <1>12 DEF Passkeys!Hold, CeremonyPc
  <2> QED BY <2>1, <1>a, PcTyped
<1>13. ASSUME NEW w \in Ceremony, NEW c \in Chal, NEW k \in Key, NEW n \in 0..MaxCounter,
             NEW uv \in Verifies, Passkeys!Present(w, c, k, n, uv)
      PROVE  Goal
  <2> DEFINE x == [work[w] EXCEPT !.kind = "login", !.pc = "consume", !.chal = c,
               !.key = k, !.n = n,
                                !.uv = uv]
  <2>0. work[w] \in CeremonyRow
    BY <1>a
  <2>1. x \in CeremonyRow
    BY <2>0 DEF CeremonyRow, CeremonyPc, Passkeys!CeremonyAssumption
  <2>2. work' = [work EXCEPT ![w] = x]
    BY <1>13 DEF Passkeys!Present
  <2> HIDE DEF x
  <2> QED BY <2>1, <2>2, <1>a
<1>14. ASSUME NEW w \in Ceremony, NEW c \in Chal, NEW k \in Key, NEW n \in 0..MaxCounter,
             NEW uv \in Verifies, NEW h \in Held,
             Passkeys!Answer(w, h, c, k, n, uv)
      PROVE  Goal
  <2> DEFINE x == [work[w] EXCEPT !.kind = "second", !.pc = "account", !.chal = c,
               !.key = k, !.n = n,
                                !.uv = uv, !.held = h]
  <2>0. work[w] \in CeremonyRow
    BY <1>a
  <2>1. x \in CeremonyRow
    BY <2>0 DEF CeremonyRow, CeremonyPc, Passkeys!CeremonyAssumption
  <2>2. work' = [work EXCEPT ![w] = x]
    BY <1>14 DEF Passkeys!Answer
  <2> HIDE DEF x
  <2> QED BY <2>1, <2>2, <1>a
<1>15. ASSUME NEW w \in Ceremony, NEW c \in Chal, NEW k \in Key, NEW n \in 0..MaxCounter,
             NEW s \in Session, Passkeys!Attest(w, s, c, k, n)
      PROVE  Goal
  <2> DEFINE x == [work[w] EXCEPT !.kind = "register", !.pc = "consume", !.chal = c,
               !.key = k, !.n = n,
                                !.session = s]
  <2>0. work[w] \in CeremonyRow
    BY <1>a
  <2>1. x \in CeremonyRow
    BY <2>0 DEF CeremonyRow, CeremonyPc, Passkeys!CeremonyAssumption
  <2>2. work' = [work EXCEPT ![w] = x]
    BY <1>15 DEF Passkeys!Attest
  <2> HIDE DEF x
  <2> QED BY <2>1, <2>2, <1>a
<1>16. ASSUME NEW c \in Chal, Passkeys!LoginOptions(c)
      PROVE  Goal
  BY <1>16, <1>a DEF Passkeys!LoginOptions
<1>17. ASSUME NEW c \in Chal, NEW s \in Session, Passkeys!RegistrationOptions(c, s)
      PROVE  Goal
  BY <1>17, <1>a DEF Passkeys!RegistrationOptions
<1>18. ASSUME NEW h \in Held, NEW u \in User, Passkeys!HoldOther(h, u)
      PROVE  Goal
  BY <1>18, <1>a DEF Passkeys!HoldOther
<1>19. ASSUME NEW k \in Key, Passkeys!Remove(k)
      PROVE  Goal
  BY <1>19, <1>a DEF Passkeys!Remove
<1>20. ASSUME NEW u \in User, Passkeys!Deactivate(u)
      PROVE  Goal
  BY <1>20, <1>a DEF Passkeys!Deactivate
<1>21. ASSUME NEW u \in User, Passkeys!TurnFactorOn(u)
      PROVE  Goal
  BY <1>21, <1>a DEF Passkeys!TurnFactorOn
<1>22. ASSUME Passkeys!Tick
      PROVE  Goal
  BY <1>22, <1>a DEF Passkeys!Tick
<1> QED
  BY <1>0, <1>1, <1>2, <1>3, <1>4, <1>5, <1>6, <1>7, <1>8, <1>9, <1>10, <1>11, <1>12,
      <1>13, <1>14, <1>15, <1>16, <1>17, <1>18, <1>19, <1>20, <1>21, <1>22 DEF
      Passkeys!Next

LEMMA ChalTypedStep ==
  ASSUME Passkeys!CeremonyAssumption, PInv, [Passkeys!Next]_Passkeys!vars
  PROVE  chal' \in [Chal -> ChalRow] /\ now' \in 0..EndTime
<1>a. chal \in [Chal -> ChalRow] /\ now \in 0..EndTime
  BY DEF PInv, PTyped
<1>b. \A w \in Ceremony : CeremonySound(w)
  BY DEF PInv, CeremoniesSound
<1>0. CASE UNCHANGED Passkeys!vars
  BY <1>0, <1>a DEF Passkeys!vars, ChalRow, Passkeys!CeremonyAssumption
<1> DEFINE Goal == chal' \in [Chal -> ChalRow] /\ now' \in 0..EndTime
<1>1. ASSUME NEW w \in Ceremony, Passkeys!Consume(w)
      PROVE  Goal
  <2>1. chal' = chal \/ chal' = [chal EXCEPT ![work[w].chal].state = "gone"]
    BY <1>1 DEF Passkeys!Consume, Passkeys!SpendChallenge
  <2>2. now' = now
    BY <1>1 DEF Passkeys!Consume
  <2> QED BY <2>1, <2>2, <1>a DEF ChalRow
<1>2. ASSUME NEW w \in Ceremony, Passkeys!FindChallengedAccount(w)
      PROVE  Goal
  BY <1>2, <1>a DEF Passkeys!FindChallengedAccount, ChalRow, Passkeys!CeremonyAssumption
<1>3. ASSUME NEW w \in Ceremony, Passkeys!FindByCredentialId(w)
      PROVE  Goal
  BY <1>3, <1>a DEF Passkeys!FindByCredentialId, ChalRow, Passkeys!CeremonyAssumption
<1>4. ASSUME NEW w \in Ceremony, Passkeys!Advance(w)
      PROVE  Goal
  BY <1>4, <1>a DEF Passkeys!Advance, ChalRow, Passkeys!CeremonyAssumption
<1>5. ASSUME NEW w \in Ceremony, Passkeys!FindAccount(w)
      PROVE  Goal
  BY <1>5, <1>a DEF Passkeys!FindAccount, ChalRow, Passkeys!CeremonyAssumption
<1>6. ASSUME NEW w \in Ceremony, Passkeys!Discard(w)
      PROVE  Goal
  BY <1>6, <1>a DEF Passkeys!Discard, ChalRow, Passkeys!CeremonyAssumption
<1>7. ASSUME NEW w \in Ceremony, Passkeys!IssueSession(w)
      PROVE  Goal
  BY <1>7, <1>a DEF Passkeys!IssueSession, ChalRow, Passkeys!CeremonyAssumption
<1>8. ASSUME NEW w \in Ceremony, Passkeys!RegisterFailure(w)
      PROVE  Goal
  BY <1>8, <1>a DEF Passkeys!RegisterFailure, ChalRow, Passkeys!CeremonyAssumption
<1>9. ASSUME NEW w \in Ceremony, Passkeys!Compare(w)
      PROVE  Goal
  BY <1>9, <1>a DEF Passkeys!Compare, ChalRow, Passkeys!CeremonyAssumption
<1>10. ASSUME NEW w \in Ceremony, Passkeys!Record(w)
      PROVE  Goal
  BY <1>10, <1>a DEF Passkeys!Record, ChalRow, Passkeys!CeremonyAssumption
<1>11. ASSUME NEW w \in Ceremony, Passkeys!Stop(w)
      PROVE  Goal
  BY <1>11, <1>a DEF Passkeys!Stop, ChalRow, Passkeys!CeremonyAssumption
<1>12. ASSUME NEW w \in Ceremony, NEW h \in Held, Passkeys!Hold(w, h)
      PROVE  Goal
  BY <1>12, <1>a DEF Passkeys!Hold, ChalRow, Passkeys!CeremonyAssumption
<1>13. ASSUME NEW w \in Ceremony, NEW c \in Chal, NEW k \in Key, NEW n \in 0..MaxCounter,
             NEW uv \in Verifies, Passkeys!Present(w, c, k, n, uv)
      PROVE  Goal
  BY <1>13, <1>a DEF Passkeys!Present, ChalRow, Passkeys!CeremonyAssumption
<1>14. ASSUME NEW w \in Ceremony, NEW c \in Chal, NEW k \in Key, NEW n \in 0..MaxCounter,
             NEW uv \in Verifies, NEW h \in Held,
             Passkeys!Answer(w, h, c, k, n, uv)
      PROVE  Goal
  BY <1>14, <1>a DEF Passkeys!Answer, ChalRow, Passkeys!CeremonyAssumption
<1>15. ASSUME NEW w \in Ceremony, NEW c \in Chal, NEW k \in Key, NEW n \in 0..MaxCounter,
             NEW s \in Session, Passkeys!Attest(w, s, c, k, n)
      PROVE  Goal
  BY <1>15, <1>a DEF Passkeys!Attest, ChalRow, Passkeys!CeremonyAssumption
<1>16. ASSUME NEW c \in Chal, Passkeys!LoginOptions(c)
      PROVE  Goal
  BY <1>16, <1>a DEF Passkeys!LoginOptions, ChalRow, Passkeys!CeremonyAssumption,
      Passkeys!Issued
<1>17. ASSUME NEW c \in Chal, NEW s \in Session, Passkeys!RegistrationOptions(c, s)
      PROVE  Goal
  BY <1>17, <1>a DEF Passkeys!RegistrationOptions, ChalRow, Passkeys!CeremonyAssumption,
      Passkeys!Issued
<1>18. ASSUME NEW h \in Held, NEW u \in User, Passkeys!HoldOther(h, u)
      PROVE  Goal
  BY <1>18, <1>a DEF Passkeys!HoldOther, ChalRow, Passkeys!CeremonyAssumption
<1>19. ASSUME NEW k \in Key, Passkeys!Remove(k)
      PROVE  Goal
  BY <1>19, <1>a DEF Passkeys!Remove, ChalRow, Passkeys!CeremonyAssumption
<1>20. ASSUME NEW u \in User, Passkeys!Deactivate(u)
      PROVE  Goal
  BY <1>20, <1>a DEF Passkeys!Deactivate, ChalRow, Passkeys!CeremonyAssumption
<1>21. ASSUME NEW u \in User, Passkeys!TurnFactorOn(u)
      PROVE  Goal
  BY <1>21, <1>a DEF Passkeys!TurnFactorOn, ChalRow, Passkeys!CeremonyAssumption
<1>22. ASSUME Passkeys!Tick
      PROVE  Goal
  BY <1>22, <1>a DEF Passkeys!Tick, ChalRow, Passkeys!CeremonyAssumption
<1> QED
  BY <1>0, <1>1, <1>2, <1>3, <1>4, <1>5, <1>6, <1>7, <1>8, <1>9, <1>10, <1>11, <1>12,
      <1>13, <1>14, <1>15, <1>16, <1>17, <1>18, <1>19, <1>20, <1>21, <1>22 DEF
      Passkeys!Next

LEMMA KeyTypedStep ==
  ASSUME Passkeys!CeremonyAssumption, PInv, [Passkeys!Next]_Passkeys!vars
  PROVE  key' \in [Key -> KeyRow]
<1>a. key \in [Key -> KeyRow] /\ work \in [Ceremony -> CeremonyRow]
  BY DEF PInv, PTyped
<1>b. \A w \in Ceremony : CeremonySound(w)
  BY DEF PInv, CeremoniesSound
<1>0. CASE UNCHANGED Passkeys!vars
  BY <1>0, <1>a DEF Passkeys!vars
<1> DEFINE Goal == key' \in [Key -> KeyRow]
<1>1. ASSUME NEW w \in Ceremony, Passkeys!Consume(w)
      PROVE  Goal
  BY <1>1, <1>a DEF Passkeys!Consume
<1>2. ASSUME NEW w \in Ceremony, Passkeys!FindChallengedAccount(w)
      PROVE  Goal
  BY <1>2, <1>a DEF Passkeys!FindChallengedAccount
<1>3. ASSUME NEW w \in Ceremony, Passkeys!FindByCredentialId(w)
      PROVE  Goal
  BY <1>3, <1>a DEF Passkeys!FindByCredentialId
<1>4. ASSUME NEW w \in Ceremony, Passkeys!Advance(w)
      PROVE  Goal
  <2>1. key' = key \/ key' = [key EXCEPT ![work[w].key].counter = work[w].n]
    BY <1>4 DEF Passkeys!Advance
  <2>2. work[w].n \in 0..MaxCounter
    BY <1>a DEF CeremonyRow
  <2> QED BY <2>1, <2>2, <1>a DEF KeyRow
<1>5. ASSUME NEW w \in Ceremony, Passkeys!FindAccount(w)
      PROVE  Goal
  BY <1>5, <1>a DEF Passkeys!FindAccount
<1>6. ASSUME NEW w \in Ceremony, Passkeys!Discard(w)
      PROVE  Goal
  BY <1>6, <1>a DEF Passkeys!Discard
<1>7. ASSUME NEW w \in Ceremony, Passkeys!IssueSession(w)
      PROVE  Goal
  BY <1>7, <1>a DEF Passkeys!IssueSession
<1>8. ASSUME NEW w \in Ceremony, Passkeys!RegisterFailure(w)
      PROVE  Goal
  BY <1>8, <1>a DEF Passkeys!RegisterFailure
<1>9. ASSUME NEW w \in Ceremony, Passkeys!Compare(w)
      PROVE  Goal
  BY <1>9, <1>a DEF Passkeys!Compare
<1>10. ASSUME NEW w \in Ceremony, Passkeys!Record(w)
      PROVE  Goal
  <2> DEFINE x == [owner |-> OwnerOf[work[w].session], counter |-> work[w].n,
                   web |-> work[w].session \notin Native, made |-> w]
  <2>1. key' = key \/ key' = [key EXCEPT ![work[w].key] = x]
    BY <1>10 DEF Passkeys!Record
  <2>2. work[w].n \in 0..MaxCounter
    BY <1>a DEF CeremonyRow
  <2>3. work[w].session \in Session
    BY <1>10, CeremonyKinds DEF Passkeys!Record
  <2>4. OwnerOf[work[w].session] \in User
    BY <2>3 DEF Passkeys!CeremonyAssumption
  <2>5. x \in KeyRow
    BY <2>2, <2>4 DEF KeyRow
  <2> HIDE DEF x
  <2> QED BY <2>1, <2>5, <1>a
<1>11. ASSUME NEW w \in Ceremony, Passkeys!Stop(w)
      PROVE  Goal
  BY <1>11, <1>a DEF Passkeys!Stop
<1>12. ASSUME NEW w \in Ceremony, NEW h \in Held, Passkeys!Hold(w, h)
      PROVE  Goal
  BY <1>12, <1>a DEF Passkeys!Hold
<1>13. ASSUME NEW w \in Ceremony, NEW c \in Chal, NEW k \in Key, NEW n \in 0..MaxCounter,
             NEW uv \in Verifies, Passkeys!Present(w, c, k, n, uv)
      PROVE  Goal
  BY <1>13, <1>a DEF Passkeys!Present
<1>14. ASSUME NEW w \in Ceremony, NEW c \in Chal, NEW k \in Key, NEW n \in 0..MaxCounter,
             NEW uv \in Verifies, NEW h \in Held,
             Passkeys!Answer(w, h, c, k, n, uv)
      PROVE  Goal
  BY <1>14, <1>a DEF Passkeys!Answer
<1>15. ASSUME NEW w \in Ceremony, NEW c \in Chal, NEW k \in Key, NEW n \in 0..MaxCounter,
             NEW s \in Session, Passkeys!Attest(w, s, c, k, n)
      PROVE  Goal
  BY <1>15, <1>a DEF Passkeys!Attest
<1>16. ASSUME NEW c \in Chal, Passkeys!LoginOptions(c)
      PROVE  Goal
  BY <1>16, <1>a DEF Passkeys!LoginOptions
<1>17. ASSUME NEW c \in Chal, NEW s \in Session, Passkeys!RegistrationOptions(c, s)
      PROVE  Goal
  BY <1>17, <1>a DEF Passkeys!RegistrationOptions
<1>18. ASSUME NEW h \in Held, NEW u \in User, Passkeys!HoldOther(h, u)
      PROVE  Goal
  BY <1>18, <1>a DEF Passkeys!HoldOther
<1>19. ASSUME NEW k \in Key, Passkeys!Remove(k)
      PROVE  Goal
  <2>1. Passkeys!NoKey \in KeyRow
    BY DEF KeyRow, Passkeys!NoKey, Passkeys!CeremonyAssumption
  <2> QED BY <1>19, <2>1, <1>a DEF Passkeys!Remove
<1>20. ASSUME NEW u \in User, Passkeys!Deactivate(u)
      PROVE  Goal
  BY <1>20, <1>a DEF Passkeys!Deactivate
<1>21. ASSUME NEW u \in User, Passkeys!TurnFactorOn(u)
      PROVE  Goal
  BY <1>21, <1>a DEF Passkeys!TurnFactorOn
<1>22. ASSUME Passkeys!Tick
      PROVE  Goal
  BY <1>22, <1>a DEF Passkeys!Tick
<1> QED
  BY <1>0, <1>1, <1>2, <1>3, <1>4, <1>5, <1>6, <1>7, <1>8, <1>9, <1>10, <1>11, <1>12,
      <1>13, <1>14, <1>15, <1>16, <1>17, <1>18, <1>19, <1>20, <1>21, <1>22 DEF
      Passkeys!Next

LEMMA HoldsTypedStep ==
  ASSUME Passkeys!CeremonyAssumption, PInv, [Passkeys!Next]_Passkeys!vars
  PROVE  held' \in [Held -> HeldRow]
<1>a. held \in [Held -> HeldRow] /\ work \in [Ceremony -> CeremonyRow]
  BY DEF PInv, PTyped
<1>b. \A w \in Ceremony : CeremonySound(w) /\ ClaimedSound(w)
  BY DEF PInv, CeremoniesSound, ClaimedOnce
<1>c. \A h \in Held : HeldSound(h)
  BY DEF PInv, HeldsSound
<1>d. \A u \in User, f \in {"passkey", "password"} :
        [Passkeys!NoHeld EXCEPT !.state = "open", !.first = f, !.user = u] \in HeldRow
  <2>1. 0 \in 0..HeldAttempts
    BY DEF Passkeys!CeremonyAssumption
  <2> QED BY <2>1 DEF HeldRow, Passkeys!NoHeld
<1>0. CASE UNCHANGED Passkeys!vars
  BY <1>0, <1>a DEF Passkeys!vars
<1> DEFINE Goal == held' \in [Held -> HeldRow]
<1>1. ASSUME NEW w \in Ceremony, Passkeys!Consume(w)
      PROVE  Goal
  BY <1>1, <1>a DEF Passkeys!Consume
<1>2. ASSUME NEW w \in Ceremony, Passkeys!FindChallengedAccount(w)
      PROVE  Goal
  <2>1. held' = held \/ held' = [held EXCEPT ![work[w].held].state = "gone"]
    BY <1>2 DEF Passkeys!FindChallengedAccount
  <2> QED BY <2>1, <1>a DEF HeldRow
<1>3. ASSUME NEW w \in Ceremony, Passkeys!FindByCredentialId(w)
      PROVE  Goal
  BY <1>3, <1>a DEF Passkeys!FindByCredentialId
<1>4. ASSUME NEW w \in Ceremony, Passkeys!Advance(w)
      PROVE  Goal
  BY <1>4, <1>a DEF Passkeys!Advance
<1>5. ASSUME NEW w \in Ceremony, Passkeys!FindAccount(w)
      PROVE  Goal
  BY <1>5, <1>a DEF Passkeys!FindAccount
<1>6. ASSUME NEW w \in Ceremony, Passkeys!Discard(w)
      PROVE  Goal
  <2> QED BY <1>6, <1>a DEF Passkeys!Discard, HeldRow
<1>7. ASSUME NEW w \in Ceremony, Passkeys!IssueSession(w)
      PROVE  Goal
  BY <1>7, <1>a DEF Passkeys!IssueSession
<1>8. ASSUME NEW w \in Ceremony, Passkeys!RegisterFailure(w)
      PROVE  Goal
  <2> DEFINE h == work[w].held
  <2>1. CASE work[w].kind = "second"
    <3>1. h \in Held /\ held[h] \in HeldRow /\ held[h].state = "claimed"
      BY <1>8, <2>1, <1>a, <1>b
         DEF Passkeys!RegisterFailure, CeremonySound, ClaimedSound, Holding
    <3>2. held[h].attempts + 1 \in 0..HeldAttempts
      BY <3>1, <1>c DEF HeldRow, HeldSound, Passkeys!CeremonyAssumption
    <3>3. \E p \in {"gone", "open"} :
            held' = [held EXCEPT ![h].attempts = held[h].attempts + 1, ![h].state = p]
      BY <1>8, <2>1, <3>1 DEF Passkeys!RegisterFailure
    <3>4. PICK p \in {"gone", "open"} :
            held' = [held EXCEPT ![h].attempts = held[h].attempts + 1, ![h].state = p]
      BY <3>3
    <3> DEFINE x == [held[h] EXCEPT !.attempts = held[h].attempts + 1, !.state = p]
    <3>5. x \in HeldRow
      BY <3>1, <3>2 DEF HeldRow
    <3>6. held' = [held EXCEPT ![h] = x]
      BY <3>1, <3>4, <1>a
    <3> HIDE DEF x
    <3> QED BY <3>5, <3>6, <1>a
  <2>2. CASE work[w].kind # "second"
    BY <1>8, <2>2, <1>a DEF Passkeys!RegisterFailure
  <2> QED BY <2>1, <2>2
<1>9. ASSUME NEW w \in Ceremony, Passkeys!Compare(w)
      PROVE  Goal
  BY <1>9, <1>a DEF Passkeys!Compare
<1>10. ASSUME NEW w \in Ceremony, Passkeys!Record(w)
      PROVE  Goal
  BY <1>10, <1>a DEF Passkeys!Record
<1>11. ASSUME NEW w \in Ceremony, Passkeys!Stop(w)
      PROVE  Goal
  BY <1>11, <1>a DEF Passkeys!Stop
<1>12. ASSUME NEW w \in Ceremony, NEW h \in Held, Passkeys!Hold(w, h)
      PROVE  Goal
  <2>1. work[w].read.owner \in User
    BY <1>12, <1>b DEF Passkeys!Hold, CeremonySound
  <2> QED BY <1>12, <2>1, <1>a, <1>d DEF Passkeys!Hold
<1>13. ASSUME NEW w \in Ceremony, NEW c \in Chal, NEW k \in Key, NEW n \in 0..MaxCounter,
             NEW uv \in Verifies, Passkeys!Present(w, c, k, n, uv)
      PROVE  Goal
  BY <1>13, <1>a DEF Passkeys!Present
<1>14. ASSUME NEW w \in Ceremony, NEW c \in Chal, NEW k \in Key, NEW n \in 0..MaxCounter,
             NEW uv \in Verifies, NEW h \in Held,
             Passkeys!Answer(w, h, c, k, n, uv)
      PROVE  Goal
  <2> QED BY <1>14, <1>a DEF Passkeys!Answer, HeldRow
<1>15. ASSUME NEW w \in Ceremony, NEW c \in Chal, NEW k \in Key, NEW n \in 0..MaxCounter,
             NEW s \in Session, Passkeys!Attest(w, s, c, k, n)
      PROVE  Goal
  BY <1>15, <1>a DEF Passkeys!Attest
<1>16. ASSUME NEW c \in Chal, Passkeys!LoginOptions(c)
      PROVE  Goal
  BY <1>16, <1>a DEF Passkeys!LoginOptions
<1>17. ASSUME NEW c \in Chal, NEW s \in Session, Passkeys!RegistrationOptions(c, s)
      PROVE  Goal
  BY <1>17, <1>a DEF Passkeys!RegistrationOptions
<1>18. ASSUME NEW h \in Held, NEW u \in User, Passkeys!HoldOther(h, u)
      PROVE  Goal
  <2> QED BY <1>18, <1>a, <1>d DEF Passkeys!HoldOther
<1>19. ASSUME NEW k \in Key, Passkeys!Remove(k)
      PROVE  Goal
  BY <1>19, <1>a DEF Passkeys!Remove
<1>20. ASSUME NEW u \in User, Passkeys!Deactivate(u)
      PROVE  Goal
  BY <1>20, <1>a DEF Passkeys!Deactivate
<1>21. ASSUME NEW u \in User, Passkeys!TurnFactorOn(u)
      PROVE  Goal
  BY <1>21, <1>a DEF Passkeys!TurnFactorOn
<1>22. ASSUME Passkeys!Tick
      PROVE  Goal
  BY <1>22, <1>a DEF Passkeys!Tick
<1> QED
  BY <1>0, <1>1, <1>2, <1>3, <1>4, <1>5, <1>6, <1>7, <1>8, <1>9, <1>10, <1>11, <1>12,
      <1>13, <1>14, <1>15, <1>16, <1>17, <1>18, <1>19, <1>20, <1>21, <1>22 DEF
      Passkeys!Next

LEMMA UseTypedStep ==
  ASSUME Passkeys!CeremonyAssumption, PInv, [Passkeys!Next]_Passkeys!vars
  PROVE  uses' \in Seq(UseRow)
<1>a. uses \in Seq(UseRow) /\ work \in [Ceremony -> CeremonyRow]
  BY DEF PInv, PTyped
<1>b. \A w \in Ceremony : CeremonySound(w)
  BY DEF PInv, CeremoniesSound
<1>0. CASE UNCHANGED Passkeys!vars
  BY <1>0, <1>a DEF Passkeys!vars
<1> DEFINE Goal == uses' \in Seq(UseRow)
<1>1. ASSUME NEW w \in Ceremony, Passkeys!Consume(w)
      PROVE  Goal
  BY <1>1, <1>a DEF Passkeys!Consume
<1>2. ASSUME NEW w \in Ceremony, Passkeys!FindChallengedAccount(w)
      PROVE  Goal
  BY <1>2, <1>a DEF Passkeys!FindChallengedAccount
<1>3. ASSUME NEW w \in Ceremony, Passkeys!FindByCredentialId(w)
      PROVE  Goal
  BY <1>3, <1>a DEF Passkeys!FindByCredentialId
<1>4. ASSUME NEW w \in Ceremony, Passkeys!Advance(w)
      PROVE  Goal
  <2> DEFINE x == [by |-> w, chal |-> work[w].chal, key |-> work[w].key,
                   made |-> work[w].read.made, n |-> work[w].n]
  <2>1. uses' = uses \/ uses' = Append(uses, x)
    BY <1>4 DEF Passkeys!Advance
  <2>2. work[w].chal \in Chal /\ work[w].key \in Key
    BY <1>4, <1>b DEF Passkeys!Advance, CeremonySound, Passkeys!NoWork
  <2>3. work[w].n \in 0..MaxCounter /\ work[w].read \in KeyRow
    BY <1>a DEF CeremonyRow
  <2>4. work[w].read.made \in Ceremony \cup {None}
    BY <2>3 DEF KeyRow
  <2>5. x \in UseRow
    BY <2>2, <2>3, <2>4 DEF UseRow
  <2> HIDE DEF x
  <2> QED BY <2>1, <2>5, <1>a
<1>5. ASSUME NEW w \in Ceremony, Passkeys!FindAccount(w)
      PROVE  Goal
  BY <1>5, <1>a DEF Passkeys!FindAccount
<1>6. ASSUME NEW w \in Ceremony, Passkeys!Discard(w)
      PROVE  Goal
  BY <1>6, <1>a DEF Passkeys!Discard
<1>7. ASSUME NEW w \in Ceremony, Passkeys!IssueSession(w)
      PROVE  Goal
  BY <1>7, <1>a DEF Passkeys!IssueSession
<1>8. ASSUME NEW w \in Ceremony, Passkeys!RegisterFailure(w)
      PROVE  Goal
  BY <1>8, <1>a DEF Passkeys!RegisterFailure
<1>9. ASSUME NEW w \in Ceremony, Passkeys!Compare(w)
      PROVE  Goal
  BY <1>9, <1>a DEF Passkeys!Compare
<1>10. ASSUME NEW w \in Ceremony, Passkeys!Record(w)
      PROVE  Goal
  BY <1>10, <1>a DEF Passkeys!Record
<1>11. ASSUME NEW w \in Ceremony, Passkeys!Stop(w)
      PROVE  Goal
  BY <1>11, <1>a DEF Passkeys!Stop
<1>12. ASSUME NEW w \in Ceremony, NEW h \in Held, Passkeys!Hold(w, h)
      PROVE  Goal
  BY <1>12, <1>a DEF Passkeys!Hold
<1>13. ASSUME NEW w \in Ceremony, NEW c \in Chal, NEW k \in Key, NEW n \in 0..MaxCounter,
             NEW uv \in Verifies, Passkeys!Present(w, c, k, n, uv)
      PROVE  Goal
  BY <1>13, <1>a DEF Passkeys!Present
<1>14. ASSUME NEW w \in Ceremony, NEW c \in Chal, NEW k \in Key, NEW n \in 0..MaxCounter,
             NEW uv \in Verifies, NEW h \in Held,
             Passkeys!Answer(w, h, c, k, n, uv)
      PROVE  Goal
  BY <1>14, <1>a DEF Passkeys!Answer
<1>15. ASSUME NEW w \in Ceremony, NEW c \in Chal, NEW k \in Key, NEW n \in 0..MaxCounter,
             NEW s \in Session, Passkeys!Attest(w, s, c, k, n)
      PROVE  Goal
  BY <1>15, <1>a DEF Passkeys!Attest
<1>16. ASSUME NEW c \in Chal, Passkeys!LoginOptions(c)
      PROVE  Goal
  BY <1>16, <1>a DEF Passkeys!LoginOptions
<1>17. ASSUME NEW c \in Chal, NEW s \in Session, Passkeys!RegistrationOptions(c, s)
      PROVE  Goal
  BY <1>17, <1>a DEF Passkeys!RegistrationOptions
<1>18. ASSUME NEW h \in Held, NEW u \in User, Passkeys!HoldOther(h, u)
      PROVE  Goal
  BY <1>18, <1>a DEF Passkeys!HoldOther
<1>19. ASSUME NEW k \in Key, Passkeys!Remove(k)
      PROVE  Goal
  BY <1>19, <1>a DEF Passkeys!Remove
<1>20. ASSUME NEW u \in User, Passkeys!Deactivate(u)
      PROVE  Goal
  BY <1>20, <1>a DEF Passkeys!Deactivate
<1>21. ASSUME NEW u \in User, Passkeys!TurnFactorOn(u)
      PROVE  Goal
  BY <1>21, <1>a DEF Passkeys!TurnFactorOn
<1>22. ASSUME Passkeys!Tick
      PROVE  Goal
  BY <1>22, <1>a DEF Passkeys!Tick
<1> QED
  BY <1>0, <1>1, <1>2, <1>3, <1>4, <1>5, <1>6, <1>7, <1>8, <1>9, <1>10, <1>11, <1>12,
      <1>13, <1>14, <1>15, <1>16, <1>17, <1>18, <1>19, <1>20, <1>21, <1>22 DEF
      Passkeys!Next

LEMMA FactsTypedStep ==
  ASSUME Passkeys!CeremonyAssumption, PInv, [Passkeys!Next]_Passkeys!vars
  PROVE  /\ active' \subseteq User /\ factor' \subseteq User
         /\ made' \subseteq Ceremony /\ sessions' \subseteq Ceremony
<1>a. active \subseteq User /\ factor \subseteq User /\ made \subseteq Ceremony
        /\ sessions \subseteq Ceremony
  BY DEF PInv, PTyped
<1>0. CASE UNCHANGED Passkeys!vars
  BY <1>0, <1>a DEF Passkeys!vars
<1> DEFINE Goal ==
         /\ active' \subseteq User /\ factor' \subseteq User
         /\ made' \subseteq Ceremony /\ sessions' \subseteq Ceremony
<1>1. ASSUME NEW w \in Ceremony, Passkeys!Consume(w)
      PROVE  Goal
  BY <1>1, <1>a DEF Passkeys!Consume
<1>2. ASSUME NEW w \in Ceremony, Passkeys!FindChallengedAccount(w)
      PROVE  Goal
  BY <1>2, <1>a DEF Passkeys!FindChallengedAccount
<1>3. ASSUME NEW w \in Ceremony, Passkeys!FindByCredentialId(w)
      PROVE  Goal
  BY <1>3, <1>a DEF Passkeys!FindByCredentialId
<1>4. ASSUME NEW w \in Ceremony, Passkeys!Advance(w)
      PROVE  Goal
  BY <1>4, <1>a DEF Passkeys!Advance
<1>5. ASSUME NEW w \in Ceremony, Passkeys!FindAccount(w)
      PROVE  Goal
  BY <1>5, <1>a DEF Passkeys!FindAccount
<1>6. ASSUME NEW w \in Ceremony, Passkeys!Discard(w)
      PROVE  Goal
  BY <1>6, <1>a DEF Passkeys!Discard
<1>7. ASSUME NEW w \in Ceremony, Passkeys!IssueSession(w)
      PROVE  Goal
  BY <1>7, <1>a DEF Passkeys!IssueSession
<1>8. ASSUME NEW w \in Ceremony, Passkeys!RegisterFailure(w)
      PROVE  Goal
  BY <1>8, <1>a DEF Passkeys!RegisterFailure
<1>9. ASSUME NEW w \in Ceremony, Passkeys!Compare(w)
      PROVE  Goal
  BY <1>9, <1>a DEF Passkeys!Compare
<1>10. ASSUME NEW w \in Ceremony, Passkeys!Record(w)
      PROVE  Goal
  BY <1>10, <1>a DEF Passkeys!Record
<1>11. ASSUME NEW w \in Ceremony, Passkeys!Stop(w)
      PROVE  Goal
  BY <1>11, <1>a DEF Passkeys!Stop
<1>12. ASSUME NEW w \in Ceremony, NEW h \in Held, Passkeys!Hold(w, h)
      PROVE  Goal
  BY <1>12, <1>a DEF Passkeys!Hold
<1>13. ASSUME NEW w \in Ceremony, NEW c \in Chal, NEW k \in Key, NEW n \in 0..MaxCounter,
             NEW uv \in Verifies, Passkeys!Present(w, c, k, n, uv)
      PROVE  Goal
  BY <1>13, <1>a DEF Passkeys!Present
<1>14. ASSUME NEW w \in Ceremony, NEW c \in Chal, NEW k \in Key, NEW n \in 0..MaxCounter,
             NEW uv \in Verifies, NEW h \in Held,
             Passkeys!Answer(w, h, c, k, n, uv)
      PROVE  Goal
  BY <1>14, <1>a DEF Passkeys!Answer
<1>15. ASSUME NEW w \in Ceremony, NEW c \in Chal, NEW k \in Key, NEW n \in 0..MaxCounter,
             NEW s \in Session, Passkeys!Attest(w, s, c, k, n)
      PROVE  Goal
  BY <1>15, <1>a DEF Passkeys!Attest
<1>16. ASSUME NEW c \in Chal, Passkeys!LoginOptions(c)
      PROVE  Goal
  BY <1>16, <1>a DEF Passkeys!LoginOptions
<1>17. ASSUME NEW c \in Chal, NEW s \in Session, Passkeys!RegistrationOptions(c, s)
      PROVE  Goal
  BY <1>17, <1>a DEF Passkeys!RegistrationOptions
<1>18. ASSUME NEW h \in Held, NEW u \in User, Passkeys!HoldOther(h, u)
      PROVE  Goal
  BY <1>18, <1>a DEF Passkeys!HoldOther
<1>19. ASSUME NEW k \in Key, Passkeys!Remove(k)
      PROVE  Goal
  BY <1>19, <1>a DEF Passkeys!Remove
<1>20. ASSUME NEW u \in User, Passkeys!Deactivate(u)
      PROVE  Goal
  BY <1>20, <1>a DEF Passkeys!Deactivate
<1>21. ASSUME NEW u \in User, Passkeys!TurnFactorOn(u)
      PROVE  Goal
  BY <1>21, <1>a DEF Passkeys!TurnFactorOn
<1>22. ASSUME Passkeys!Tick
      PROVE  Goal
  BY <1>22, <1>a DEF Passkeys!Tick
<1> QED
  BY <1>0, <1>1, <1>2, <1>3, <1>4, <1>5, <1>6, <1>7, <1>8, <1>9, <1>10, <1>11, <1>12,
      <1>13, <1>14, <1>15, <1>16, <1>17, <1>18, <1>19, <1>20, <1>21, <1>22 DEF
      Passkeys!Next

LEMMA ChalKept ==
  ASSUME NEW d, Passkeys!CeremonyAssumption, PInv, [Passkeys!Next]_Passkeys!vars,
         d \in Chal, chal[d].state # "new"
  PROVE  /\ chal'[d].state # "new" /\ (chal[d].state = "gone" => chal'[d].state = "gone")
         /\ chal'[d].purpose = chal[d].purpose /\ chal'[d].user = chal[d].user
         /\ chal'[d].session = chal[d].session
<1>a. chal \in [Chal -> ChalRow]
  BY DEF PInv, PTyped
<1>0. CASE UNCHANGED Passkeys!vars
  BY <1>0, <1>a DEF Passkeys!vars, ChalRow
<1> DEFINE Goal ==
         /\ chal'[d].state # "new" /\ (chal[d].state = "gone" => chal'[d].state = "gone")
         /\ chal'[d].purpose = chal[d].purpose /\ chal'[d].user = chal[d].user
         /\ chal'[d].session = chal[d].session
<1>1. ASSUME NEW w \in Ceremony, Passkeys!Consume(w)
      PROVE  Goal
  <2>1. chal' = chal \/ chal' = [chal EXCEPT ![work[w].chal].state = "gone"]
    BY <1>1 DEF Passkeys!Consume, Passkeys!SpendChallenge
  <2> QED BY <2>1, <1>a DEF ChalRow
<1>2. ASSUME NEW w \in Ceremony, Passkeys!FindChallengedAccount(w)
      PROVE  Goal
  BY <1>2, <1>a DEF Passkeys!FindChallengedAccount, ChalRow
<1>3. ASSUME NEW w \in Ceremony, Passkeys!FindByCredentialId(w)
      PROVE  Goal
  BY <1>3, <1>a DEF Passkeys!FindByCredentialId, ChalRow
<1>4. ASSUME NEW w \in Ceremony, Passkeys!Advance(w)
      PROVE  Goal
  BY <1>4, <1>a DEF Passkeys!Advance, ChalRow
<1>5. ASSUME NEW w \in Ceremony, Passkeys!FindAccount(w)
      PROVE  Goal
  BY <1>5, <1>a DEF Passkeys!FindAccount, ChalRow
<1>6. ASSUME NEW w \in Ceremony, Passkeys!Discard(w)
      PROVE  Goal
  BY <1>6, <1>a DEF Passkeys!Discard, ChalRow
<1>7. ASSUME NEW w \in Ceremony, Passkeys!IssueSession(w)
      PROVE  Goal
  BY <1>7, <1>a DEF Passkeys!IssueSession, ChalRow
<1>8. ASSUME NEW w \in Ceremony, Passkeys!RegisterFailure(w)
      PROVE  Goal
  BY <1>8, <1>a DEF Passkeys!RegisterFailure, ChalRow
<1>9. ASSUME NEW w \in Ceremony, Passkeys!Compare(w)
      PROVE  Goal
  BY <1>9, <1>a DEF Passkeys!Compare, ChalRow
<1>10. ASSUME NEW w \in Ceremony, Passkeys!Record(w)
      PROVE  Goal
  BY <1>10, <1>a DEF Passkeys!Record, ChalRow
<1>11. ASSUME NEW w \in Ceremony, Passkeys!Stop(w)
      PROVE  Goal
  BY <1>11, <1>a DEF Passkeys!Stop, ChalRow
<1>12. ASSUME NEW w \in Ceremony, NEW h \in Held, Passkeys!Hold(w, h)
      PROVE  Goal
  BY <1>12, <1>a DEF Passkeys!Hold, ChalRow
<1>13. ASSUME NEW w \in Ceremony, NEW c \in Chal, NEW k \in Key, NEW n \in 0..MaxCounter,
             NEW uv \in Verifies, Passkeys!Present(w, c, k, n, uv)
      PROVE  Goal
  BY <1>13, <1>a DEF Passkeys!Present, ChalRow
<1>14. ASSUME NEW w \in Ceremony, NEW c \in Chal, NEW k \in Key, NEW n \in 0..MaxCounter,
             NEW uv \in Verifies, NEW h \in Held,
             Passkeys!Answer(w, h, c, k, n, uv)
      PROVE  Goal
  BY <1>14, <1>a DEF Passkeys!Answer, ChalRow
<1>15. ASSUME NEW w \in Ceremony, NEW c \in Chal, NEW k \in Key, NEW n \in 0..MaxCounter,
             NEW s \in Session, Passkeys!Attest(w, s, c, k, n)
      PROVE  Goal
  BY <1>15, <1>a DEF Passkeys!Attest, ChalRow
<1>16. ASSUME NEW c \in Chal, Passkeys!LoginOptions(c)
      PROVE  Goal
  <2>1. PICK e, r : e \in Chal /\ chal[e].state = "new" /\ chal' = [chal EXCEPT ![e] = r]
    BY <1>16 DEF Passkeys!LoginOptions
  <2> QED BY <2>1, <1>a
<1>17. ASSUME NEW c \in Chal, NEW s \in Session, Passkeys!RegistrationOptions(c, s)
      PROVE  Goal
  <2>1. PICK e, r : e \in Chal /\ chal[e].state = "new" /\ chal' = [chal EXCEPT ![e] = r]
    BY <1>17 DEF Passkeys!RegistrationOptions
  <2> QED BY <2>1, <1>a
<1>18. ASSUME NEW h \in Held, NEW u \in User, Passkeys!HoldOther(h, u)
      PROVE  Goal
  BY <1>18, <1>a DEF Passkeys!HoldOther, ChalRow
<1>19. ASSUME NEW k \in Key, Passkeys!Remove(k)
      PROVE  Goal
  BY <1>19, <1>a DEF Passkeys!Remove, ChalRow
<1>20. ASSUME NEW u \in User, Passkeys!Deactivate(u)
      PROVE  Goal
  BY <1>20, <1>a DEF Passkeys!Deactivate, ChalRow
<1>21. ASSUME NEW u \in User, Passkeys!TurnFactorOn(u)
      PROVE  Goal
  BY <1>21, <1>a DEF Passkeys!TurnFactorOn, ChalRow
<1>22. ASSUME Passkeys!Tick
      PROVE  Goal
  BY <1>22, <1>a DEF Passkeys!Tick, ChalRow
<1> QED
  BY <1>0, <1>1, <1>2, <1>3, <1>4, <1>5, <1>6, <1>7, <1>8, <1>9, <1>10, <1>11, <1>12,
      <1>13, <1>14, <1>15, <1>16, <1>17, <1>18, <1>19, <1>20, <1>21, <1>22 DEF
      Passkeys!Next

LEMMA HeldKept ==
  ASSUME NEW g, Passkeys!CeremonyAssumption, PInv, [Passkeys!Next]_Passkeys!vars,
         g \in Held, held[g].state # "new"
  PROVE  /\ held'[g].state # "new" /\ (held[g].state = "gone" => held'[g].state = "gone")
         /\ held'[g].user = held[g].user /\ held'[g].first = held[g].first
<1>a. held \in [Held -> HeldRow]
  BY DEF PInv, PTyped
<1>0. CASE UNCHANGED Passkeys!vars
  BY <1>0, <1>a DEF Passkeys!vars
<1> DEFINE Goal ==
         /\ held'[g].state # "new" /\ (held[g].state = "gone" => held'[g].state = "gone")
         /\ held'[g].user = held[g].user /\ held'[g].first = held[g].first
<1>1. ASSUME NEW w \in Ceremony, Passkeys!Consume(w)
      PROVE  Goal
  BY <1>1, <1>a DEF Passkeys!Consume
<1>2. ASSUME NEW w \in Ceremony, Passkeys!FindChallengedAccount(w)
      PROVE  Goal
  <2>1. \/ held' = held
        \/ held' = [held EXCEPT ![work[w].held].state = "gone"]
    BY <1>2 DEF Passkeys!FindChallengedAccount
  <2> QED BY <2>1, <1>a DEF HeldRow
<1>3. ASSUME NEW w \in Ceremony, Passkeys!FindByCredentialId(w)
      PROVE  Goal
  BY <1>3, <1>a DEF Passkeys!FindByCredentialId
<1>4. ASSUME NEW w \in Ceremony, Passkeys!Advance(w)
      PROVE  Goal
  BY <1>4, <1>a DEF Passkeys!Advance
<1>5. ASSUME NEW w \in Ceremony, Passkeys!FindAccount(w)
      PROVE  Goal
  BY <1>5, <1>a DEF Passkeys!FindAccount
<1>6. ASSUME NEW w \in Ceremony, Passkeys!Discard(w)
      PROVE  Goal
  <2>1. \/ held' = held
        \/ held' = [held EXCEPT ![work[w].held].state = "gone"]
    BY <1>6 DEF Passkeys!Discard
  <2> QED BY <2>1, <1>a DEF HeldRow
<1>7. ASSUME NEW w \in Ceremony, Passkeys!IssueSession(w)
      PROVE  Goal
  BY <1>7, <1>a DEF Passkeys!IssueSession
<1>8. ASSUME NEW w \in Ceremony, Passkeys!RegisterFailure(w)
      PROVE  Goal
  <2>1. PICK n, p : \/ held' = held
                    \/ /\ held' = [held EXCEPT ![work[w].held].attempts = n,
                            ![work[w].held].state = p]
                       /\ held[work[w].held].state # "gone" /\ p # "new"
    BY <1>8 DEF Passkeys!RegisterFailure
  <2> QED BY <2>1, <1>a DEF HeldRow
<1>9. ASSUME NEW w \in Ceremony, Passkeys!Compare(w)
      PROVE  Goal
  BY <1>9, <1>a DEF Passkeys!Compare
<1>10. ASSUME NEW w \in Ceremony, Passkeys!Record(w)
      PROVE  Goal
  BY <1>10, <1>a DEF Passkeys!Record
<1>11. ASSUME NEW w \in Ceremony, Passkeys!Stop(w)
      PROVE  Goal
  BY <1>11, <1>a DEF Passkeys!Stop
<1>12. ASSUME NEW w \in Ceremony, NEW h \in Held, Passkeys!Hold(w, h)
      PROVE  Goal
  <2>1. PICK i, r : i \in Held /\ held[i].state = "new" /\ held' = [held EXCEPT ![i] = r]
    BY <1>12 DEF Passkeys!Hold
  <2> QED BY <2>1, <1>a
<1>13. ASSUME NEW w \in Ceremony, NEW c \in Chal, NEW k \in Key, NEW n \in 0..MaxCounter,
             NEW uv \in Verifies, Passkeys!Present(w, c, k, n, uv)
      PROVE  Goal
  BY <1>13, <1>a DEF Passkeys!Present
<1>14. ASSUME NEW w \in Ceremony, NEW c \in Chal, NEW k \in Key, NEW n \in 0..MaxCounter,
             NEW uv \in Verifies, NEW h \in Held,
             Passkeys!Answer(w, h, c, k, n, uv)
      PROVE  Goal
  <2>1. held[g].state = "gone" => g # h
    BY <1>14 DEF Passkeys!Answer, Passkeys!Claimable
  <2> QED BY <1>14, <2>1, <1>a DEF Passkeys!Answer, HeldRow
<1>15. ASSUME NEW w \in Ceremony, NEW c \in Chal, NEW k \in Key, NEW n \in 0..MaxCounter,
             NEW s \in Session, Passkeys!Attest(w, s, c, k, n)
      PROVE  Goal
  BY <1>15, <1>a DEF Passkeys!Attest
<1>16. ASSUME NEW c \in Chal, Passkeys!LoginOptions(c)
      PROVE  Goal
  BY <1>16, <1>a DEF Passkeys!LoginOptions
<1>17. ASSUME NEW c \in Chal, NEW s \in Session, Passkeys!RegistrationOptions(c, s)
      PROVE  Goal
  BY <1>17, <1>a DEF Passkeys!RegistrationOptions
<1>18. ASSUME NEW h \in Held, NEW u \in User, Passkeys!HoldOther(h, u)
      PROVE  Goal
  <2>1. PICK i, r : i \in Held /\ held[i].state = "new" /\ held' = [held EXCEPT ![i] = r]
    BY <1>18 DEF Passkeys!HoldOther
  <2> QED BY <2>1, <1>a
<1>19. ASSUME NEW k \in Key, Passkeys!Remove(k)
      PROVE  Goal
  BY <1>19, <1>a DEF Passkeys!Remove
<1>20. ASSUME NEW u \in User, Passkeys!Deactivate(u)
      PROVE  Goal
  BY <1>20, <1>a DEF Passkeys!Deactivate
<1>21. ASSUME NEW u \in User, Passkeys!TurnFactorOn(u)
      PROVE  Goal
  BY <1>21, <1>a DEF Passkeys!TurnFactorOn
<1>22. ASSUME Passkeys!Tick
      PROVE  Goal
  BY <1>22, <1>a DEF Passkeys!Tick
<1> QED
  BY <1>0, <1>1, <1>2, <1>3, <1>4, <1>5, <1>6, <1>7, <1>8, <1>9, <1>10, <1>11, <1>12,
      <1>13, <1>14, <1>15, <1>16, <1>17, <1>18, <1>19, <1>20, <1>21, <1>22 DEF
      Passkeys!Next

LEMMA AppendDoes ==
  ASSUME NEW x
  PROVE  uses \in Seq(UseRow) /\ uses' = Append(uses, x) =>
           /\ DOMAIN uses = 1..Len(uses) /\ Len(uses) \in Nat
           /\ DOMAIN uses' = 1..(Len(uses) + 1) /\ uses'[Len(uses) + 1] = x
           /\ \A i \in DOMAIN uses : uses'[i] = uses[i]
OBVIOUS

LEMMA UsesKept ==
  ASSUME Passkeys!CeremonyAssumption, PInv, [Passkeys!Next]_Passkeys!vars
  PROVE  \A i \in DOMAIN uses : i \in DOMAIN uses' /\ uses'[i] = uses[i]
<1>a. uses \in Seq(UseRow)
  BY DEF PInv, PTyped
<1>0. CASE UNCHANGED Passkeys!vars
  BY <1>0, <1>a DEF Passkeys!vars
<1> DEFINE Goal == \A i \in DOMAIN uses : i \in DOMAIN uses' /\ uses'[i] = uses[i]
<1>1. ASSUME NEW w \in Ceremony, Passkeys!Consume(w)
      PROVE  Goal
  BY <1>1, <1>a DEF Passkeys!Consume
<1>2. ASSUME NEW w \in Ceremony, Passkeys!FindChallengedAccount(w)
      PROVE  Goal
  BY <1>2, <1>a DEF Passkeys!FindChallengedAccount
<1>3. ASSUME NEW w \in Ceremony, Passkeys!FindByCredentialId(w)
      PROVE  Goal
  BY <1>3, <1>a DEF Passkeys!FindByCredentialId
<1>4. ASSUME NEW w \in Ceremony, Passkeys!Advance(w)
      PROVE  Goal
  <2>1. PICK x : uses' = uses \/ uses' = Append(uses, x)
    BY <1>4 DEF Passkeys!Advance
  <2> QED BY <2>1, <1>a, AppendDoes
<1>5. ASSUME NEW w \in Ceremony, Passkeys!FindAccount(w)
      PROVE  Goal
  BY <1>5, <1>a DEF Passkeys!FindAccount
<1>6. ASSUME NEW w \in Ceremony, Passkeys!Discard(w)
      PROVE  Goal
  BY <1>6, <1>a DEF Passkeys!Discard
<1>7. ASSUME NEW w \in Ceremony, Passkeys!IssueSession(w)
      PROVE  Goal
  BY <1>7, <1>a DEF Passkeys!IssueSession
<1>8. ASSUME NEW w \in Ceremony, Passkeys!RegisterFailure(w)
      PROVE  Goal
  BY <1>8, <1>a DEF Passkeys!RegisterFailure
<1>9. ASSUME NEW w \in Ceremony, Passkeys!Compare(w)
      PROVE  Goal
  BY <1>9, <1>a DEF Passkeys!Compare
<1>10. ASSUME NEW w \in Ceremony, Passkeys!Record(w)
      PROVE  Goal
  BY <1>10, <1>a DEF Passkeys!Record
<1>11. ASSUME NEW w \in Ceremony, Passkeys!Stop(w)
      PROVE  Goal
  BY <1>11, <1>a DEF Passkeys!Stop
<1>12. ASSUME NEW w \in Ceremony, NEW h \in Held, Passkeys!Hold(w, h)
      PROVE  Goal
  BY <1>12, <1>a DEF Passkeys!Hold
<1>13. ASSUME NEW w \in Ceremony, NEW c \in Chal, NEW k \in Key, NEW n \in 0..MaxCounter,
             NEW uv \in Verifies, Passkeys!Present(w, c, k, n, uv)
      PROVE  Goal
  BY <1>13, <1>a DEF Passkeys!Present
<1>14. ASSUME NEW w \in Ceremony, NEW c \in Chal, NEW k \in Key, NEW n \in 0..MaxCounter,
             NEW uv \in Verifies, NEW h \in Held,
             Passkeys!Answer(w, h, c, k, n, uv)
      PROVE  Goal
  BY <1>14, <1>a DEF Passkeys!Answer
<1>15. ASSUME NEW w \in Ceremony, NEW c \in Chal, NEW k \in Key, NEW n \in 0..MaxCounter,
             NEW s \in Session, Passkeys!Attest(w, s, c, k, n)
      PROVE  Goal
  BY <1>15, <1>a DEF Passkeys!Attest
<1>16. ASSUME NEW c \in Chal, Passkeys!LoginOptions(c)
      PROVE  Goal
  BY <1>16, <1>a DEF Passkeys!LoginOptions
<1>17. ASSUME NEW c \in Chal, NEW s \in Session, Passkeys!RegistrationOptions(c, s)
      PROVE  Goal
  BY <1>17, <1>a DEF Passkeys!RegistrationOptions
<1>18. ASSUME NEW h \in Held, NEW u \in User, Passkeys!HoldOther(h, u)
      PROVE  Goal
  BY <1>18, <1>a DEF Passkeys!HoldOther
<1>19. ASSUME NEW k \in Key, Passkeys!Remove(k)
      PROVE  Goal
  BY <1>19, <1>a DEF Passkeys!Remove
<1>20. ASSUME NEW u \in User, Passkeys!Deactivate(u)
      PROVE  Goal
  BY <1>20, <1>a DEF Passkeys!Deactivate
<1>21. ASSUME NEW u \in User, Passkeys!TurnFactorOn(u)
      PROVE  Goal
  BY <1>21, <1>a DEF Passkeys!TurnFactorOn
<1>22. ASSUME Passkeys!Tick
      PROVE  Goal
  BY <1>22, <1>a DEF Passkeys!Tick
<1> QED
  BY <1>0, <1>1, <1>2, <1>3, <1>4, <1>5, <1>6, <1>7, <1>8, <1>9, <1>10, <1>11, <1>12,
      <1>13, <1>14, <1>15, <1>16, <1>17, <1>18, <1>19, <1>20, <1>21, <1>22 DEF
      Passkeys!Next

LEMMA MadeDoes ==
  ASSUME Passkeys!CeremonyAssumption, PInv, [Passkeys!Next]_Passkeys!vars
  PROVE  \/ made' = made
         \/ \E z \in Ceremony : Passkeys!Record(z) /\ made' = made \cup {z}
              /\ work'[z].pc = "done"
<1>a. work \in [Ceremony -> CeremonyRow]
  BY DEF PInv, PTyped
<1>0. CASE UNCHANGED Passkeys!vars
  BY <1>0, <1>a DEF Passkeys!vars, CeremonyRow
<1> DEFINE Goal ==
         \/ made' = made
         \/ \E z \in Ceremony : Passkeys!Record(z) /\ made' = made \cup {z}
              /\ work'[z].pc = "done"
<1>1. ASSUME NEW w \in Ceremony, Passkeys!Consume(w)
      PROVE  Goal
  BY <1>1, <1>a DEF Passkeys!Consume, CeremonyRow
<1>2. ASSUME NEW w \in Ceremony, Passkeys!FindChallengedAccount(w)
      PROVE  Goal
  BY <1>2, <1>a DEF Passkeys!FindChallengedAccount, CeremonyRow
<1>3. ASSUME NEW w \in Ceremony, Passkeys!FindByCredentialId(w)
      PROVE  Goal
  BY <1>3, <1>a DEF Passkeys!FindByCredentialId, CeremonyRow
<1>4. ASSUME NEW w \in Ceremony, Passkeys!Advance(w)
      PROVE  Goal
  BY <1>4, <1>a DEF Passkeys!Advance, CeremonyRow
<1>5. ASSUME NEW w \in Ceremony, Passkeys!FindAccount(w)
      PROVE  Goal
  BY <1>5, <1>a DEF Passkeys!FindAccount, CeremonyRow
<1>6. ASSUME NEW w \in Ceremony, Passkeys!Discard(w)
      PROVE  Goal
  BY <1>6, <1>a DEF Passkeys!Discard, CeremonyRow
<1>7. ASSUME NEW w \in Ceremony, Passkeys!IssueSession(w)
      PROVE  Goal
  BY <1>7, <1>a DEF Passkeys!IssueSession, CeremonyRow
<1>8. ASSUME NEW w \in Ceremony, Passkeys!RegisterFailure(w)
      PROVE  Goal
  BY <1>8, <1>a DEF Passkeys!RegisterFailure, CeremonyRow
<1>9. ASSUME NEW w \in Ceremony, Passkeys!Compare(w)
      PROVE  Goal
  BY <1>9, <1>a DEF Passkeys!Compare, CeremonyRow
<1>10. ASSUME NEW w \in Ceremony, Passkeys!Record(w)
      PROVE  Goal
  <2>1. made' = made \/ (made' = made \cup {w} /\ work' = [work EXCEPT ![w].pc = "done"])
    BY <1>10 DEF Passkeys!Record
  <2>2. work'[w].pc = "done" \/ made' = made
    BY <2>1, <1>a DEF CeremonyRow
  <2> QED BY <2>1, <2>2, <1>10
<1>11. ASSUME NEW w \in Ceremony, Passkeys!Stop(w)
      PROVE  Goal
  BY <1>11, <1>a DEF Passkeys!Stop, CeremonyRow
<1>12. ASSUME NEW w \in Ceremony, NEW h \in Held, Passkeys!Hold(w, h)
      PROVE  Goal
  BY <1>12, <1>a DEF Passkeys!Hold, CeremonyRow
<1>13. ASSUME NEW w \in Ceremony, NEW c \in Chal, NEW k \in Key, NEW n \in 0..MaxCounter,
             NEW uv \in Verifies, Passkeys!Present(w, c, k, n, uv)
      PROVE  Goal
  BY <1>13, <1>a DEF Passkeys!Present, CeremonyRow
<1>14. ASSUME NEW w \in Ceremony, NEW c \in Chal, NEW k \in Key, NEW n \in 0..MaxCounter,
             NEW uv \in Verifies, NEW h \in Held,
             Passkeys!Answer(w, h, c, k, n, uv)
      PROVE  Goal
  BY <1>14, <1>a DEF Passkeys!Answer, CeremonyRow
<1>15. ASSUME NEW w \in Ceremony, NEW c \in Chal, NEW k \in Key, NEW n \in 0..MaxCounter,
             NEW s \in Session, Passkeys!Attest(w, s, c, k, n)
      PROVE  Goal
  BY <1>15, <1>a DEF Passkeys!Attest, CeremonyRow
<1>16. ASSUME NEW c \in Chal, Passkeys!LoginOptions(c)
      PROVE  Goal
  BY <1>16, <1>a DEF Passkeys!LoginOptions, CeremonyRow
<1>17. ASSUME NEW c \in Chal, NEW s \in Session, Passkeys!RegistrationOptions(c, s)
      PROVE  Goal
  BY <1>17, <1>a DEF Passkeys!RegistrationOptions, CeremonyRow
<1>18. ASSUME NEW h \in Held, NEW u \in User, Passkeys!HoldOther(h, u)
      PROVE  Goal
  BY <1>18, <1>a DEF Passkeys!HoldOther, CeremonyRow
<1>19. ASSUME NEW k \in Key, Passkeys!Remove(k)
      PROVE  Goal
  BY <1>19, <1>a DEF Passkeys!Remove, CeremonyRow
<1>20. ASSUME NEW u \in User, Passkeys!Deactivate(u)
      PROVE  Goal
  BY <1>20, <1>a DEF Passkeys!Deactivate, CeremonyRow
<1>21. ASSUME NEW u \in User, Passkeys!TurnFactorOn(u)
      PROVE  Goal
  BY <1>21, <1>a DEF Passkeys!TurnFactorOn, CeremonyRow
<1>22. ASSUME Passkeys!Tick
      PROVE  Goal
  BY <1>22, <1>a DEF Passkeys!Tick, CeremonyRow
<1> QED
  BY <1>0, <1>1, <1>2, <1>3, <1>4, <1>5, <1>6, <1>7, <1>8, <1>9, <1>10, <1>11, <1>12,
      <1>13, <1>14, <1>15, <1>16, <1>17, <1>18, <1>19, <1>20, <1>21, <1>22 DEF
      Passkeys!Next

LEMMA SessionsDo ==
  ASSUME Passkeys!CeremonyAssumption, PInv, [Passkeys!Next]_Passkeys!vars
  PROVE  \/ sessions' = sessions
         \/ \E z \in Ceremony : /\ Passkeys!IssueSession(z) /\ sessions' = sessions \cup {z}
                                /\ work'[z].pc = "done"
<1>a. work \in [Ceremony -> CeremonyRow]
  BY DEF PInv, PTyped
<1>0. CASE UNCHANGED Passkeys!vars
  BY <1>0, <1>a DEF Passkeys!vars, CeremonyRow
<1> DEFINE Goal ==
         \/ sessions' = sessions
         \/ \E z \in Ceremony : /\ Passkeys!IssueSession(z) /\ sessions' = sessions \cup {z}
                                /\ work'[z].pc = "done"
<1>1. ASSUME NEW w \in Ceremony, Passkeys!Consume(w)
      PROVE  Goal
  BY <1>1, <1>a DEF Passkeys!Consume, CeremonyRow
<1>2. ASSUME NEW w \in Ceremony, Passkeys!FindChallengedAccount(w)
      PROVE  Goal
  BY <1>2, <1>a DEF Passkeys!FindChallengedAccount, CeremonyRow
<1>3. ASSUME NEW w \in Ceremony, Passkeys!FindByCredentialId(w)
      PROVE  Goal
  BY <1>3, <1>a DEF Passkeys!FindByCredentialId, CeremonyRow
<1>4. ASSUME NEW w \in Ceremony, Passkeys!Advance(w)
      PROVE  Goal
  BY <1>4, <1>a DEF Passkeys!Advance, CeremonyRow
<1>5. ASSUME NEW w \in Ceremony, Passkeys!FindAccount(w)
      PROVE  Goal
  BY <1>5, <1>a DEF Passkeys!FindAccount, CeremonyRow
<1>6. ASSUME NEW w \in Ceremony, Passkeys!Discard(w)
      PROVE  Goal
  BY <1>6, <1>a DEF Passkeys!Discard, CeremonyRow
<1>7. ASSUME NEW w \in Ceremony, Passkeys!IssueSession(w)
      PROVE  Goal
  BY <1>7, <1>a DEF Passkeys!IssueSession, CeremonyRow
<1>8. ASSUME NEW w \in Ceremony, Passkeys!RegisterFailure(w)
      PROVE  Goal
  BY <1>8, <1>a DEF Passkeys!RegisterFailure, CeremonyRow
<1>9. ASSUME NEW w \in Ceremony, Passkeys!Compare(w)
      PROVE  Goal
  BY <1>9, <1>a DEF Passkeys!Compare, CeremonyRow
<1>10. ASSUME NEW w \in Ceremony, Passkeys!Record(w)
      PROVE  Goal
  BY <1>10, <1>a DEF Passkeys!Record, CeremonyRow
<1>11. ASSUME NEW w \in Ceremony, Passkeys!Stop(w)
      PROVE  Goal
  BY <1>11, <1>a DEF Passkeys!Stop, CeremonyRow
<1>12. ASSUME NEW w \in Ceremony, NEW h \in Held, Passkeys!Hold(w, h)
      PROVE  Goal
  BY <1>12, <1>a DEF Passkeys!Hold, CeremonyRow
<1>13. ASSUME NEW w \in Ceremony, NEW c \in Chal, NEW k \in Key, NEW n \in 0..MaxCounter,
             NEW uv \in Verifies, Passkeys!Present(w, c, k, n, uv)
      PROVE  Goal
  BY <1>13, <1>a DEF Passkeys!Present, CeremonyRow
<1>14. ASSUME NEW w \in Ceremony, NEW c \in Chal, NEW k \in Key, NEW n \in 0..MaxCounter,
             NEW uv \in Verifies, NEW h \in Held,
             Passkeys!Answer(w, h, c, k, n, uv)
      PROVE  Goal
  BY <1>14, <1>a DEF Passkeys!Answer, CeremonyRow
<1>15. ASSUME NEW w \in Ceremony, NEW c \in Chal, NEW k \in Key, NEW n \in 0..MaxCounter,
             NEW s \in Session, Passkeys!Attest(w, s, c, k, n)
      PROVE  Goal
  BY <1>15, <1>a DEF Passkeys!Attest, CeremonyRow
<1>16. ASSUME NEW c \in Chal, Passkeys!LoginOptions(c)
      PROVE  Goal
  BY <1>16, <1>a DEF Passkeys!LoginOptions, CeremonyRow
<1>17. ASSUME NEW c \in Chal, NEW s \in Session, Passkeys!RegistrationOptions(c, s)
      PROVE  Goal
  BY <1>17, <1>a DEF Passkeys!RegistrationOptions, CeremonyRow
<1>18. ASSUME NEW h \in Held, NEW u \in User, Passkeys!HoldOther(h, u)
      PROVE  Goal
  BY <1>18, <1>a DEF Passkeys!HoldOther, CeremonyRow
<1>19. ASSUME NEW k \in Key, Passkeys!Remove(k)
      PROVE  Goal
  BY <1>19, <1>a DEF Passkeys!Remove, CeremonyRow
<1>20. ASSUME NEW u \in User, Passkeys!Deactivate(u)
      PROVE  Goal
  BY <1>20, <1>a DEF Passkeys!Deactivate, CeremonyRow
<1>21. ASSUME NEW u \in User, Passkeys!TurnFactorOn(u)
      PROVE  Goal
  BY <1>21, <1>a DEF Passkeys!TurnFactorOn, CeremonyRow
<1>22. ASSUME Passkeys!Tick
      PROVE  Goal
  BY <1>22, <1>a DEF Passkeys!Tick, CeremonyRow
<1> QED
  BY <1>0, <1>1, <1>2, <1>3, <1>4, <1>5, <1>6, <1>7, <1>8, <1>9, <1>10, <1>11, <1>12,
      <1>13, <1>14, <1>15, <1>16, <1>17, <1>18, <1>19, <1>20, <1>21, <1>22 DEF
      Passkeys!Next

LEMMA UsesDo ==
  ASSUME Passkeys!CeremonyAssumption, PInv, [Passkeys!Next]_Passkeys!vars
  PROVE  \/ uses' = uses
         \/ \E z \in Ceremony : /\ Passkeys!Advance(z)
                                /\ (Passkeys!Counts(z) => Passkeys!CounterStands(z))
                                /\ uses' = Append(uses, UseOf(z))
<1>0. CASE UNCHANGED Passkeys!vars
  BY <1>0 DEF Passkeys!vars, UseOf
<1> DEFINE Goal ==
         \/ uses' = uses
         \/ \E z \in Ceremony : /\ Passkeys!Advance(z)
                                /\ (Passkeys!Counts(z) => Passkeys!CounterStands(z))
                                /\ uses' = Append(uses, UseOf(z))
<1>1. ASSUME NEW w \in Ceremony, Passkeys!Consume(w)
      PROVE  Goal
  BY <1>1 DEF Passkeys!Consume, UseOf
<1>2. ASSUME NEW w \in Ceremony, Passkeys!FindChallengedAccount(w)
      PROVE  Goal
  BY <1>2 DEF Passkeys!FindChallengedAccount, UseOf
<1>3. ASSUME NEW w \in Ceremony, Passkeys!FindByCredentialId(w)
      PROVE  Goal
  BY <1>3 DEF Passkeys!FindByCredentialId, UseOf
<1>4. ASSUME NEW w \in Ceremony, Passkeys!Advance(w)
      PROVE  Goal
  BY <1>4 DEF Passkeys!Advance, UseOf
<1>5. ASSUME NEW w \in Ceremony, Passkeys!FindAccount(w)
      PROVE  Goal
  BY <1>5 DEF Passkeys!FindAccount, UseOf
<1>6. ASSUME NEW w \in Ceremony, Passkeys!Discard(w)
      PROVE  Goal
  BY <1>6 DEF Passkeys!Discard, UseOf
<1>7. ASSUME NEW w \in Ceremony, Passkeys!IssueSession(w)
      PROVE  Goal
  BY <1>7 DEF Passkeys!IssueSession, UseOf
<1>8. ASSUME NEW w \in Ceremony, Passkeys!RegisterFailure(w)
      PROVE  Goal
  BY <1>8 DEF Passkeys!RegisterFailure, UseOf
<1>9. ASSUME NEW w \in Ceremony, Passkeys!Compare(w)
      PROVE  Goal
  BY <1>9 DEF Passkeys!Compare, UseOf
<1>10. ASSUME NEW w \in Ceremony, Passkeys!Record(w)
      PROVE  Goal
  BY <1>10 DEF Passkeys!Record, UseOf
<1>11. ASSUME NEW w \in Ceremony, Passkeys!Stop(w)
      PROVE  Goal
  BY <1>11 DEF Passkeys!Stop, UseOf
<1>12. ASSUME NEW w \in Ceremony, NEW h \in Held, Passkeys!Hold(w, h)
      PROVE  Goal
  BY <1>12 DEF Passkeys!Hold, UseOf
<1>13. ASSUME NEW w \in Ceremony, NEW c \in Chal, NEW k \in Key, NEW n \in 0..MaxCounter,
             NEW uv \in Verifies, Passkeys!Present(w, c, k, n, uv)
      PROVE  Goal
  BY <1>13 DEF Passkeys!Present, UseOf
<1>14. ASSUME NEW w \in Ceremony, NEW c \in Chal, NEW k \in Key, NEW n \in 0..MaxCounter,
             NEW uv \in Verifies, NEW h \in Held,
             Passkeys!Answer(w, h, c, k, n, uv)
      PROVE  Goal
  BY <1>14 DEF Passkeys!Answer, UseOf
<1>15. ASSUME NEW w \in Ceremony, NEW c \in Chal, NEW k \in Key, NEW n \in 0..MaxCounter,
             NEW s \in Session, Passkeys!Attest(w, s, c, k, n)
      PROVE  Goal
  BY <1>15 DEF Passkeys!Attest, UseOf
<1>16. ASSUME NEW c \in Chal, Passkeys!LoginOptions(c)
      PROVE  Goal
  BY <1>16 DEF Passkeys!LoginOptions, UseOf
<1>17. ASSUME NEW c \in Chal, NEW s \in Session, Passkeys!RegistrationOptions(c, s)
      PROVE  Goal
  BY <1>17 DEF Passkeys!RegistrationOptions, UseOf
<1>18. ASSUME NEW h \in Held, NEW u \in User, Passkeys!HoldOther(h, u)
      PROVE  Goal
  BY <1>18 DEF Passkeys!HoldOther, UseOf
<1>19. ASSUME NEW k \in Key, Passkeys!Remove(k)
      PROVE  Goal
  BY <1>19 DEF Passkeys!Remove, UseOf
<1>20. ASSUME NEW u \in User, Passkeys!Deactivate(u)
      PROVE  Goal
  BY <1>20 DEF Passkeys!Deactivate, UseOf
<1>21. ASSUME NEW u \in User, Passkeys!TurnFactorOn(u)
      PROVE  Goal
  BY <1>21 DEF Passkeys!TurnFactorOn, UseOf
<1>22. ASSUME Passkeys!Tick
      PROVE  Goal
  BY <1>22 DEF Passkeys!Tick, UseOf
<1> QED
  BY <1>0, <1>1, <1>2, <1>3, <1>4, <1>5, <1>6, <1>7, <1>8, <1>9, <1>10, <1>11, <1>12,
      <1>13, <1>14, <1>15, <1>16, <1>17, <1>18, <1>19, <1>20, <1>21, <1>22 DEF
      Passkeys!Next

LEMMA EndedStays ==
  ASSUME NEW z, Passkeys!CeremonyAssumption, PInv, [Passkeys!Next]_Passkeys!vars,
         z \in Ceremony, work[z].pc \in {"done", "refused", "held", "stopped"}
  PROVE  work'[z] = work[z]
<1>a. work \in [Ceremony -> CeremonyRow]
  BY DEF PInv, PTyped
<1>0. CASE UNCHANGED Passkeys!vars
  BY <1>0, <1>a DEF Passkeys!vars
<1> DEFINE Goal == work'[z] = work[z]
<1>1. ASSUME NEW w \in Ceremony, Passkeys!Consume(w)
      PROVE  Goal
  BY <1>1, <1>a DEF Passkeys!Consume
<1>2. ASSUME NEW w \in Ceremony, Passkeys!FindChallengedAccount(w)
      PROVE  Goal
  BY <1>2, <1>a DEF Passkeys!FindChallengedAccount
<1>3. ASSUME NEW w \in Ceremony, Passkeys!FindByCredentialId(w)
      PROVE  Goal
  BY <1>3, <1>a DEF Passkeys!FindByCredentialId
<1>4. ASSUME NEW w \in Ceremony, Passkeys!Advance(w)
      PROVE  Goal
  BY <1>4, <1>a DEF Passkeys!Advance
<1>5. ASSUME NEW w \in Ceremony, Passkeys!FindAccount(w)
      PROVE  Goal
  BY <1>5, <1>a DEF Passkeys!FindAccount
<1>6. ASSUME NEW w \in Ceremony, Passkeys!Discard(w)
      PROVE  Goal
  BY <1>6, <1>a DEF Passkeys!Discard
<1>7. ASSUME NEW w \in Ceremony, Passkeys!IssueSession(w)
      PROVE  Goal
  BY <1>7, <1>a DEF Passkeys!IssueSession
<1>8. ASSUME NEW w \in Ceremony, Passkeys!RegisterFailure(w)
      PROVE  Goal
  BY <1>8, <1>a DEF Passkeys!RegisterFailure
<1>9. ASSUME NEW w \in Ceremony, Passkeys!Compare(w)
      PROVE  Goal
  BY <1>9, <1>a DEF Passkeys!Compare
<1>10. ASSUME NEW w \in Ceremony, Passkeys!Record(w)
      PROVE  Goal
  BY <1>10, <1>a DEF Passkeys!Record
<1>11. ASSUME NEW w \in Ceremony, Passkeys!Stop(w)
      PROVE  Goal
  BY <1>11, <1>a DEF Passkeys!Stop
<1>12. ASSUME NEW w \in Ceremony, NEW h \in Held, Passkeys!Hold(w, h)
      PROVE  Goal
  BY <1>12, <1>a DEF Passkeys!Hold
<1>13. ASSUME NEW w \in Ceremony, NEW c \in Chal, NEW k \in Key, NEW n \in 0..MaxCounter,
             NEW uv \in Verifies, Passkeys!Present(w, c, k, n, uv)
      PROVE  Goal
  BY <1>13, <1>a DEF Passkeys!Present
<1>14. ASSUME NEW w \in Ceremony, NEW c \in Chal, NEW k \in Key, NEW n \in 0..MaxCounter,
             NEW uv \in Verifies, NEW h \in Held,
             Passkeys!Answer(w, h, c, k, n, uv)
      PROVE  Goal
  BY <1>14, <1>a DEF Passkeys!Answer
<1>15. ASSUME NEW w \in Ceremony, NEW c \in Chal, NEW k \in Key, NEW n \in 0..MaxCounter,
             NEW s \in Session, Passkeys!Attest(w, s, c, k, n)
      PROVE  Goal
  BY <1>15, <1>a DEF Passkeys!Attest
<1>16. ASSUME NEW c \in Chal, Passkeys!LoginOptions(c)
      PROVE  Goal
  BY <1>16, <1>a DEF Passkeys!LoginOptions
<1>17. ASSUME NEW c \in Chal, NEW s \in Session, Passkeys!RegistrationOptions(c, s)
      PROVE  Goal
  BY <1>17, <1>a DEF Passkeys!RegistrationOptions
<1>18. ASSUME NEW h \in Held, NEW u \in User, Passkeys!HoldOther(h, u)
      PROVE  Goal
  BY <1>18, <1>a DEF Passkeys!HoldOther
<1>19. ASSUME NEW k \in Key, Passkeys!Remove(k)
      PROVE  Goal
  BY <1>19, <1>a DEF Passkeys!Remove
<1>20. ASSUME NEW u \in User, Passkeys!Deactivate(u)
      PROVE  Goal
  BY <1>20, <1>a DEF Passkeys!Deactivate
<1>21. ASSUME NEW u \in User, Passkeys!TurnFactorOn(u)
      PROVE  Goal
  BY <1>21, <1>a DEF Passkeys!TurnFactorOn
<1>22. ASSUME Passkeys!Tick
      PROVE  Goal
  BY <1>22, <1>a DEF Passkeys!Tick
<1> QED
  BY <1>0, <1>1, <1>2, <1>3, <1>4, <1>5, <1>6, <1>7, <1>8, <1>9, <1>10, <1>11, <1>12,
      <1>13, <1>14, <1>15, <1>16, <1>17, <1>18, <1>19, <1>20, <1>21, <1>22 DEF
      Passkeys!Next

LEMMA ChalsStep ==
  ASSUME NEW d, Passkeys!CeremonyAssumption, PInv, [Passkeys!Next]_Passkeys!vars,
         d \in Chal
  PROVE  ChalSound(d)'
<1>a. chal \in [Chal -> ChalRow] /\ ChalSound(d)
  BY DEF PInv, PTyped, ChalsSound
<1>0. CASE UNCHANGED Passkeys!vars
  BY <1>0, <1>a DEF Passkeys!vars, ChalSound
<1> DEFINE Goal == ChalSound(d)'
<1>1. ASSUME NEW w \in Ceremony, Passkeys!Consume(w)
      PROVE  Goal
  <2>1. \/ chal' = chal
        \/ /\ chal' = [chal EXCEPT ![work[w].chal].state = "gone"]
           /\ chal[work[w].chal].state = "open"
    BY <1>1 DEF Passkeys!Consume, Passkeys!SpendChallenge
  <2> QED BY <2>1, <1>a DEF ChalRow, ChalSound
<1>2. ASSUME NEW w \in Ceremony, Passkeys!FindChallengedAccount(w)
      PROVE  Goal
  BY <1>2, <1>a DEF Passkeys!FindChallengedAccount, ChalSound
<1>3. ASSUME NEW w \in Ceremony, Passkeys!FindByCredentialId(w)
      PROVE  Goal
  BY <1>3, <1>a DEF Passkeys!FindByCredentialId, ChalSound
<1>4. ASSUME NEW w \in Ceremony, Passkeys!Advance(w)
      PROVE  Goal
  BY <1>4, <1>a DEF Passkeys!Advance, ChalSound
<1>5. ASSUME NEW w \in Ceremony, Passkeys!FindAccount(w)
      PROVE  Goal
  BY <1>5, <1>a DEF Passkeys!FindAccount, ChalSound
<1>6. ASSUME NEW w \in Ceremony, Passkeys!Discard(w)
      PROVE  Goal
  BY <1>6, <1>a DEF Passkeys!Discard, ChalSound
<1>7. ASSUME NEW w \in Ceremony, Passkeys!IssueSession(w)
      PROVE  Goal
  BY <1>7, <1>a DEF Passkeys!IssueSession, ChalSound
<1>8. ASSUME NEW w \in Ceremony, Passkeys!RegisterFailure(w)
      PROVE  Goal
  BY <1>8, <1>a DEF Passkeys!RegisterFailure, ChalSound
<1>9. ASSUME NEW w \in Ceremony, Passkeys!Compare(w)
      PROVE  Goal
  BY <1>9, <1>a DEF Passkeys!Compare, ChalSound
<1>10. ASSUME NEW w \in Ceremony, Passkeys!Record(w)
      PROVE  Goal
  BY <1>10, <1>a DEF Passkeys!Record, ChalSound
<1>11. ASSUME NEW w \in Ceremony, Passkeys!Stop(w)
      PROVE  Goal
  BY <1>11, <1>a DEF Passkeys!Stop, ChalSound
<1>12. ASSUME NEW w \in Ceremony, NEW h \in Held, Passkeys!Hold(w, h)
      PROVE  Goal
  BY <1>12, <1>a DEF Passkeys!Hold, ChalSound
<1>13. ASSUME NEW w \in Ceremony, NEW c \in Chal, NEW k \in Key, NEW n \in 0..MaxCounter,
             NEW uv \in Verifies, Passkeys!Present(w, c, k, n, uv)
      PROVE  Goal
  BY <1>13, <1>a DEF Passkeys!Present, ChalSound
<1>14. ASSUME NEW w \in Ceremony, NEW c \in Chal, NEW k \in Key, NEW n \in 0..MaxCounter,
             NEW uv \in Verifies, NEW h \in Held,
             Passkeys!Answer(w, h, c, k, n, uv)
      PROVE  Goal
  BY <1>14, <1>a DEF Passkeys!Answer, ChalSound
<1>15. ASSUME NEW w \in Ceremony, NEW c \in Chal, NEW k \in Key, NEW n \in 0..MaxCounter,
             NEW s \in Session, Passkeys!Attest(w, s, c, k, n)
      PROVE  Goal
  BY <1>15, <1>a DEF Passkeys!Attest, ChalSound
<1>16. ASSUME NEW c \in Chal, Passkeys!LoginOptions(c)
      PROVE  Goal
  BY <1>16, <1>a DEF Passkeys!LoginOptions, ChalSound, Passkeys!Issued
<1>17. ASSUME NEW c \in Chal, NEW s \in Session, Passkeys!RegistrationOptions(c, s)
      PROVE  Goal
  BY <1>17, <1>a DEF Passkeys!RegistrationOptions, ChalSound, Passkeys!Issued,
      Passkeys!CeremonyAssumption
<1>18. ASSUME NEW h \in Held, NEW u \in User, Passkeys!HoldOther(h, u)
      PROVE  Goal
  BY <1>18, <1>a DEF Passkeys!HoldOther, ChalSound
<1>19. ASSUME NEW k \in Key, Passkeys!Remove(k)
      PROVE  Goal
  BY <1>19, <1>a DEF Passkeys!Remove, ChalSound
<1>20. ASSUME NEW u \in User, Passkeys!Deactivate(u)
      PROVE  Goal
  BY <1>20, <1>a DEF Passkeys!Deactivate, ChalSound
<1>21. ASSUME NEW u \in User, Passkeys!TurnFactorOn(u)
      PROVE  Goal
  BY <1>21, <1>a DEF Passkeys!TurnFactorOn, ChalSound
<1>22. ASSUME Passkeys!Tick
      PROVE  Goal
  BY <1>22, <1>a DEF Passkeys!Tick, ChalSound
<1> QED
  BY <1>0, <1>1, <1>2, <1>3, <1>4, <1>5, <1>6, <1>7, <1>8, <1>9, <1>10, <1>11, <1>12,
      <1>13, <1>14, <1>15, <1>16, <1>17, <1>18, <1>19, <1>20, <1>21, <1>22 DEF
      Passkeys!Next

LEMMA HeldsStep ==
  ASSUME NEW g, Passkeys!CeremonyAssumption, PInv, [Passkeys!Next]_Passkeys!vars,
         g \in Held
  PROVE  HeldSound(g)'
<1>a. held \in [Held -> HeldRow] /\ HeldSound(g) /\ HeldAttempts \in Nat
  BY DEF PInv, PTyped, HeldsSound, Passkeys!CeremonyAssumption
<1>b. \A w \in Ceremony : CeremonySound(w)
  BY DEF PInv, CeremoniesSound
<1>0. CASE UNCHANGED Passkeys!vars
  BY <1>0, <1>a DEF Passkeys!vars, HeldSound, HeldRow
<1> DEFINE Goal == HeldSound(g)'
<1>1. ASSUME NEW w \in Ceremony, Passkeys!Consume(w)
      PROVE  Goal
  BY <1>1, <1>a DEF Passkeys!Consume, HeldSound, HeldRow
<1>2. ASSUME NEW w \in Ceremony, Passkeys!FindChallengedAccount(w)
      PROVE  Goal
  <2>1. \/ held' = held
        \/ /\ held' = [held EXCEPT ![work[w].held].state = "gone"]
           /\ held[work[w].held].state # "new"
    BY <1>2, CeremonyKinds DEF Passkeys!FindChallengedAccount
  <2> QED BY <2>1, <1>a DEF HeldRow, HeldSound
<1>3. ASSUME NEW w \in Ceremony, Passkeys!FindByCredentialId(w)
      PROVE  Goal
  BY <1>3, <1>a DEF Passkeys!FindByCredentialId, HeldSound, HeldRow
<1>4. ASSUME NEW w \in Ceremony, Passkeys!Advance(w)
      PROVE  Goal
  BY <1>4, <1>a DEF Passkeys!Advance, HeldSound, HeldRow
<1>5. ASSUME NEW w \in Ceremony, Passkeys!FindAccount(w)
      PROVE  Goal
  BY <1>5, <1>a DEF Passkeys!FindAccount, HeldSound, HeldRow
<1>6. ASSUME NEW w \in Ceremony, Passkeys!Discard(w)
      PROVE  Goal
  <2>1. \/ held' = held
        \/ /\ held' = [held EXCEPT ![work[w].held].state = "gone"]
           /\ held[work[w].held].state # "new"
    BY <1>6, CeremonyKinds DEF Passkeys!Discard
  <2> QED BY <2>1, <1>a DEF HeldRow, HeldSound
<1>7. ASSUME NEW w \in Ceremony, Passkeys!IssueSession(w)
      PROVE  Goal
  BY <1>7, <1>a DEF Passkeys!IssueSession, HeldSound, HeldRow
<1>8. ASSUME NEW w \in Ceremony, Passkeys!RegisterFailure(w)
      PROVE  Goal
  <2>1. PICK n, p :
          \/ held' = held
          \/ /\ held' = [held EXCEPT ![work[w].held].attempts = n,
                                    ![work[w].held].state = p]
             /\ held[work[w].held].state # "new" /\ p \in {"gone", "open"}
    BY <1>8, CeremonyKinds DEF Passkeys!RegisterFailure
  <2> QED BY <2>1, <1>a DEF HeldRow, HeldSound
<1>9. ASSUME NEW w \in Ceremony, Passkeys!Compare(w)
      PROVE  Goal
  BY <1>9, <1>a DEF Passkeys!Compare, HeldSound, HeldRow
<1>10. ASSUME NEW w \in Ceremony, Passkeys!Record(w)
      PROVE  Goal
  BY <1>10, <1>a DEF Passkeys!Record, HeldSound, HeldRow
<1>11. ASSUME NEW w \in Ceremony, Passkeys!Stop(w)
      PROVE  Goal
  BY <1>11, <1>a DEF Passkeys!Stop, HeldSound, HeldRow
<1>12. ASSUME NEW w \in Ceremony, NEW h \in Held, Passkeys!Hold(w, h)
      PROVE  Goal
  BY <1>12, <1>a DEF Passkeys!Hold, HeldSound, HeldRow, Passkeys!NoHeld
<1>13. ASSUME NEW w \in Ceremony, NEW c \in Chal, NEW k \in Key, NEW n \in 0..MaxCounter,
             NEW uv \in Verifies, Passkeys!Present(w, c, k, n, uv)
      PROVE  Goal
  BY <1>13, <1>a DEF Passkeys!Present, HeldSound, HeldRow
<1>14. ASSUME NEW w \in Ceremony, NEW c \in Chal, NEW k \in Key, NEW n \in 0..MaxCounter,
             NEW uv \in Verifies, NEW h \in Held,
             Passkeys!Answer(w, h, c, k, n, uv)
      PROVE  Goal
  BY <1>14, <1>a DEF Passkeys!Answer, HeldSound, HeldRow, Passkeys!Claimable
<1>15. ASSUME NEW w \in Ceremony, NEW c \in Chal, NEW k \in Key, NEW n \in 0..MaxCounter,
             NEW s \in Session, Passkeys!Attest(w, s, c, k, n)
      PROVE  Goal
  BY <1>15, <1>a DEF Passkeys!Attest, HeldSound, HeldRow
<1>16. ASSUME NEW c \in Chal, Passkeys!LoginOptions(c)
      PROVE  Goal
  BY <1>16, <1>a DEF Passkeys!LoginOptions, HeldSound, HeldRow
<1>17. ASSUME NEW c \in Chal, NEW s \in Session, Passkeys!RegistrationOptions(c, s)
      PROVE  Goal
  BY <1>17, <1>a DEF Passkeys!RegistrationOptions, HeldSound, HeldRow
<1>18. ASSUME NEW h \in Held, NEW u \in User, Passkeys!HoldOther(h, u)
      PROVE  Goal
  BY <1>18, <1>a DEF Passkeys!HoldOther, HeldSound, HeldRow, Passkeys!NoHeld
<1>19. ASSUME NEW k \in Key, Passkeys!Remove(k)
      PROVE  Goal
  BY <1>19, <1>a DEF Passkeys!Remove, HeldSound, HeldRow
<1>20. ASSUME NEW u \in User, Passkeys!Deactivate(u)
      PROVE  Goal
  BY <1>20, <1>a DEF Passkeys!Deactivate, HeldSound, HeldRow
<1>21. ASSUME NEW u \in User, Passkeys!TurnFactorOn(u)
      PROVE  Goal
  BY <1>21, <1>a DEF Passkeys!TurnFactorOn, HeldSound, HeldRow
<1>22. ASSUME Passkeys!Tick
      PROVE  Goal
  BY <1>22, <1>a DEF Passkeys!Tick, HeldSound, HeldRow
<1> QED
  BY <1>0, <1>1, <1>2, <1>3, <1>4, <1>5, <1>6, <1>7, <1>8, <1>9, <1>10, <1>11, <1>12,
      <1>13, <1>14, <1>15, <1>16, <1>17, <1>18, <1>19, <1>20, <1>21, <1>22 DEF
      Passkeys!Next

LEMMA CeremonyMoves ==
  ASSUME NEW z \in Ceremony, NEW p \in CeremonyPc, work \in [Ceremony -> CeremonyRow],
         CeremonySound(z), work' = [work EXCEPT ![z].pc = p], work[z].kind # "none",
         chal'[work[z].chal].state # "new",
         work[z].kind = "second" => held'[work[z].held].state # "new",
         work[z].kind = "login" => p \in Assertion \cup Ended \cup {"load", "hold",
           "held"},
         work[z].kind = "second" => p \in Assertion \cup Ended \cup {"account",
           "discard"},
         work[z].kind = "register" =>
           p \in {"consume", "compare", "record"} \cup Ended /\ p # "issue",
         p \in {"advance", "load", "hold"} => work[z].read.owner \in User,
         p # "advance"
  PROVE  CeremonySound(z)'
<1>1. work'[z] = [work[z] EXCEPT !.pc = p] /\ work[z] \in CeremonyRow
  OBVIOUS
<1>2. /\ work'[z].pc = p /\ work'[z].kind = work[z].kind /\ work'[z].chal = work[z].chal
      /\ work'[z].key = work[z].key /\ work'[z].session = work[z].session
      /\ work'[z].held = work[z].held /\ work'[z].read = work[z].read
  BY <1>1 DEF CeremonyRow
<1> QED BY <1>2 DEF CeremonySound

LEMMA KindOfIdle ==
  ASSUME PInv, NEW w \in Ceremony, work[w].pc = "idle"
  PROVE  work[w].kind = "none"
<1>1. work[w] \in CeremonyRow /\ CeremonySound(w)
  BY DEF PInv, PTyped, CeremoniesSound
<1>2. work[w].kind \in {"none", "login", "second", "register"}
  BY <1>1 DEF CeremonyRow
<1> QED BY <1>1, <1>2 DEF CeremonySound, Assertion, Ended

LEMMA CeremoniesStep ==
  ASSUME NEW z, Passkeys!CeremonyAssumption, PInv, [Passkeys!Next]_Passkeys!vars,
         z \in Ceremony
  PROVE  CeremonySound(z)'
<1>a. work \in [Ceremony -> CeremonyRow] /\ CeremonySound(z)
  BY DEF PInv, PTyped, CeremoniesSound
<1>b. work[z].kind # "none" => chal'[work[z].chal].state # "new"
  BY <1>a, ChalKept DEF CeremonySound
<1>c. work[z].kind = "second" => held'[work[z].held].state # "new"
  BY <1>a, HeldKept DEF CeremonySound
<1>d. work'[z] = work[z] => CeremonySound(z)'
  BY <1>a, <1>b, <1>c DEF CeremonySound
<1>e. \A d \in Chal : ChalSound(d)
  BY DEF PInv, ChalsSound
<1>f. held \in [Held -> HeldRow]
  BY DEF PInv, PTyped
<1>0. CASE UNCHANGED Passkeys!vars
  BY <1>0, <1>a, <1>d DEF Passkeys!vars
<1> DEFINE Goal == CeremonySound(z)'
<1>1. ASSUME NEW w \in Ceremony, Passkeys!Consume(w)
      PROVE  Goal
  <2>1. CASE z # w
    BY <1>1, <2>1, <1>a, <1>d DEF Passkeys!Consume
  <2>2. CASE z = w
    <3>1. \E p \in {"compare", "find", "failed"} :
            /\ work' = [work EXCEPT ![z].pc = p]
            /\ p = "compare" => work[z].kind = "register"
            /\ p = "find" => work[z].kind # "register"
      BY <1>1, <2>2 DEF Passkeys!Consume
    <3>2. PICK p \in {"compare", "find", "failed"} :
            /\ work' = [work EXCEPT ![z].pc = p]
            /\ p = "compare" => work[z].kind = "register"
            /\ p = "find" => work[z].kind # "register"
      BY <3>1
    <3>3. work[z].kind # "none"
      BY <1>1, <2>2, CeremonyKinds DEF Passkeys!Consume
    <3> QED BY <3>2, <3>3, <1>a, <1>b, <1>c, CeremonyMoves
              DEF CeremonyPc, Assertion, Ended
  <2> QED BY <2>1, <2>2
<1>2. ASSUME NEW w \in Ceremony, Passkeys!FindChallengedAccount(w)
      PROVE  Goal
  <2>1. CASE z # w
    BY <1>2, <2>1, <1>a, <1>d DEF Passkeys!FindChallengedAccount
  <2>2. CASE z = w
    <3>1. \E p \in {"consume", "failed", "refused"} : work' = [work EXCEPT ![z].pc = p]
      BY <1>2, <2>2 DEF Passkeys!FindChallengedAccount
    <3>2. PICK p \in {"consume", "failed", "refused"} : work' = [work EXCEPT ![z].pc = p]
      BY <3>1
    <3>3. work[z].kind # "none"
      BY <1>2, <2>2, CeremonyKinds DEF Passkeys!FindChallengedAccount
    <3>4. work[z].kind = "second"
      BY <1>2, <2>2, <1>a, CeremonyKinds
         DEF Passkeys!FindChallengedAccount, CeremonySound
    <3> QED BY <3>2, <3>3, <3>4, <1>a, <1>b, <1>c, CeremonyMoves
              DEF CeremonyPc, Assertion, Ended
  <2> QED BY <2>1, <2>2
<1>3. ASSUME NEW w \in Ceremony, Passkeys!FindByCredentialId(w)
      PROVE  Goal
  <2>1. CASE z # w
    BY <1>3, <2>1, <1>a, <1>d DEF Passkeys!FindByCredentialId
  <2>2. CASE z = w
    BY <1>3, <2>2, <1>a, <1>b, <1>c DEF Passkeys!FindByCredentialId, CeremonySound,
        CeremonyRow, Assertion, Ended
  <2> QED BY <2>1, <2>2
<1>4. ASSUME NEW w \in Ceremony, Passkeys!Advance(w)
      PROVE  Goal
  <2>1. CASE z # w
    BY <1>4, <2>1, <1>a, <1>d DEF Passkeys!Advance
  <2>2. CASE z = w
    <3>1. \E p \in {"load", "discard", "failed"} :
            /\ work' = [work EXCEPT ![z].pc = p]
            /\ p = "load" => work[z].kind = "login"
            /\ p = "discard" => work[z].kind # "login"
      BY <1>4, <2>2 DEF Passkeys!Advance
    <3>2. PICK p \in {"load", "discard", "failed"} :
            /\ work' = [work EXCEPT ![z].pc = p]
            /\ p = "load" => work[z].kind = "login"
            /\ p = "discard" => work[z].kind # "login"
      BY <3>1
    <3>3. work[z].kind \in {"login", "second"} /\ work[z].read.owner \in User
      BY <1>4, <2>2, <1>a, CeremonyKinds DEF Passkeys!Advance, CeremonySound
    <3> QED BY <3>2, <3>3, <1>a, <1>b, <1>c, CeremonyMoves
              DEF CeremonyPc, Assertion, Ended
  <2> QED BY <2>1, <2>2
<1>5. ASSUME NEW w \in Ceremony, Passkeys!FindAccount(w)
      PROVE  Goal
  <2>1. CASE z # w
    BY <1>5, <2>1, <1>a, <1>d DEF Passkeys!FindAccount
  <2>2. CASE z = w
    BY <1>5, <2>2, <1>a, <1>b, <1>c
       DEF Passkeys!FindAccount, CeremonySound, CeremonyRow,
        Assertion, Ended
  <2> QED BY <2>1, <2>2
<1>6. ASSUME NEW w \in Ceremony, Passkeys!Discard(w)
      PROVE  Goal
  <2>1. CASE z # w
    BY <1>6, <2>1, <1>a, <1>d DEF Passkeys!Discard
  <2>2. CASE z = w
    <3>1. \E p \in {"issue"} : work' = [work EXCEPT ![z].pc = p]
      BY <1>6, <2>2 DEF Passkeys!Discard
    <3>2. PICK p \in {"issue"} : work' = [work EXCEPT ![z].pc = p]
      BY <3>1
    <3>3. work[z].kind # "none"
      BY <1>6, <2>2, CeremonyKinds DEF Passkeys!Discard
    <3>4. work[z].kind = "second"
      BY <1>6, <2>2, <1>a, CeremonyKinds DEF Passkeys!Discard, CeremonySound
    <3> QED BY <3>2, <3>3, <3>4, <1>a, <1>b, <1>c, CeremonyMoves
              DEF CeremonyPc, Assertion, Ended
  <2> QED BY <2>1, <2>2
<1>7. ASSUME NEW w \in Ceremony, Passkeys!IssueSession(w)
      PROVE  Goal
  <2>1. CASE z # w
    BY <1>7, <2>1, <1>a, <1>d DEF Passkeys!IssueSession
  <2>2. CASE z = w
    <3>1. \E p \in {"done", "refused"} : work' = [work EXCEPT ![z].pc = p]
      BY <1>7, <2>2 DEF Passkeys!IssueSession
    <3>2. PICK p \in {"done", "refused"} : work' = [work EXCEPT ![z].pc = p]
      BY <3>1
    <3>3. work[z].kind # "none"
      BY <1>7, <2>2, CeremonyKinds DEF Passkeys!IssueSession
    <3>4. TRUE
      BY <1>7, <2>2, <1>a, CeremonyKinds DEF Passkeys!IssueSession, CeremonySound
    <3> QED BY <3>2, <3>3, <3>4, <1>a, <1>b, <1>c, CeremonyMoves
              DEF CeremonyPc, Assertion, Ended
  <2> QED BY <2>1, <2>2
<1>8. ASSUME NEW w \in Ceremony, Passkeys!RegisterFailure(w)
      PROVE  Goal
  <2>1. CASE z # w
    BY <1>8, <2>1, <1>a, <1>d DEF Passkeys!RegisterFailure
  <2>2. CASE z = w
    <3>1. \E p \in {"refused"} : work' = [work EXCEPT ![z].pc = p]
      BY <1>8, <2>2 DEF Passkeys!RegisterFailure
    <3>2. PICK p \in {"refused"} : work' = [work EXCEPT ![z].pc = p]
      BY <3>1
    <3>3. work[z].kind # "none"
      BY <1>8, <2>2, CeremonyKinds DEF Passkeys!RegisterFailure
    <3>4. TRUE
      BY <1>8, <2>2, <1>a, CeremonyKinds DEF Passkeys!RegisterFailure, CeremonySound
    <3> QED BY <3>2, <3>3, <3>4, <1>a, <1>b, <1>c, CeremonyMoves
              DEF CeremonyPc, Assertion, Ended
  <2> QED BY <2>1, <2>2
<1>9. ASSUME NEW w \in Ceremony, Passkeys!Compare(w)
      PROVE  Goal
  <2>1. CASE z # w
    BY <1>9, <2>1, <1>a, <1>d DEF Passkeys!Compare
  <2>2. CASE z = w
    <3>1. \E p \in {"record", "refused"} : work' = [work EXCEPT ![z].pc = p]
      BY <1>9, <2>2 DEF Passkeys!Compare
    <3>2. PICK p \in {"record", "refused"} : work' = [work EXCEPT ![z].pc = p]
      BY <3>1
    <3>3. work[z].kind # "none"
      BY <1>9, <2>2, CeremonyKinds DEF Passkeys!Compare
    <3>4. work[z].kind = "register"
      BY <1>9, <2>2, <1>a, CeremonyKinds DEF Passkeys!Compare, CeremonySound
    <3> QED BY <3>2, <3>3, <3>4, <1>a, <1>b, <1>c, CeremonyMoves
              DEF CeremonyPc, Assertion, Ended
  <2> QED BY <2>1, <2>2
<1>10. ASSUME NEW w \in Ceremony, Passkeys!Record(w)
      PROVE  Goal
  <2>1. CASE z # w
    BY <1>10, <2>1, <1>a, <1>d DEF Passkeys!Record
  <2>2. CASE z = w
    <3>1. \E p \in {"done", "refused"} : work' = [work EXCEPT ![z].pc = p]
      BY <1>10, <2>2 DEF Passkeys!Record
    <3>2. PICK p \in {"done", "refused"} : work' = [work EXCEPT ![z].pc = p]
      BY <3>1
    <3>3. work[z].kind # "none"
      BY <1>10, <2>2, CeremonyKinds DEF Passkeys!Record
    <3>4. work[z].kind = "register"
      BY <1>10, <2>2, <1>a, CeremonyKinds DEF Passkeys!Record, CeremonySound
    <3> QED BY <3>2, <3>3, <3>4, <1>a, <1>b, <1>c, CeremonyMoves
              DEF CeremonyPc, Assertion, Ended
  <2> QED BY <2>1, <2>2
<1>11. ASSUME NEW w \in Ceremony, Passkeys!Stop(w)
      PROVE  Goal
  <2>1. CASE z # w
    BY <1>11, <2>1, <1>a, <1>d DEF Passkeys!Stop
  <2>2. CASE z = w
    <3>1. \E p \in {"stopped"} : work' = [work EXCEPT ![z].pc = p]
      BY <1>11, <2>2 DEF Passkeys!Stop
    <3>2. PICK p \in {"stopped"} : work' = [work EXCEPT ![z].pc = p]
      BY <3>1
    <3>3. work[z].kind # "none"
      BY <1>11, <2>2, CeremonyKinds DEF Passkeys!Stop
    <3>4. TRUE
      BY <1>11, <2>2, <1>a, CeremonyKinds DEF Passkeys!Stop, CeremonySound
    <3> QED BY <3>2, <3>3, <3>4, <1>a, <1>b, <1>c, CeremonyMoves
              DEF CeremonyPc, Assertion, Ended
  <2> QED BY <2>1, <2>2
<1>12. ASSUME NEW w \in Ceremony, NEW h \in Held, Passkeys!Hold(w, h)
      PROVE  Goal
  <2>1. CASE z # w
    BY <1>12, <2>1, <1>a, <1>d DEF Passkeys!Hold
  <2>2. CASE z = w
    <3>1. \E p \in {"held"} : work' = [work EXCEPT ![z].pc = p]
      BY <1>12, <2>2 DEF Passkeys!Hold
    <3>2. PICK p \in {"held"} : work' = [work EXCEPT ![z].pc = p]
      BY <3>1
    <3>3. work[z].kind # "none"
      BY <1>12, <2>2, CeremonyKinds DEF Passkeys!Hold
    <3>4. work[z].kind = "login"
      BY <1>12, <2>2, <1>a, CeremonyKinds DEF Passkeys!Hold, CeremonySound
    <3> QED BY <3>2, <3>3, <3>4, <1>a, <1>b, <1>c, CeremonyMoves
              DEF CeremonyPc, Assertion, Ended
  <2> QED BY <2>1, <2>2
<1>13. ASSUME NEW w \in Ceremony, NEW c \in Chal, NEW k \in Key, NEW n \in 0..MaxCounter,
             NEW uv \in Verifies, Passkeys!Present(w, c, k, n, uv)
      PROVE  Goal
  <2>1. CASE z # w
    BY <1>13, <2>1, <1>a, <1>d DEF Passkeys!Present
  <2>2. CASE z = w
    <3>1. work[z] \in CeremonyRow /\ work[z].kind = "none" /\ work[z] = Passkeys!NoWork
      BY <1>13, <2>2, <1>a, CeremonyKinds, KindOfIdle DEF Passkeys!Present
    <3>2. /\ work'[z].kind = "login" /\ work'[z].pc = "consume" /\ work'[z].chal = c
          /\ work'[z].key = k /\ work'[z].held = None
      BY <1>13, <2>2, <3>1, <1>a DEF Passkeys!Present, CeremonyRow, Passkeys!NoWork
    <3>3. chal[c].state # "new" /\ chal' = chal
      BY <1>13, <1>e DEF Passkeys!Present, ChalSound, Passkeys!Cookie
    <3> QED BY <3>2, <3>3 DEF CeremonySound, Assertion, Ended
  <2> QED BY <2>1, <2>2
<1>14. ASSUME NEW w \in Ceremony, NEW c \in Chal, NEW k \in Key, NEW n \in 0..MaxCounter,
             NEW uv \in Verifies, NEW h \in Held,
             Passkeys!Answer(w, h, c, k, n, uv)
      PROVE  Goal
  <2>1. CASE z # w
    BY <1>14, <2>1, <1>a, <1>d DEF Passkeys!Answer
  <2>2. CASE z = w
    <3>1. work[z] \in CeremonyRow /\ work[z].kind = "none" /\ work[z] = Passkeys!NoWork
      BY <1>14, <2>2, <1>a, CeremonyKinds, KindOfIdle DEF Passkeys!Answer
    <3>2. /\ work'[z].kind = "second" /\ work'[z].pc = "account" /\ work'[z].chal = c
          /\ work'[z].key = k /\ work'[z].held = h
      BY <1>14, <2>2, <3>1, <1>a DEF Passkeys!Answer, CeremonyRow, Passkeys!NoWork
    <3>3. chal[c].state # "new" /\ chal' = chal
      BY <1>14, <1>e DEF Passkeys!Answer, ChalSound, Passkeys!Cookie
    <3>4. held'[h].state # "new"
      BY <1>14, <1>f DEF Passkeys!Answer, HeldRow
    <3> QED BY <3>2, <3>3, <3>4 DEF CeremonySound, Assertion, Ended
  <2> QED BY <2>1, <2>2
<1>15. ASSUME NEW w \in Ceremony, NEW c \in Chal, NEW k \in Key, NEW n \in 0..MaxCounter,
             NEW s \in Session, Passkeys!Attest(w, s, c, k, n)
      PROVE  Goal
  <2>1. CASE z # w
    BY <1>15, <2>1, <1>a, <1>d DEF Passkeys!Attest
  <2>2. CASE z = w
    <3>1. work[z] \in CeremonyRow /\ work[z].kind = "none" /\ work[z] = Passkeys!NoWork
      BY <1>15, <2>2, <1>a, CeremonyKinds, KindOfIdle DEF Passkeys!Attest
    <3>2. /\ work'[z].kind = "register" /\ work'[z].pc = "consume" /\ work'[z].chal = c
          /\ work'[z].key = k /\ work'[z].session = s /\ work'[z].held = None
      BY <1>15, <2>2, <3>1, <1>a DEF Passkeys!Attest, CeremonyRow, Passkeys!NoWork
    <3>3. chal[c].state # "new" /\ chal' = chal
      BY <1>15, <1>e DEF Passkeys!Attest, ChalSound, Passkeys!Cookie
    <3> QED BY <3>2, <3>3 DEF CeremonySound, Assertion, Ended
  <2> QED BY <2>1, <2>2
<1>16. ASSUME NEW c \in Chal, Passkeys!LoginOptions(c)
      PROVE  Goal
  BY <1>16, <1>a, <1>d DEF Passkeys!LoginOptions
<1>17. ASSUME NEW c \in Chal, NEW s \in Session, Passkeys!RegistrationOptions(c, s)
      PROVE  Goal
  BY <1>17, <1>a, <1>d DEF Passkeys!RegistrationOptions
<1>18. ASSUME NEW h \in Held, NEW u \in User, Passkeys!HoldOther(h, u)
      PROVE  Goal
  BY <1>18, <1>a, <1>d DEF Passkeys!HoldOther
<1>19. ASSUME NEW k \in Key, Passkeys!Remove(k)
      PROVE  Goal
  BY <1>19, <1>a, <1>d DEF Passkeys!Remove
<1>20. ASSUME NEW u \in User, Passkeys!Deactivate(u)
      PROVE  Goal
  BY <1>20, <1>a, <1>d DEF Passkeys!Deactivate
<1>21. ASSUME NEW u \in User, Passkeys!TurnFactorOn(u)
      PROVE  Goal
  BY <1>21, <1>a, <1>d DEF Passkeys!TurnFactorOn
<1>22. ASSUME Passkeys!Tick
      PROVE  Goal
  BY <1>22, <1>a, <1>d DEF Passkeys!Tick
<1> QED
  BY <1>0, <1>1, <1>2, <1>3, <1>4, <1>5, <1>6, <1>7, <1>8, <1>9, <1>10, <1>11, <1>12,
      <1>13, <1>14, <1>15, <1>16, <1>17, <1>18, <1>19, <1>20, <1>21, <1>22 DEF
      Passkeys!Next

LEMMA FindingDoes ==
  ASSUME NEW z, Passkeys!CeremonyAssumption, PInv, [Passkeys!Next]_Passkeys!vars,
         z \in Ceremony
  PROVE  work'[z].pc \in Finding =>
           /\ work'[z].chal = work[z].chal /\ chal'[work[z].chal].state = "gone"
           /\ \/ work[z].pc \in Finding
              \/ /\ chal[work[z].chal].state = "open" /\ uses' = uses /\ made' = made
                 /\ \A v \in Ceremony : v # z => work'[v] = work[v]
<1>a. work \in [Ceremony -> CeremonyRow] /\ \A d \in Chal : chal[d] \in ChalRow
  BY DEF PInv, PTyped
<1>b. SpentSound(z)
  BY DEF PInv, SpentOnce
<1>0. CASE UNCHANGED Passkeys!vars
  BY <1>0, <1>a, <1>b DEF Passkeys!vars, SpentSound
<1> DEFINE Goal ==
         work'[z].pc \in Finding =>
           /\ work'[z].chal = work[z].chal /\ chal'[work[z].chal].state = "gone"
           /\ \/ work[z].pc \in Finding
              \/ /\ chal[work[z].chal].state = "open" /\ uses' = uses /\ made' = made
                 /\ \A v \in Ceremony : v # z => work'[v] = work[v]
<1>1. ASSUME NEW w \in Ceremony, Passkeys!Consume(w)
      PROVE  Goal
  <2>1. CASE z # w
    <3>1. work'[z] = work[z]
      BY <1>1, <2>1, <1>a DEF Passkeys!Consume
    <3>2. work[z].pc \in Finding => work[z].chal \in Chal
            /\ chal'[work[z].chal].state = "gone"
      BY CeremonyKinds, ChalKept, <1>b DEF SpentSound, Finding
    <3> QED BY <3>1, <3>2
  <2>2. CASE z = w
    <3>1. CASE work' = [work EXCEPT ![w].pc = "failed"]
      BY <2>2, <3>1, <1>a DEF Finding, CeremonyRow
    <3>2. CASE work' # [work EXCEPT ![w].pc = "failed"]
      <4>1. /\ chal[work[z].chal].state = "open"
            /\ chal' = [chal EXCEPT ![work[z].chal].state = "gone"]
            /\ \E p \in {"compare", "find"} : work' = [work EXCEPT ![z].pc = p]
            /\ uses' = uses /\ made' = made
        BY <1>1, <2>2, <3>2 DEF Passkeys!Consume, Passkeys!SpendChallenge
      <4>2. work[z].chal \in Chal
        BY <1>1, <2>2, CeremonyKinds DEF Passkeys!Consume
      <4>3. chal'[work[z].chal].state = "gone"
        BY <4>1, <4>2, <1>a DEF ChalRow, PInv, PTyped
      <4>4. work'[z].chal = work[z].chal /\ \A v \in Ceremony : v # z => work'[v] = work[v]
        BY <4>1, <1>a DEF CeremonyRow
      <4> QED BY <4>1, <4>3, <4>4
    <3> QED BY <3>1, <3>2
  <2> QED BY <2>1, <2>2
<1>2. ASSUME NEW w \in Ceremony, Passkeys!FindChallengedAccount(w)
      PROVE  Goal
  <2>1. CASE z # w
    BY <1>2, <2>1, <1>a, <1>b DEF Passkeys!FindChallengedAccount, SpentSound
  <2>2. CASE z = w
    BY <1>2, <2>2, <1>a, <1>b
       DEF Passkeys!FindChallengedAccount, CeremonyRow, SpentSound, Finding
  <2> QED BY <2>1, <2>2
<1>3. ASSUME NEW w \in Ceremony, Passkeys!FindByCredentialId(w)
      PROVE  Goal
  <2>1. CASE z # w
    BY <1>3, <2>1, <1>a, <1>b DEF Passkeys!FindByCredentialId, SpentSound
  <2>2. CASE z = w
    BY <1>3, <2>2, <1>a, <1>b
       DEF Passkeys!FindByCredentialId, CeremonyRow, SpentSound, Finding
  <2> QED BY <2>1, <2>2
<1>4. ASSUME NEW w \in Ceremony, Passkeys!Advance(w)
      PROVE  Goal
  <2>1. CASE z # w
    BY <1>4, <2>1, <1>a, <1>b DEF Passkeys!Advance, SpentSound
  <2>2. CASE z = w
    BY <1>4, <2>2, <1>a, <1>b DEF Passkeys!Advance, CeremonyRow, SpentSound, Finding
  <2> QED BY <2>1, <2>2
<1>5. ASSUME NEW w \in Ceremony, Passkeys!FindAccount(w)
      PROVE  Goal
  <2>1. CASE z # w
    BY <1>5, <2>1, <1>a, <1>b DEF Passkeys!FindAccount, SpentSound
  <2>2. CASE z = w
    BY <1>5, <2>2, <1>a, <1>b DEF Passkeys!FindAccount, CeremonyRow, SpentSound, Finding
  <2> QED BY <2>1, <2>2
<1>6. ASSUME NEW w \in Ceremony, Passkeys!Discard(w)
      PROVE  Goal
  <2>1. CASE z # w
    BY <1>6, <2>1, <1>a, <1>b DEF Passkeys!Discard, SpentSound
  <2>2. CASE z = w
    BY <1>6, <2>2, <1>a, <1>b DEF Passkeys!Discard, CeremonyRow, SpentSound, Finding
  <2> QED BY <2>1, <2>2
<1>7. ASSUME NEW w \in Ceremony, Passkeys!IssueSession(w)
      PROVE  Goal
  <2>1. CASE z # w
    BY <1>7, <2>1, <1>a, <1>b DEF Passkeys!IssueSession, SpentSound
  <2>2. CASE z = w
    BY <1>7, <2>2, <1>a, <1>b
       DEF Passkeys!IssueSession, CeremonyRow, SpentSound, Finding
  <2> QED BY <2>1, <2>2
<1>8. ASSUME NEW w \in Ceremony, Passkeys!RegisterFailure(w)
      PROVE  Goal
  <2>1. CASE z # w
    BY <1>8, <2>1, <1>a, <1>b DEF Passkeys!RegisterFailure, SpentSound
  <2>2. CASE z = w
    BY <1>8, <2>2, <1>a, <1>b
       DEF Passkeys!RegisterFailure, CeremonyRow, SpentSound, Finding
  <2> QED BY <2>1, <2>2
<1>9. ASSUME NEW w \in Ceremony, Passkeys!Compare(w)
      PROVE  Goal
  <2>1. CASE z # w
    BY <1>9, <2>1, <1>a, <1>b DEF Passkeys!Compare, SpentSound
  <2>2. CASE z = w
    BY <1>9, <2>2, <1>a, <1>b DEF Passkeys!Compare, CeremonyRow, SpentSound, Finding
  <2> QED BY <2>1, <2>2
<1>10. ASSUME NEW w \in Ceremony, Passkeys!Record(w)
      PROVE  Goal
  <2>1. CASE z # w
    BY <1>10, <2>1, <1>a, <1>b DEF Passkeys!Record, SpentSound
  <2>2. CASE z = w
    BY <1>10, <2>2, <1>a, <1>b DEF Passkeys!Record, CeremonyRow, SpentSound, Finding
  <2> QED BY <2>1, <2>2
<1>11. ASSUME NEW w \in Ceremony, Passkeys!Stop(w)
      PROVE  Goal
  <2>1. CASE z # w
    BY <1>11, <2>1, <1>a, <1>b DEF Passkeys!Stop, SpentSound
  <2>2. CASE z = w
    BY <1>11, <2>2, <1>a, <1>b DEF Passkeys!Stop, CeremonyRow, SpentSound, Finding
  <2> QED BY <2>1, <2>2
<1>12. ASSUME NEW w \in Ceremony, NEW h \in Held, Passkeys!Hold(w, h)
      PROVE  Goal
  <2>1. CASE z # w
    BY <1>12, <2>1, <1>a, <1>b DEF Passkeys!Hold, SpentSound
  <2>2. CASE z = w
    BY <1>12, <2>2, <1>a, <1>b DEF Passkeys!Hold, CeremonyRow, SpentSound, Finding
  <2> QED BY <2>1, <2>2
<1>13. ASSUME NEW w \in Ceremony, NEW c \in Chal, NEW k \in Key, NEW n \in 0..MaxCounter,
             NEW uv \in Verifies, Passkeys!Present(w, c, k, n, uv)
      PROVE  Goal
  <2>1. CASE z # w
    BY <1>13, <2>1, <1>a, <1>b DEF Passkeys!Present, SpentSound
  <2>2. CASE z = w
    BY <1>13, <2>2, <1>a, <1>b DEF Passkeys!Present, CeremonyRow, SpentSound, Finding
  <2> QED BY <2>1, <2>2
<1>14. ASSUME NEW w \in Ceremony, NEW c \in Chal, NEW k \in Key, NEW n \in 0..MaxCounter,
             NEW uv \in Verifies, NEW h \in Held,
             Passkeys!Answer(w, h, c, k, n, uv)
      PROVE  Goal
  <2>1. CASE z # w
    BY <1>14, <2>1, <1>a, <1>b DEF Passkeys!Answer, SpentSound
  <2>2. CASE z = w
    BY <1>14, <2>2, <1>a, <1>b DEF Passkeys!Answer, CeremonyRow, SpentSound, Finding
  <2> QED BY <2>1, <2>2
<1>15. ASSUME NEW w \in Ceremony, NEW c \in Chal, NEW k \in Key, NEW n \in 0..MaxCounter,
             NEW s \in Session, Passkeys!Attest(w, s, c, k, n)
      PROVE  Goal
  <2>1. CASE z # w
    BY <1>15, <2>1, <1>a, <1>b DEF Passkeys!Attest, SpentSound
  <2>2. CASE z = w
    BY <1>15, <2>2, <1>a, <1>b DEF Passkeys!Attest, CeremonyRow, SpentSound, Finding
  <2> QED BY <2>1, <2>2
<1>16. ASSUME NEW c \in Chal, Passkeys!LoginOptions(c)
      PROVE  Goal
  <2>1. work' = work
    BY <1>16 DEF Passkeys!LoginOptions
  <2>2. work[z].pc \in Finding => work[z].chal \in Chal
          /\ chal'[work[z].chal].state = "gone"
    BY CeremonyKinds, ChalKept, <1>b DEF SpentSound, Finding
  <2> QED BY <2>1, <2>2
<1>17. ASSUME NEW c \in Chal, NEW s \in Session, Passkeys!RegistrationOptions(c, s)
      PROVE  Goal
  <2>1. work' = work
    BY <1>17 DEF Passkeys!RegistrationOptions
  <2>2. work[z].pc \in Finding => work[z].chal \in Chal
          /\ chal'[work[z].chal].state = "gone"
    BY CeremonyKinds, ChalKept, <1>b DEF SpentSound, Finding
  <2> QED BY <2>1, <2>2
<1>18. ASSUME NEW h \in Held, NEW u \in User, Passkeys!HoldOther(h, u)
      PROVE  Goal
  BY <1>18, <1>a, <1>b DEF Passkeys!HoldOther, SpentSound
<1>19. ASSUME NEW k \in Key, Passkeys!Remove(k)
      PROVE  Goal
  BY <1>19, <1>a, <1>b DEF Passkeys!Remove, SpentSound
<1>20. ASSUME NEW u \in User, Passkeys!Deactivate(u)
      PROVE  Goal
  BY <1>20, <1>a, <1>b DEF Passkeys!Deactivate, SpentSound
<1>21. ASSUME NEW u \in User, Passkeys!TurnFactorOn(u)
      PROVE  Goal
  BY <1>21, <1>a, <1>b DEF Passkeys!TurnFactorOn, SpentSound
<1>22. ASSUME Passkeys!Tick
      PROVE  Goal
  BY <1>22, <1>a, <1>b DEF Passkeys!Tick, SpentSound
<1> QED
  BY <1>0, <1>1, <1>2, <1>3, <1>4, <1>5, <1>6, <1>7, <1>8, <1>9, <1>10, <1>11, <1>12,
      <1>13, <1>14, <1>15, <1>16, <1>17, <1>18, <1>19, <1>20, <1>21, <1>22 DEF
      Passkeys!Next

LEMMA SpentOfMade ==
  ASSUME NEW z, Passkeys!CeremonyAssumption, PInv, [Passkeys!Next]_Passkeys!vars,
         z \in Ceremony,
         work'[z].pc \in Finding
  PROVE  \A v \in made' : work'[v].chal # work'[z].chal
<1>a. /\ work \in [Ceremony -> CeremonyRow] /\ made \subseteq Ceremony
      /\ \A v \in Ceremony : SpentSound(v)
  BY DEF PInv, PTyped, SpentOnce
<1>b. UsedOnce
  BY DEF PInv
<1>1. /\ work'[z].chal = work[z].chal
      /\ \/ work[z].pc \in Finding
         \/ chal[work[z].chal].state = "open" /\ made' = made
  BY FindingDoes
<1>2. ASSUME NEW v \in made
      PROVE  work'[v].chal # work'[z].chal
  <2>1. work'[v] = work[v] /\ chal[work[v].chal].state = "gone"
    BY <1>a, <1>b, EndedStays DEF UsedOnce
  <2>2. work[z].pc \in Finding => work[v].chal # work[z].chal
    BY <1>a DEF SpentSound
  <2> QED BY <1>1, <2>1, <2>2
<1>3. ASSUME NEW v \in made', v \notin made
      PROVE  work'[v].chal # work'[z].chal
  <2>1. v \in Ceremony /\ Passkeys!Record(v) /\ work'[v].pc = "done"
    BY <1>3, MadeDoes
  <2>2. work[v].pc = "record" /\ work'[v].chal = work[v].chal
    BY <2>1, <1>a DEF Passkeys!Record, CeremonyRow
  <2>3. work[z].pc \in Finding /\ v # z
    BY <1>1, <1>3, <2>1 DEF Finding
  <2> QED BY <1>1, <2>1, <2>2, <2>3, <1>a DEF SpentSound, Finding
<1> QED BY <1>2, <1>3

LEMMA ChallengeSpentStep ==
  ASSUME NEW z, Passkeys!CeremonyAssumption, PInv, [Passkeys!Next]_Passkeys!vars,
         z \in Ceremony
  PROVE  SpentSound(z)'
<1> SUFFICES ASSUME work'[z].pc \in Finding
             PROVE  SpentSound(z)'
  BY DEF SpentSound
<1>a. /\ work \in [Ceremony -> CeremonyRow] /\ uses \in Seq(UseRow)
      /\ \A v \in Ceremony : SpentSound(v)
  BY DEF PInv, PTyped, SpentOnce
<1>b. UsedOnce
  BY DEF PInv
<1>1. /\ work'[z].chal = work[z].chal /\ chal'[work[z].chal].state = "gone"
      /\ \/ work[z].pc \in Finding
         \/ /\ chal[work[z].chal].state = "open" /\ uses' = uses /\ made' = made
            /\ \A v \in Ceremony : v # z => work'[v] = work[v]
  BY FindingDoes
<1>2. ASSUME NEW v \in Ceremony, v # z, work'[v].pc \in Finding
      PROVE  work'[v].chal # work'[z].chal
  <2>1. /\ work'[v].chal = work[v].chal
        /\ \/ work[v].pc \in Finding
           \/ /\ chal[work[v].chal].state = "open"
              /\ \A y \in Ceremony : y # v => work'[y] = work[y]
    BY <1>2, FindingDoes
  <2>2. work[v].pc \in Finding => chal[work[v].chal].state = "gone"
    BY <1>a DEF SpentSound
  <2>3. work[z].pc \in Finding => chal[work[z].chal].state = "gone"
    BY <1>a DEF SpentSound
  <2>4. work[v].pc \in Finding /\ work[z].pc \in Finding => work[v].chal # work[z].chal
    BY <1>2, <1>a DEF SpentSound
  <2>5. work[v].pc \in Finding \/ work[z].pc \in Finding
    BY <1>1, <1>2, <2>1
  <2> QED BY <1>1, <2>1, <2>2, <2>3, <2>4, <2>5
<1>3. CASE uses' = uses
  <2>1. \A i \in DOMAIN uses : uses[i].chal # work[z].chal
    BY <1>1, <1>a, <1>b DEF SpentSound, UsedOnce
  <2>2. \A i \in DOMAIN uses' : uses'[i].chal # work'[z].chal
    BY <1>1, <1>3, <2>1
  <2> QED BY <1>1, <1>2, <2>2, SpentOfMade DEF SpentSound
<1>4. CASE uses' # uses
  <2>1. PICK y \in Ceremony : Passkeys!Advance(y) /\ uses' = Append(uses, UseOf(y))
    BY <1>4, UsesDo
  <2>2. work[y].pc = "advance" /\ work'[y].pc \notin Finding
    BY <2>1, <1>a DEF Passkeys!Advance, CeremonyRow, Finding
  <2>3. work[z].pc \in Finding /\ y # z
    BY <1>1, <1>4, <2>2
  <2>4. work[y].chal # work[z].chal /\ \A i \in DOMAIN uses : uses[i].chal # work[z].chal
    BY <2>2, <2>3, <1>a DEF SpentSound, Finding
  <2>5. \A i \in DOMAIN uses' : uses'[i].chal # work[z].chal
    BY <2>1, <2>4, <1>a, AppendDoes DEF UseOf
  <2> QED BY <1>1, <1>2, <2>5, SpentOfMade DEF SpentSound
<1> QED BY <1>3, <1>4

LEMMA UsedStep ==
  ASSUME Passkeys!CeremonyAssumption, PInv, [Passkeys!Next]_Passkeys!vars
  PROVE  UsedOnce'
<1>a. /\ work \in [Ceremony -> CeremonyRow] /\ uses \in Seq(UseRow)
      /\ made \subseteq Ceremony /\ \A v \in Ceremony : SpentSound(v)
  BY DEF PInv, PTyped, SpentOnce
<1>e. \A i \in DOMAIN uses : uses[i].chal \in Chal
  <2>1. \A i \in DOMAIN uses : uses[i] \in UseRow
    BY <1>a
  <2> QED BY <2>1 DEF UseRow
<1>b. UsedOnce /\ Passkeys!OneUsePerChallenge
  BY DEF PInv, UsedOnce
<1>c. \A d \in Chal : chal[d].state = "gone" => chal'[d].state = "gone"
  BY ChalKept
<1>d. \A v \in made : /\ work'[v] = work[v] /\ work[v].chal \in Chal
                      /\ work[v].kind = "register" /\ work[v].pc = "done"
  BY <1>a, <1>b, EndedStays, CeremonyKinds DEF UsedOnce
<1>1. CASE uses' = uses /\ made' = made
  BY <1>1, <1>b, <1>c, <1>d, <1>e DEF UsedOnce, Passkeys!OneUsePerChallenge
<1>2. CASE uses' # uses
  <2>1. PICK y \in Ceremony : Passkeys!Advance(y) /\ uses' = Append(uses, UseOf(y))
    BY <1>2, UsesDo
  <2>2. work[y].pc = "advance" /\ made' = made /\ chal' = chal
    BY <2>1 DEF Passkeys!Advance
  <2>3. /\ chal[work[y].chal].state = "gone"
        /\ \A i \in DOMAIN uses : uses[i].chal # work[y].chal
        /\ \A v \in made : work[v].chal # work[y].chal
    BY <2>2, <1>a DEF SpentSound, Finding
  <2>4. /\ DOMAIN uses' = 1..(Len(uses) + 1) /\ DOMAIN uses = 1..Len(uses)
             /\ Len(uses) \in Nat
        /\ uses'[Len(uses) + 1].chal = work[y].chal
        /\ \A i \in DOMAIN uses : uses'[i] = uses[i]
    BY <2>1, <1>a, AppendDoes DEF UseOf
  <2>5. \A i, j \in DOMAIN uses' : uses'[i].chal = uses'[j].chal => i = j
    BY <2>3, <2>4, <1>b DEF Passkeys!OneUsePerChallenge
  <2>6. \A i \in DOMAIN uses', w \in made' : uses'[i].chal # work'[w].chal
    BY <2>2, <2>3, <2>4, <1>b, <1>d DEF Passkeys!OneUsePerChallenge
  <2>7. \A i \in DOMAIN uses' : chal'[uses'[i].chal].state = "gone"
    BY <2>2, <2>3, <2>4, <1>b DEF UsedOnce
  <2>8. \A v \in made' : /\ work'[v].kind = "register" /\ work'[v].pc = "done"
                         /\ chal'[work'[v].chal].state = "gone"
    BY <2>2, <1>b, <1>d DEF UsedOnce
  <2>9. \A v, w \in made' : work'[v].chal = work'[w].chal => v = w
    BY <2>2, <1>b, <1>d DEF Passkeys!OneUsePerChallenge
  <2> QED BY <2>5, <2>6, <2>7, <2>8, <2>9 DEF UsedOnce, Passkeys!OneUsePerChallenge
<1>3. CASE uses' = uses /\ made' # made
  <2>1. PICK y \in Ceremony : /\ Passkeys!Record(y) /\ made' = made \cup {y}
                              /\ work'[y].pc = "done"
    BY <1>3, MadeDoes
  <2>2. /\ work[y].pc = "record" /\ chal' = chal /\ work'[y].chal = work[y].chal
        /\ work'[y].kind = work[y].kind
    BY <2>1, <1>a DEF Passkeys!Record, CeremonyRow
  <2>3. /\ chal[work[y].chal].state = "gone" /\ work[y].kind = "register"
        /\ \A i \in DOMAIN uses : uses[i].chal # work[y].chal
        /\ \A v \in made : work[v].chal # work[y].chal
    BY <2>2, <1>a, CeremonyKinds DEF SpentSound, Finding
  <2>4. \A v \in made' : /\ work'[v].kind = "register" /\ work'[v].pc = "done"
                         /\ chal'[work'[v].chal].state = "gone"
    BY <2>1, <2>2, <2>3, <1>b, <1>d DEF UsedOnce
  <2>5. \A v, w \in made' : work'[v].chal = work'[w].chal => v = w
    BY <2>1, <2>2, <2>3, <1>b, <1>d DEF Passkeys!OneUsePerChallenge
  <2>6. \A i \in DOMAIN uses', w \in made' : uses'[i].chal # work'[w].chal
    BY <1>3, <2>1, <2>2, <2>3, <1>b, <1>d DEF Passkeys!OneUsePerChallenge
  <2>7. \A i, j \in DOMAIN uses' : uses'[i].chal = uses'[j].chal => i = j
    BY <1>3, <1>b DEF Passkeys!OneUsePerChallenge
  <2>8. \A i \in DOMAIN uses' : chal'[uses'[i].chal].state = "gone"
    BY <1>3, <2>2, <1>b DEF UsedOnce
  <2> QED BY <2>4, <2>5, <2>6, <2>7, <2>8 DEF UsedOnce, Passkeys!OneUsePerChallenge
<1> QED BY <1>1, <1>2, <1>3

LEMMA HoldingDoes ==
  ASSUME NEW z, Passkeys!CeremonyAssumption, PInv, [Passkeys!Next]_Passkeys!vars,
         z \in Ceremony
  PROVE  work'[z].kind = "second" /\ work'[z].pc \in Holding =>
           \/ /\ work[z].kind = "second" /\ work[z].pc \in Holding
              /\ work'[z].held = work[z].held
           \/ /\ held[work'[z].held].state = "open"
                   /\ held'[work'[z].held].state = "claimed"
              /\ \A v \in Ceremony : v # z => work'[v] = work[v]
<1>a. work \in [Ceremony -> CeremonyRow] /\ held \in [Held -> HeldRow]
  BY DEF PInv, PTyped
<1>b. ClaimedSound(z)
  BY DEF PInv, ClaimedOnce
<1>c. z \notin sessions \/ work[z].pc = "done"
  BY DEF PInv, AdmittedSound
<1>0. CASE UNCHANGED Passkeys!vars
  BY <1>0, <1>a DEF Passkeys!vars
<1> DEFINE Goal ==
         work'[z].kind = "second" /\ work'[z].pc \in Holding =>
           \/ /\ work[z].kind = "second" /\ work[z].pc \in Holding
              /\ work'[z].held = work[z].held
           \/ /\ held[work'[z].held].state = "open"
                   /\ held'[work'[z].held].state = "claimed"
              /\ \A v \in Ceremony : v # z => work'[v] = work[v]
<1>1. ASSUME NEW w \in Ceremony, Passkeys!Consume(w)
      PROVE  Goal
  <2>1. CASE z # w
    BY <1>1, <2>1, <1>a, <1>b DEF Passkeys!Consume
  <2>2. CASE z = w
    BY <1>1, <2>2, <1>a, <1>b DEF Passkeys!Consume, CeremonyRow, Holding
  <2> QED BY <2>1, <2>2
<1>2. ASSUME NEW w \in Ceremony, Passkeys!FindChallengedAccount(w)
      PROVE  Goal
  <2>1. CASE z # w
    BY <1>2, <2>1, <1>a, <1>b DEF Passkeys!FindChallengedAccount
  <2>2. CASE z = w
    BY <1>2, <2>2, <1>a, <1>b DEF Passkeys!FindChallengedAccount, CeremonyRow, Holding
  <2> QED BY <2>1, <2>2
<1>3. ASSUME NEW w \in Ceremony, Passkeys!FindByCredentialId(w)
      PROVE  Goal
  <2>1. CASE z # w
    BY <1>3, <2>1, <1>a, <1>b DEF Passkeys!FindByCredentialId
  <2>2. CASE z = w
    BY <1>3, <2>2, <1>a, <1>b DEF Passkeys!FindByCredentialId, CeremonyRow, Holding
  <2> QED BY <2>1, <2>2
<1>4. ASSUME NEW w \in Ceremony, Passkeys!Advance(w)
      PROVE  Goal
  <2>1. CASE z # w
    BY <1>4, <2>1, <1>a, <1>b DEF Passkeys!Advance
  <2>2. CASE z = w
    BY <1>4, <2>2, <1>a, <1>b DEF Passkeys!Advance, CeremonyRow, Holding
  <2> QED BY <2>1, <2>2
<1>5. ASSUME NEW w \in Ceremony, Passkeys!FindAccount(w)
      PROVE  Goal
  <2>1. CASE z # w
    BY <1>5, <2>1, <1>a, <1>b DEF Passkeys!FindAccount
  <2>2. CASE z = w
    BY <1>5, <2>2, <1>a, <1>b DEF Passkeys!FindAccount, CeremonyRow, Holding
  <2> QED BY <2>1, <2>2
<1>6. ASSUME NEW w \in Ceremony, Passkeys!Discard(w)
      PROVE  Goal
  <2>1. CASE z # w
    BY <1>6, <2>1, <1>a, <1>b DEF Passkeys!Discard
  <2>2. CASE z = w
    BY <1>6, <2>2, <1>a, <1>b DEF Passkeys!Discard, CeremonyRow, Holding
  <2> QED BY <2>1, <2>2
<1>7. ASSUME NEW w \in Ceremony, Passkeys!IssueSession(w)
      PROVE  Goal
  <2>1. CASE z # w
    BY <1>7, <2>1, <1>a, <1>b DEF Passkeys!IssueSession
  <2>2. CASE z = w
    BY <1>7, <2>2, <1>a, <1>b DEF Passkeys!IssueSession, CeremonyRow, Holding
  <2> QED BY <2>1, <2>2
<1>8. ASSUME NEW w \in Ceremony, Passkeys!RegisterFailure(w)
      PROVE  Goal
  <2>1. CASE z # w
    BY <1>8, <2>1, <1>a, <1>b DEF Passkeys!RegisterFailure
  <2>2. CASE z = w
    BY <1>8, <2>2, <1>a, <1>b DEF Passkeys!RegisterFailure, CeremonyRow, Holding
  <2> QED BY <2>1, <2>2
<1>9. ASSUME NEW w \in Ceremony, Passkeys!Compare(w)
      PROVE  Goal
  <2>1. CASE z # w
    BY <1>9, <2>1, <1>a, <1>b DEF Passkeys!Compare
  <2>2. CASE z = w
    BY <1>9, <2>2, <1>a, <1>b DEF Passkeys!Compare, CeremonyRow, Holding
  <2> QED BY <2>1, <2>2
<1>10. ASSUME NEW w \in Ceremony, Passkeys!Record(w)
      PROVE  Goal
  <2>1. CASE z # w
    BY <1>10, <2>1, <1>a, <1>b DEF Passkeys!Record
  <2>2. CASE z = w
    BY <1>10, <2>2, <1>a, <1>b DEF Passkeys!Record, CeremonyRow, Holding
  <2> QED BY <2>1, <2>2
<1>11. ASSUME NEW w \in Ceremony, Passkeys!Stop(w)
      PROVE  Goal
  <2>1. CASE z # w
    BY <1>11, <2>1, <1>a, <1>b DEF Passkeys!Stop
  <2>2. CASE z = w
    BY <1>11, <2>2, <1>a, <1>b DEF Passkeys!Stop, CeremonyRow, Holding
  <2> QED BY <2>1, <2>2
<1>12. ASSUME NEW w \in Ceremony, NEW h \in Held, Passkeys!Hold(w, h)
      PROVE  Goal
  <2>1. CASE z # w
    BY <1>12, <2>1, <1>a, <1>b DEF Passkeys!Hold
  <2>2. CASE z = w
    BY <1>12, <2>2, <1>a, <1>b DEF Passkeys!Hold, CeremonyRow, Holding
  <2> QED BY <2>1, <2>2
<1>13. ASSUME NEW w \in Ceremony, NEW c \in Chal, NEW k \in Key, NEW n \in 0..MaxCounter,
             NEW uv \in Verifies, Passkeys!Present(w, c, k, n, uv)
      PROVE  Goal
  <2>1. CASE z # w
    BY <1>13, <2>1, <1>a, <1>b DEF Passkeys!Present
  <2>2. CASE z = w
    BY <1>13, <2>2, <1>a, <1>b DEF Passkeys!Present, CeremonyRow, Holding
  <2> QED BY <2>1, <2>2
<1>14. ASSUME NEW w \in Ceremony, NEW c \in Chal, NEW k \in Key, NEW n \in 0..MaxCounter,
             NEW uv \in Verifies, NEW h \in Held,
             Passkeys!Answer(w, h, c, k, n, uv)
      PROVE  Goal
  <2>1. CASE z # w
    BY <1>14, <2>1, <1>a DEF Passkeys!Answer
  <2>2. CASE z = w
    BY <1>14, <2>2, <1>a
       DEF Passkeys!Answer, Passkeys!Claimable, CeremonyRow, HeldRow, Holding
  <2> QED BY <2>1, <2>2
<1>15. ASSUME NEW w \in Ceremony, NEW c \in Chal, NEW k \in Key, NEW n \in 0..MaxCounter,
             NEW s \in Session, Passkeys!Attest(w, s, c, k, n)
      PROVE  Goal
  <2>1. CASE z # w
    BY <1>15, <2>1, <1>a, <1>b DEF Passkeys!Attest
  <2>2. CASE z = w
    BY <1>15, <2>2, <1>a, <1>b DEF Passkeys!Attest, CeremonyRow, Holding
  <2> QED BY <2>1, <2>2
<1>16. ASSUME NEW c \in Chal, Passkeys!LoginOptions(c)
      PROVE  Goal
  BY <1>16, <1>a DEF Passkeys!LoginOptions
<1>17. ASSUME NEW c \in Chal, NEW s \in Session, Passkeys!RegistrationOptions(c, s)
      PROVE  Goal
  BY <1>17, <1>a DEF Passkeys!RegistrationOptions
<1>18. ASSUME NEW h \in Held, NEW u \in User, Passkeys!HoldOther(h, u)
      PROVE  Goal
  BY <1>18, <1>a DEF Passkeys!HoldOther
<1>19. ASSUME NEW k \in Key, Passkeys!Remove(k)
      PROVE  Goal
  BY <1>19, <1>a DEF Passkeys!Remove
<1>20. ASSUME NEW u \in User, Passkeys!Deactivate(u)
      PROVE  Goal
  BY <1>20, <1>a DEF Passkeys!Deactivate
<1>21. ASSUME NEW u \in User, Passkeys!TurnFactorOn(u)
      PROVE  Goal
  BY <1>21, <1>a DEF Passkeys!TurnFactorOn
<1>22. ASSUME Passkeys!Tick
      PROVE  Goal
  BY <1>22, <1>a DEF Passkeys!Tick
<1> QED
  BY <1>0, <1>1, <1>2, <1>3, <1>4, <1>5, <1>6, <1>7, <1>8, <1>9, <1>10, <1>11, <1>12,
      <1>13, <1>14, <1>15, <1>16, <1>17, <1>18, <1>19, <1>20, <1>21, <1>22 DEF
      Passkeys!Next

LEMMA ClaimedStays ==
  ASSUME NEW z, Passkeys!CeremonyAssumption, PInv, [Passkeys!Next]_Passkeys!vars,
         z \in Ceremony, work[z].kind = "second",
         work[z].pc \in Holding, work'[z].pc \in Holding
  PROVE  held'[work[z].held].state = "claimed"
<1>a. work \in [Ceremony -> CeremonyRow] /\ held \in [Held -> HeldRow]
  BY DEF PInv, PTyped
<1>b. ClaimedSound(z) /\ held[work[z].held].state = "claimed"
  BY DEF PInv, ClaimedOnce, ClaimedSound
<1>0. CASE UNCHANGED Passkeys!vars
  BY <1>0, <1>a, <1>b DEF Passkeys!vars
<1> DEFINE Goal == held'[work[z].held].state = "claimed"
<1>1. ASSUME NEW w \in Ceremony, Passkeys!Consume(w)
      PROVE  Goal
  <2>1. CASE z # w
    <3>1. work[w].kind = "second" => work[w].held # work[z].held
            \/ work[w].pc \notin Holding
      BY <2>1, <1>b DEF ClaimedSound
    <3> QED
        BY <1>1, <2>1, <3>1, <1>a, <1>b, CeremonyKinds
           DEF Passkeys!Consume, ClaimedSound, HeldRow, Holding
  <2>2. CASE z = w
    BY <1>1, <2>2, <1>a, <1>b
       DEF Passkeys!Consume, CeremonyRow, HeldRow, Holding, ClaimedSound
  <2> QED BY <2>1, <2>2
<1>2. ASSUME NEW w \in Ceremony, Passkeys!FindChallengedAccount(w)
      PROVE  Goal
  <2>1. CASE z # w
    <3>1. work[w].kind = "second" => work[w].held # work[z].held
            \/ work[w].pc \notin Holding
      BY <2>1, <1>b DEF ClaimedSound
    <3> QED
        BY <1>2, <2>1, <3>1, <1>a, <1>b, CeremonyKinds
           DEF Passkeys!FindChallengedAccount, ClaimedSound, HeldRow, Holding
  <2>2. CASE z = w
    BY <1>2, <2>2, <1>a, <1>b
       DEF Passkeys!FindChallengedAccount, CeremonyRow, HeldRow, Holding, ClaimedSound
  <2> QED BY <2>1, <2>2
<1>3. ASSUME NEW w \in Ceremony, Passkeys!FindByCredentialId(w)
      PROVE  Goal
  <2>1. CASE z # w
    <3>1. work[w].kind = "second" => work[w].held # work[z].held
            \/ work[w].pc \notin Holding
      BY <2>1, <1>b DEF ClaimedSound
    <3> QED
        BY <1>3, <2>1, <3>1, <1>a, <1>b, CeremonyKinds
           DEF Passkeys!FindByCredentialId, ClaimedSound, HeldRow, Holding
  <2>2. CASE z = w
    BY <1>3, <2>2, <1>a, <1>b
       DEF Passkeys!FindByCredentialId, CeremonyRow, HeldRow, Holding, ClaimedSound
  <2> QED BY <2>1, <2>2
<1>4. ASSUME NEW w \in Ceremony, Passkeys!Advance(w)
      PROVE  Goal
  <2>1. CASE z # w
    <3>1. work[w].kind = "second" => work[w].held # work[z].held
            \/ work[w].pc \notin Holding
      BY <2>1, <1>b DEF ClaimedSound
    <3> QED
        BY <1>4, <2>1, <3>1, <1>a, <1>b, CeremonyKinds
           DEF Passkeys!Advance, ClaimedSound, HeldRow, Holding
  <2>2. CASE z = w
    BY <1>4, <2>2, <1>a, <1>b
       DEF Passkeys!Advance, CeremonyRow, HeldRow, Holding, ClaimedSound
  <2> QED BY <2>1, <2>2
<1>5. ASSUME NEW w \in Ceremony, Passkeys!FindAccount(w)
      PROVE  Goal
  <2>1. CASE z # w
    <3>1. work[w].kind = "second" => work[w].held # work[z].held
            \/ work[w].pc \notin Holding
      BY <2>1, <1>b DEF ClaimedSound
    <3> QED
        BY <1>5, <2>1, <3>1, <1>a, <1>b, CeremonyKinds
           DEF Passkeys!FindAccount, ClaimedSound, HeldRow, Holding
  <2>2. CASE z = w
    BY <1>5, <2>2, <1>a, <1>b
       DEF Passkeys!FindAccount, CeremonyRow, HeldRow, Holding, ClaimedSound
  <2> QED BY <2>1, <2>2
<1>6. ASSUME NEW w \in Ceremony, Passkeys!Discard(w)
      PROVE  Goal
  <2>1. CASE z # w
    <3>1. work[w].kind = "second" => work[w].held # work[z].held
            \/ work[w].pc \notin Holding
      BY <2>1, <1>b DEF ClaimedSound
    <3> QED
        BY <1>6, <2>1, <3>1, <1>a, <1>b, CeremonyKinds
           DEF Passkeys!Discard, ClaimedSound, HeldRow, Holding
  <2>2. CASE z = w
    BY <1>6, <2>2, <1>a, <1>b
       DEF Passkeys!Discard, CeremonyRow, HeldRow, Holding, ClaimedSound
  <2> QED BY <2>1, <2>2
<1>7. ASSUME NEW w \in Ceremony, Passkeys!IssueSession(w)
      PROVE  Goal
  <2>1. CASE z # w
    <3>1. work[w].kind = "second" => work[w].held # work[z].held
            \/ work[w].pc \notin Holding
      BY <2>1, <1>b DEF ClaimedSound
    <3> QED
        BY <1>7, <2>1, <3>1, <1>a, <1>b, CeremonyKinds
           DEF Passkeys!IssueSession, ClaimedSound, HeldRow, Holding
  <2>2. CASE z = w
    BY <1>7, <2>2, <1>a, <1>b
       DEF Passkeys!IssueSession, CeremonyRow, HeldRow, Holding, ClaimedSound
  <2> QED BY <2>1, <2>2
<1>8. ASSUME NEW w \in Ceremony, Passkeys!RegisterFailure(w)
      PROVE  Goal
  <2>1. CASE z # w
    <3>1. work[w].kind = "second" => work[w].held # work[z].held
            \/ work[w].pc \notin Holding
      BY <2>1, <1>b DEF ClaimedSound
    <3> QED
        BY <1>8, <2>1, <3>1, <1>a, <1>b, CeremonyKinds
           DEF Passkeys!RegisterFailure, ClaimedSound, HeldRow, Holding
  <2>2. CASE z = w
    BY <1>8, <2>2, <1>a, <1>b
       DEF Passkeys!RegisterFailure, CeremonyRow, HeldRow, Holding, ClaimedSound
  <2> QED BY <2>1, <2>2
<1>9. ASSUME NEW w \in Ceremony, Passkeys!Compare(w)
      PROVE  Goal
  <2>1. CASE z # w
    <3>1. work[w].kind = "second" => work[w].held # work[z].held
            \/ work[w].pc \notin Holding
      BY <2>1, <1>b DEF ClaimedSound
    <3> QED
        BY <1>9, <2>1, <3>1, <1>a, <1>b, CeremonyKinds
           DEF Passkeys!Compare, ClaimedSound, HeldRow, Holding
  <2>2. CASE z = w
    BY <1>9, <2>2, <1>a, <1>b
       DEF Passkeys!Compare, CeremonyRow, HeldRow, Holding, ClaimedSound
  <2> QED BY <2>1, <2>2
<1>10. ASSUME NEW w \in Ceremony, Passkeys!Record(w)
      PROVE  Goal
  <2>1. CASE z # w
    <3>1. work[w].kind = "second" => work[w].held # work[z].held
            \/ work[w].pc \notin Holding
      BY <2>1, <1>b DEF ClaimedSound
    <3> QED
        BY <1>10, <2>1, <3>1, <1>a, <1>b, CeremonyKinds
           DEF Passkeys!Record, ClaimedSound, HeldRow, Holding
  <2>2. CASE z = w
    BY <1>10, <2>2, <1>a, <1>b
       DEF Passkeys!Record, CeremonyRow, HeldRow, Holding, ClaimedSound
  <2> QED BY <2>1, <2>2
<1>11. ASSUME NEW w \in Ceremony, Passkeys!Stop(w)
      PROVE  Goal
  <2>1. CASE z # w
    <3>1. work[w].kind = "second" => work[w].held # work[z].held
            \/ work[w].pc \notin Holding
      BY <2>1, <1>b DEF ClaimedSound
    <3> QED
        BY <1>11, <2>1, <3>1, <1>a, <1>b, CeremonyKinds
           DEF Passkeys!Stop, ClaimedSound, HeldRow, Holding
  <2>2. CASE z = w
    BY <1>11, <2>2, <1>a, <1>b
       DEF Passkeys!Stop, CeremonyRow, HeldRow, Holding, ClaimedSound
  <2> QED BY <2>1, <2>2
<1>12. ASSUME NEW w \in Ceremony, NEW h \in Held, Passkeys!Hold(w, h)
      PROVE  Goal
  <2>1. held[work[z].held].state = "claimed" /\ held[h].state = "new"
    BY <1>12, <1>b DEF ClaimedSound, Passkeys!Hold
  <2> QED BY <1>12, <2>1, <1>a DEF Passkeys!Hold
<1>13. ASSUME NEW w \in Ceremony, NEW c \in Chal, NEW k \in Key, NEW n \in 0..MaxCounter,
             NEW uv \in Verifies, Passkeys!Present(w, c, k, n, uv)
      PROVE  Goal
  <2>1. CASE z # w
    <3>1. work[w].kind = "second" => work[w].held # work[z].held
            \/ work[w].pc \notin Holding
      BY <2>1, <1>b DEF ClaimedSound
    <3> QED
        BY <1>13, <2>1, <3>1, <1>a, <1>b, CeremonyKinds
           DEF Passkeys!Present, ClaimedSound, HeldRow, Holding
  <2>2. CASE z = w
    BY <1>13, <2>2, <1>a, <1>b
       DEF Passkeys!Present, CeremonyRow, HeldRow, Holding, ClaimedSound
  <2> QED BY <2>1, <2>2
<1>14. ASSUME NEW w \in Ceremony, NEW c \in Chal, NEW k \in Key, NEW n \in 0..MaxCounter,
             NEW uv \in Verifies, NEW h \in Held,
             Passkeys!Answer(w, h, c, k, n, uv)
      PROVE  Goal
  <2>1. CASE z # w
    <3>1. work[w].kind = "second" => work[w].held # work[z].held
            \/ work[w].pc \notin Holding
      BY <2>1, <1>b DEF ClaimedSound
    <3> QED
        BY <1>14, <2>1, <3>1, <1>a, <1>b, CeremonyKinds
           DEF Passkeys!Answer, Passkeys!Claimable, ClaimedSound, HeldRow, Holding
  <2>2. CASE z = w
    BY <1>14, <2>2, <1>a, <1>b
       DEF Passkeys!Answer, Passkeys!Claimable, CeremonyRow, HeldRow, Holding,
           ClaimedSound
  <2> QED BY <2>1, <2>2
<1>15. ASSUME NEW w \in Ceremony, NEW c \in Chal, NEW k \in Key, NEW n \in 0..MaxCounter,
             NEW s \in Session, Passkeys!Attest(w, s, c, k, n)
      PROVE  Goal
  <2>1. CASE z # w
    <3>1. work[w].kind = "second" => work[w].held # work[z].held
            \/ work[w].pc \notin Holding
      BY <2>1, <1>b DEF ClaimedSound
    <3> QED
        BY <1>15, <2>1, <3>1, <1>a, <1>b, CeremonyKinds
           DEF Passkeys!Attest, ClaimedSound, HeldRow, Holding
  <2>2. CASE z = w
    BY <1>15, <2>2, <1>a, <1>b
       DEF Passkeys!Attest, CeremonyRow, HeldRow, Holding, ClaimedSound
  <2> QED BY <2>1, <2>2
<1>16. ASSUME NEW c \in Chal, Passkeys!LoginOptions(c)
      PROVE  Goal
  BY <1>16, <1>a, <1>b DEF Passkeys!LoginOptions
<1>17. ASSUME NEW c \in Chal, NEW s \in Session, Passkeys!RegistrationOptions(c, s)
      PROVE  Goal
  BY <1>17, <1>a, <1>b DEF Passkeys!RegistrationOptions
<1>18. ASSUME NEW h \in Held, NEW u \in User, Passkeys!HoldOther(h, u)
      PROVE  Goal
  <2>1. held[work[z].held].state = "claimed" /\ held[h].state = "new"
    BY <1>18, <1>b DEF ClaimedSound, Passkeys!HoldOther
  <2> QED BY <1>18, <2>1, <1>a DEF Passkeys!HoldOther
<1>19. ASSUME NEW k \in Key, Passkeys!Remove(k)
      PROVE  Goal
  BY <1>19, <1>a, <1>b DEF Passkeys!Remove
<1>20. ASSUME NEW u \in User, Passkeys!Deactivate(u)
      PROVE  Goal
  BY <1>20, <1>a, <1>b DEF Passkeys!Deactivate
<1>21. ASSUME NEW u \in User, Passkeys!TurnFactorOn(u)
      PROVE  Goal
  BY <1>21, <1>a, <1>b DEF Passkeys!TurnFactorOn
<1>22. ASSUME Passkeys!Tick
      PROVE  Goal
  BY <1>22, <1>a, <1>b DEF Passkeys!Tick
<1> QED
  BY <1>0, <1>1, <1>2, <1>3, <1>4, <1>5, <1>6, <1>7, <1>8, <1>9, <1>10, <1>11, <1>12,
      <1>13, <1>14, <1>15, <1>16, <1>17, <1>18, <1>19, <1>20, <1>21, <1>22 DEF
      Passkeys!Next

LEMMA OverDoes ==
  ASSUME NEW z, Passkeys!CeremonyAssumption, PInv, [Passkeys!Next]_Passkeys!vars,
         z \in Ceremony
  PROVE  work'[z].kind = "second" /\ (work'[z].pc = "issue" \/ z \in sessions') =>
           \/ /\ work[z].kind = "second" /\ (work[z].pc = "issue" \/ z \in sessions)
              /\ work'[z].held = work[z].held
           \/ /\ work[z].kind = "second" /\ work[z].pc = "discard"
              /\ work'[z].held = work[z].held /\ held'[work[z].held].state = "gone"
              /\ sessions' = sessions
              /\ \A v \in Ceremony : v # z => work'[v] = work[v]
<1>a. /\ work \in [Ceremony -> CeremonyRow] /\ held \in [Held -> HeldRow]
      /\ (z \in sessions => work[z].pc = "done")
  BY DEF PInv, PTyped, AdmittedSound
<1>0. CASE UNCHANGED Passkeys!vars
  BY <1>0, <1>a DEF Passkeys!vars
<1> DEFINE Goal ==
         work'[z].kind = "second" /\ (work'[z].pc = "issue" \/ z \in sessions') =>
           \/ /\ work[z].kind = "second" /\ (work[z].pc = "issue" \/ z \in sessions)
              /\ work'[z].held = work[z].held
           \/ /\ work[z].kind = "second" /\ work[z].pc = "discard"
              /\ work'[z].held = work[z].held /\ held'[work[z].held].state = "gone"
              /\ sessions' = sessions
              /\ \A v \in Ceremony : v # z => work'[v] = work[v]
<1>1. ASSUME NEW w \in Ceremony, Passkeys!Consume(w)
      PROVE  Goal
  <2>1. CASE z # w
    BY <1>1, <2>1, <1>a DEF Passkeys!Consume
  <2>2. CASE z = w
    BY <1>1, <2>2, <1>a DEF Passkeys!Consume, CeremonyRow
  <2> QED BY <2>1, <2>2
<1>2. ASSUME NEW w \in Ceremony, Passkeys!FindChallengedAccount(w)
      PROVE  Goal
  <2>1. CASE z # w
    BY <1>2, <2>1, <1>a DEF Passkeys!FindChallengedAccount
  <2>2. CASE z = w
    BY <1>2, <2>2, <1>a DEF Passkeys!FindChallengedAccount, CeremonyRow
  <2> QED BY <2>1, <2>2
<1>3. ASSUME NEW w \in Ceremony, Passkeys!FindByCredentialId(w)
      PROVE  Goal
  <2>1. CASE z # w
    BY <1>3, <2>1, <1>a DEF Passkeys!FindByCredentialId
  <2>2. CASE z = w
    BY <1>3, <2>2, <1>a DEF Passkeys!FindByCredentialId, CeremonyRow
  <2> QED BY <2>1, <2>2
<1>4. ASSUME NEW w \in Ceremony, Passkeys!Advance(w)
      PROVE  Goal
  <2>1. CASE z # w
    BY <1>4, <2>1, <1>a DEF Passkeys!Advance
  <2>2. CASE z = w
    BY <1>4, <2>2, <1>a DEF Passkeys!Advance, CeremonyRow
  <2> QED BY <2>1, <2>2
<1>5. ASSUME NEW w \in Ceremony, Passkeys!FindAccount(w)
      PROVE  Goal
  <2>1. CASE z # w
    BY <1>5, <2>1, <1>a DEF Passkeys!FindAccount
  <2>2. CASE z = w
    BY <1>5, <2>2, <1>a DEF Passkeys!FindAccount, CeremonyRow
  <2> QED BY <2>1, <2>2
<1>6. ASSUME NEW w \in Ceremony, Passkeys!Discard(w)
      PROVE  Goal
  <2>1. CASE z # w
    BY <1>6, <2>1, <1>a DEF Passkeys!Discard
  <2>2. CASE z = w
    <3>1. work[z].kind = "second" /\ work[z].held \in Held
      BY <1>6, <2>2, CeremonyKinds DEF Passkeys!Discard
    <3> QED BY <1>6, <2>2, <3>1, <1>a DEF Passkeys!Discard, CeremonyRow, HeldRow
  <2> QED BY <2>1, <2>2
<1>7. ASSUME NEW w \in Ceremony, Passkeys!IssueSession(w)
      PROVE  Goal
  <2>1. CASE z # w
    BY <1>7, <2>1, <1>a DEF Passkeys!IssueSession
  <2>2. CASE z = w
    BY <1>7, <2>2, <1>a DEF Passkeys!IssueSession, CeremonyRow
  <2> QED BY <2>1, <2>2
<1>8. ASSUME NEW w \in Ceremony, Passkeys!RegisterFailure(w)
      PROVE  Goal
  <2>1. CASE z # w
    BY <1>8, <2>1, <1>a DEF Passkeys!RegisterFailure
  <2>2. CASE z = w
    BY <1>8, <2>2, <1>a DEF Passkeys!RegisterFailure, CeremonyRow
  <2> QED BY <2>1, <2>2
<1>9. ASSUME NEW w \in Ceremony, Passkeys!Compare(w)
      PROVE  Goal
  <2>1. CASE z # w
    BY <1>9, <2>1, <1>a DEF Passkeys!Compare
  <2>2. CASE z = w
    BY <1>9, <2>2, <1>a DEF Passkeys!Compare, CeremonyRow
  <2> QED BY <2>1, <2>2
<1>10. ASSUME NEW w \in Ceremony, Passkeys!Record(w)
      PROVE  Goal
  <2>1. CASE z # w
    BY <1>10, <2>1, <1>a DEF Passkeys!Record
  <2>2. CASE z = w
    BY <1>10, <2>2, <1>a DEF Passkeys!Record, CeremonyRow
  <2> QED BY <2>1, <2>2
<1>11. ASSUME NEW w \in Ceremony, Passkeys!Stop(w)
      PROVE  Goal
  <2>1. CASE z # w
    BY <1>11, <2>1, <1>a DEF Passkeys!Stop
  <2>2. CASE z = w
    BY <1>11, <2>2, <1>a DEF Passkeys!Stop, CeremonyRow
  <2> QED BY <2>1, <2>2
<1>12. ASSUME NEW w \in Ceremony, NEW h \in Held, Passkeys!Hold(w, h)
      PROVE  Goal
  <2>1. CASE z # w
    BY <1>12, <2>1, <1>a DEF Passkeys!Hold
  <2>2. CASE z = w
    BY <1>12, <2>2, <1>a DEF Passkeys!Hold, CeremonyRow
  <2> QED BY <2>1, <2>2
<1>13. ASSUME NEW w \in Ceremony, NEW c \in Chal, NEW k \in Key, NEW n \in 0..MaxCounter,
             NEW uv \in Verifies, Passkeys!Present(w, c, k, n, uv)
      PROVE  Goal
  <2>1. CASE z # w
    BY <1>13, <2>1, <1>a DEF Passkeys!Present
  <2>2. CASE z = w
    BY <1>13, <2>2, <1>a DEF Passkeys!Present, CeremonyRow
  <2> QED BY <2>1, <2>2
<1>14. ASSUME NEW w \in Ceremony, NEW c \in Chal, NEW k \in Key, NEW n \in 0..MaxCounter,
             NEW uv \in Verifies, NEW h \in Held,
             Passkeys!Answer(w, h, c, k, n, uv)
      PROVE  Goal
  <2>1. CASE z # w
    BY <1>14, <2>1, <1>a DEF Passkeys!Answer
  <2>2. CASE z = w
    BY <1>14, <2>2, <1>a DEF Passkeys!Answer, CeremonyRow
  <2> QED BY <2>1, <2>2
<1>15. ASSUME NEW w \in Ceremony, NEW c \in Chal, NEW k \in Key, NEW n \in 0..MaxCounter,
             NEW s \in Session, Passkeys!Attest(w, s, c, k, n)
      PROVE  Goal
  <2>1. CASE z # w
    BY <1>15, <2>1, <1>a DEF Passkeys!Attest
  <2>2. CASE z = w
    BY <1>15, <2>2, <1>a DEF Passkeys!Attest, CeremonyRow
  <2> QED BY <2>1, <2>2
<1>16. ASSUME NEW c \in Chal, Passkeys!LoginOptions(c)
      PROVE  Goal
  BY <1>16, <1>a DEF Passkeys!LoginOptions
<1>17. ASSUME NEW c \in Chal, NEW s \in Session, Passkeys!RegistrationOptions(c, s)
      PROVE  Goal
  BY <1>17, <1>a DEF Passkeys!RegistrationOptions
<1>18. ASSUME NEW h \in Held, NEW u \in User, Passkeys!HoldOther(h, u)
      PROVE  Goal
  BY <1>18, <1>a DEF Passkeys!HoldOther
<1>19. ASSUME NEW k \in Key, Passkeys!Remove(k)
      PROVE  Goal
  BY <1>19, <1>a DEF Passkeys!Remove
<1>20. ASSUME NEW u \in User, Passkeys!Deactivate(u)
      PROVE  Goal
  BY <1>20, <1>a DEF Passkeys!Deactivate
<1>21. ASSUME NEW u \in User, Passkeys!TurnFactorOn(u)
      PROVE  Goal
  BY <1>21, <1>a DEF Passkeys!TurnFactorOn
<1>22. ASSUME Passkeys!Tick
      PROVE  Goal
  BY <1>22, <1>a DEF Passkeys!Tick
<1> QED
  BY <1>0, <1>1, <1>2, <1>3, <1>4, <1>5, <1>6, <1>7, <1>8, <1>9, <1>10, <1>11, <1>12,
      <1>13, <1>14, <1>15, <1>16, <1>17, <1>18, <1>19, <1>20, <1>21, <1>22 DEF
      Passkeys!Next

LEMMA ClaimedOnceStep ==
  ASSUME NEW z, Passkeys!CeremonyAssumption, PInv, [Passkeys!Next]_Passkeys!vars,
         z \in Ceremony
  PROVE  ClaimedSound(z)'
<1> SUFFICES ASSUME work'[z].kind = "second"
             PROVE  ClaimedSound(z)'
  BY DEF ClaimedSound
<1>a. \A v \in Ceremony : ClaimedSound(v)
  BY DEF PInv, ClaimedOnce
<1>b. \A v \in Ceremony : work[v].kind = "second" =>
        /\ work[v].held \in Held
        /\ held[work[v].held].state = "gone" => held'[work[v].held].state = "gone"
  BY CeremonyKinds, HeldKept
<1>1. ASSUME work'[z].pc \in Holding
      PROVE  held'[work'[z].held].state = "claimed"
  BY <1>1, HoldingDoes, ClaimedStays
<1>2. ASSUME work'[z].pc \in Holding, NEW v \in Ceremony, v # z,
             work'[v].kind = "second", work'[v].pc \in Holding
      PROVE  work'[v].held # work'[z].held
  <2>1. CASE /\ work[z].kind = "second" /\ work[z].pc \in Holding
             /\ work[v].kind = "second" /\ work[v].pc \in Holding
             /\ work'[z].held = work[z].held /\ work'[v].held = work[v].held
    BY <1>2, <2>1, <1>a DEF ClaimedSound
  <2>2. CASE /\ held[work'[z].held].state = "open" /\ work'[v] = work[v]
    BY <1>2, <2>2, <1>a DEF ClaimedSound
  <2>3. CASE /\ held[work'[v].held].state = "open" /\ work'[z] = work[z]
    BY <1>2, <2>3, <1>a DEF ClaimedSound
  <2>4. \/ /\ work[z].kind = "second" /\ work[z].pc \in Holding
           /\ work'[z].held = work[z].held
        \/ held[work'[z].held].state = "open" /\ work'[v] = work[v]
    BY <1>2, HoldingDoes
  <2>5. \/ /\ work[v].kind = "second" /\ work[v].pc \in Holding
           /\ work'[v].held = work[v].held
        \/ held[work'[v].held].state = "open" /\ work'[z] = work[z]
    BY <1>2, HoldingDoes
  <2> QED BY <2>1, <2>2, <2>3, <2>4, <2>5
<1>3. ASSUME work'[z].pc = "issue" \/ z \in sessions'
      PROVE  held'[work'[z].held].state = "gone"
  BY <1>3, <1>a, <1>b, OverDoes DEF ClaimedSound
<1>4. ASSUME work'[z].pc = "issue" \/ z \in sessions', NEW v \in Ceremony, v # z,
             work'[v].kind = "second", work'[v].pc = "issue" \/ v \in sessions'
      PROVE  work'[v].held # work'[z].held
  <2>1. CASE /\ work[z].kind = "second" /\ (work[z].pc = "issue" \/ z \in sessions)
             /\ work[v].kind = "second" /\ (work[v].pc = "issue" \/ v \in sessions)
             /\ work'[z].held = work[z].held /\ work'[v].held = work[v].held
    BY <1>4, <2>1, <1>a DEF ClaimedSound
  <2>2. CASE /\ work[z].kind = "second" /\ work[z].pc = "discard"
             /\ work'[z].held = work[z].held /\ sessions' = sessions /\ work'[v] = work[v]
    BY <1>4, <2>2, <1>a DEF ClaimedSound, Holding
  <2>3. CASE /\ work[v].kind = "second" /\ work[v].pc = "discard"
             /\ work'[v].held = work[v].held /\ sessions' = sessions /\ work'[z] = work[z]
    BY <1>4, <2>3, <1>a DEF ClaimedSound, Holding
  <2>4. \/ /\ work[z].kind = "second" /\ (work[z].pc = "issue" \/ z \in sessions)
           /\ work'[z].held = work[z].held
        \/ /\ work[z].kind = "second" /\ work[z].pc = "discard"
           /\ work'[z].held = work[z].held /\ sessions' = sessions /\ work'[v] = work[v]
    BY <1>4, OverDoes
  <2>5. \/ /\ work[v].kind = "second" /\ (work[v].pc = "issue" \/ v \in sessions)
           /\ work'[v].held = work[v].held
        \/ /\ work[v].kind = "second" /\ work[v].pc = "discard"
           /\ work'[v].held = work[v].held /\ sessions' = sessions /\ work'[z] = work[z]
    BY <1>4, OverDoes
  <2> QED BY <2>1, <2>2, <2>3, <2>4, <2>5
<1> QED BY <1>1, <1>2, <1>3, <1>4 DEF ClaimedSound

LEMMA AdmittedStep ==
  ASSUME Passkeys!CeremonyAssumption, PInv, [Passkeys!Next]_Passkeys!vars
  PROVE  AdmittedSound'
<1>a. work \in [Ceremony -> CeremonyRow] /\ sessions \subseteq Ceremony /\ AdmittedSound
  BY DEF PInv, PTyped
<1>1. ASSUME NEW w \in sessions
      PROVE  work'[w].pc = "done" /\ work'[w].kind \in {"login", "second"}
  BY <1>a, EndedStays DEF AdmittedSound
<1>2. ASSUME NEW w \in sessions', w \notin sessions
      PROVE  work'[w].pc = "done" /\ work'[w].kind \in {"login", "second"}
  <2>1. w \in Ceremony /\ Passkeys!IssueSession(w) /\ work'[w].pc = "done"
    BY <1>2, SessionsDo
  <2>2. work[w].kind \in {"login", "second"} /\ work'[w].kind = work[w].kind
    BY <2>1, <1>a, CeremonyKinds DEF Passkeys!IssueSession, CeremonyRow
  <2> QED BY <2>1, <2>2
<1> QED BY <1>1, <1>2 DEF AdmittedSound

LEMMA ShownStep ==
  ASSUME NEW z, Passkeys!CeremonyAssumption, PInv, [Passkeys!Next]_Passkeys!vars,
         z \in Ceremony
  PROVE  ShownWhereDue(z)'
<1>a. /\ work \in [Ceremony -> CeremonyRow] /\ uses \in Seq(UseRow) /\ ShownWhereDue(z)
      /\ (z \in sessions => work[z].pc = "done")
  BY DEF PInv, PTyped, ShownSound, AdmittedSound
<1>b. (\E i \in DOMAIN uses : uses[i].by = z) => (\E i \in DOMAIN uses' : uses'[i].by = z)
  BY UsesKept
<1>c. work[z].kind = "second" => /\ held'[work[z].held].user = held[work[z].held].user
                                 /\ held'[work[z].held].first = held[work[z].held].first
  BY CeremonyKinds, HeldKept
<1>d. work'[z] = work[z] /\ (z \in sessions' => z \in sessions) => ShownWhereDue(z)'
  BY <1>a, <1>b, <1>c DEF ShownWhereDue, Shown
<1>0. CASE UNCHANGED Passkeys!vars
  BY <1>0, <1>a, <1>d DEF Passkeys!vars
<1> DEFINE Goal == ShownWhereDue(z)'
<1>1. ASSUME NEW w \in Ceremony, Passkeys!Consume(w)
      PROVE  Goal
  <2>1. CASE z # w
    BY <1>1, <2>1, <1>a, <1>d DEF Passkeys!Consume
  <2>2. CASE z = w
    BY <1>1, <2>2, <1>a DEF Passkeys!Consume, CeremonyRow, ShownWhereDue
  <2> QED BY <2>1, <2>2
<1>2. ASSUME NEW w \in Ceremony, Passkeys!FindChallengedAccount(w)
      PROVE  Goal
  <2>1. CASE z # w
    BY <1>2, <2>1, <1>a, <1>d DEF Passkeys!FindChallengedAccount
  <2>2. CASE z = w
    BY <1>2, <2>2, <1>a DEF Passkeys!FindChallengedAccount, CeremonyRow, ShownWhereDue
  <2> QED BY <2>1, <2>2
<1>3. ASSUME NEW w \in Ceremony, Passkeys!FindByCredentialId(w)
      PROVE  Goal
  <2>1. CASE z # w
    BY <1>3, <2>1, <1>a, <1>d DEF Passkeys!FindByCredentialId
  <2>2. CASE z = w
    BY <1>3, <2>2, <1>a DEF Passkeys!FindByCredentialId, CeremonyRow, ShownWhereDue
  <2> QED BY <2>1, <2>2
<1>4. ASSUME NEW w \in Ceremony, Passkeys!Advance(w)
      PROVE  Goal
  <2>1. CASE z # w
    BY <1>4, <2>1, <1>a, <1>d DEF Passkeys!Advance
  <2>2. CASE z = w
    <3>1. /\ z \notin sessions /\ sessions' = sessions /\ held' = held
          /\ work[z].kind \in {"login", "second"}
      BY <1>4, <2>2, <1>a, CeremonyKinds DEF Passkeys!Advance
    <3>2. /\ work'[z].kind = work[z].kind /\ work'[z].uv = work[z].uv
          /\ work'[z].held = work[z].held /\ work'[z].read = work[z].read
          /\ work'[z].pc \in {"load", "discard", "failed"}
      BY <1>4, <2>2, <1>a DEF Passkeys!Advance, CeremonyRow
    <3>3. work'[z].pc # "failed" => uses' = Append(uses, UseOf(z))
      BY <1>4, <2>2, <1>a DEF Passkeys!Advance, CeremonyRow, UseOf
    <3>4. work'[z].pc = "discard" => work[z].kind = "second" /\ Passkeys!AnswersHeld(z)
      BY <1>4, <2>2, <3>1, <1>a DEF Passkeys!Advance, CeremonyRow
    <3>5. work'[z].pc # "failed" => \E i \in DOMAIN uses' : uses'[i].by = z
      BY <3>3, <1>a, AppendDoes DEF UseOf
    <3>6. work[z].kind = "second" => held[work[z].held].first \in {"passkey", "password"}
      <4>1. work[z].kind = "second" => work[z].held \in Held
              /\ held[work[z].held].state # "new"
        BY CeremonyKinds
      <4>2. \A g \in Held : HeldSound(g) /\ held[g] \in HeldRow
        BY DEF PInv, PTyped, HeldsSound
      <4> QED BY <4>1, <4>2 DEF HeldSound, HeldRow
    <3> QED
        BY <3>1, <3>2, <3>4, <3>5, <3>6 DEF ShownWhereDue, Shown, Passkeys!AnswersHeld
  <2> QED BY <2>1, <2>2
<1>5. ASSUME NEW w \in Ceremony, Passkeys!FindAccount(w)
      PROVE  Goal
  <2>1. CASE z # w
    BY <1>5, <2>1, <1>a, <1>d DEF Passkeys!FindAccount
  <2>2. CASE z = w
    <3>1. /\ \E i \in DOMAIN uses' : uses'[i].by = z
          /\ work[z].kind = "login" /\ z \notin sessions /\ sessions' = sessions
      BY <1>5, <2>2, <1>a, <1>b, CeremonyKinds DEF Passkeys!FindAccount, ShownWhereDue
    <3>2. /\ work'[z].kind = work[z].kind /\ work'[z].uv = work[z].uv
          /\ work'[z].pc \in {"refused", "issue", "hold"}
          /\ work'[z].pc = "issue" => (work'[z].owed => work[z].uv)
      BY <1>5, <2>2, <1>a DEF Passkeys!FindAccount, CeremonyRow
    <3> QED BY <3>1, <3>2 DEF ShownWhereDue, Shown
  <2> QED BY <2>1, <2>2
<1>6. ASSUME NEW w \in Ceremony, Passkeys!Discard(w)
      PROVE  Goal
  <2>1. CASE z # w
    BY <1>6, <2>1, <1>a, <1>d DEF Passkeys!Discard
  <2>2. CASE z = w
    <3>1. Shown(z) /\ z \notin sessions /\ sessions' = sessions
      BY <1>6, <2>2, <1>a DEF Passkeys!Discard, ShownWhereDue
    <3>2. work'[z] = [work[z] EXCEPT !.pc = "issue"] /\ work[z] \in CeremonyRow
      BY <1>6, <2>2, <1>a DEF Passkeys!Discard
    <3> QED BY <3>1, <3>2, <1>b, <1>c DEF ShownWhereDue, Shown, CeremonyRow
  <2> QED BY <2>1, <2>2
<1>7. ASSUME NEW w \in Ceremony, Passkeys!IssueSession(w)
      PROVE  Goal
  <2>1. CASE z # w
    BY <1>7, <2>1, <1>a, <1>d DEF Passkeys!IssueSession
  <2>2. CASE z = w
    <3>1. Shown(z)
      BY <1>7, <2>2, <1>a DEF Passkeys!IssueSession, ShownWhereDue
    <3>2. \E p \in {"done", "refused"} : work'[z] = [work[z] EXCEPT !.pc = p]
      BY <1>7, <2>2, <1>a DEF Passkeys!IssueSession
    <3>3. work[z] \in CeremonyRow
      BY <1>a
    <3> QED BY <3>1, <3>2, <3>3, <1>b, <1>c DEF ShownWhereDue, Shown, CeremonyRow
  <2> QED BY <2>1, <2>2
<1>8. ASSUME NEW w \in Ceremony, Passkeys!RegisterFailure(w)
      PROVE  Goal
  <2>1. CASE z # w
    BY <1>8, <2>1, <1>a, <1>d DEF Passkeys!RegisterFailure
  <2>2. CASE z = w
    BY <1>8, <2>2, <1>a DEF Passkeys!RegisterFailure, CeremonyRow, ShownWhereDue
  <2> QED BY <2>1, <2>2
<1>9. ASSUME NEW w \in Ceremony, Passkeys!Compare(w)
      PROVE  Goal
  <2>1. CASE z # w
    BY <1>9, <2>1, <1>a, <1>d DEF Passkeys!Compare
  <2>2. CASE z = w
    BY <1>9, <2>2, <1>a DEF Passkeys!Compare, CeremonyRow, ShownWhereDue
  <2> QED BY <2>1, <2>2
<1>10. ASSUME NEW w \in Ceremony, Passkeys!Record(w)
      PROVE  Goal
  <2>1. CASE z # w
    BY <1>10, <2>1, <1>a, <1>d DEF Passkeys!Record
  <2>2. CASE z = w
    BY <1>10, <2>2, <1>a DEF Passkeys!Record, CeremonyRow, ShownWhereDue
  <2> QED BY <2>1, <2>2
<1>11. ASSUME NEW w \in Ceremony, Passkeys!Stop(w)
      PROVE  Goal
  <2>1. CASE z # w
    BY <1>11, <2>1, <1>a, <1>d DEF Passkeys!Stop
  <2>2. CASE z = w
    BY <1>11, <2>2, <1>a DEF Passkeys!Stop, CeremonyRow, ShownWhereDue
  <2> QED BY <2>1, <2>2
<1>12. ASSUME NEW w \in Ceremony, NEW h \in Held, Passkeys!Hold(w, h)
      PROVE  Goal
  <2>1. CASE z # w
    BY <1>12, <2>1, <1>a, <1>d DEF Passkeys!Hold
  <2>2. CASE z = w
    BY <1>12, <2>2, <1>a DEF Passkeys!Hold, CeremonyRow, ShownWhereDue
  <2> QED BY <2>1, <2>2
<1>13. ASSUME NEW w \in Ceremony, NEW c \in Chal, NEW k \in Key, NEW n \in 0..MaxCounter,
             NEW uv \in Verifies, Passkeys!Present(w, c, k, n, uv)
      PROVE  Goal
  <2>1. CASE z # w
    BY <1>13, <2>1, <1>a, <1>d DEF Passkeys!Present
  <2>2. CASE z = w
    BY <1>13, <2>2, <1>a DEF Passkeys!Present, CeremonyRow, ShownWhereDue
  <2> QED BY <2>1, <2>2
<1>14. ASSUME NEW w \in Ceremony, NEW c \in Chal, NEW k \in Key, NEW n \in 0..MaxCounter,
             NEW uv \in Verifies, NEW h \in Held,
             Passkeys!Answer(w, h, c, k, n, uv)
      PROVE  Goal
  <2>1. CASE z # w
    BY <1>14, <2>1, <1>a, <1>d DEF Passkeys!Answer
  <2>2. CASE z = w
    BY <1>14, <2>2, <1>a DEF Passkeys!Answer, CeremonyRow, ShownWhereDue
  <2> QED BY <2>1, <2>2
<1>15. ASSUME NEW w \in Ceremony, NEW c \in Chal, NEW k \in Key, NEW n \in 0..MaxCounter,
             NEW s \in Session, Passkeys!Attest(w, s, c, k, n)
      PROVE  Goal
  <2>1. CASE z # w
    BY <1>15, <2>1, <1>a, <1>d DEF Passkeys!Attest
  <2>2. CASE z = w
    BY <1>15, <2>2, <1>a DEF Passkeys!Attest, CeremonyRow, ShownWhereDue
  <2> QED BY <2>1, <2>2
<1>16. ASSUME NEW c \in Chal, Passkeys!LoginOptions(c)
      PROVE  Goal
  BY <1>16, <1>a, <1>d DEF Passkeys!LoginOptions
<1>17. ASSUME NEW c \in Chal, NEW s \in Session, Passkeys!RegistrationOptions(c, s)
      PROVE  Goal
  BY <1>17, <1>a, <1>d DEF Passkeys!RegistrationOptions
<1>18. ASSUME NEW h \in Held, NEW u \in User, Passkeys!HoldOther(h, u)
      PROVE  Goal
  BY <1>18, <1>a, <1>d DEF Passkeys!HoldOther
<1>19. ASSUME NEW k \in Key, Passkeys!Remove(k)
      PROVE  Goal
  BY <1>19, <1>a, <1>d DEF Passkeys!Remove
<1>20. ASSUME NEW u \in User, Passkeys!Deactivate(u)
      PROVE  Goal
  BY <1>20, <1>a, <1>d DEF Passkeys!Deactivate
<1>21. ASSUME NEW u \in User, Passkeys!TurnFactorOn(u)
      PROVE  Goal
  BY <1>21, <1>a, <1>d DEF Passkeys!TurnFactorOn
<1>22. ASSUME Passkeys!Tick
      PROVE  Goal
  BY <1>22, <1>a, <1>d DEF Passkeys!Tick
<1> QED
  BY <1>0, <1>1, <1>2, <1>3, <1>4, <1>5, <1>6, <1>7, <1>8, <1>9, <1>10, <1>11, <1>12,
      <1>13, <1>14, <1>15, <1>16, <1>17, <1>18, <1>19, <1>20, <1>21, <1>22 DEF
      Passkeys!Next

LEMMA ProvedStep ==
  ASSUME NEW z, Passkeys!CeremonyAssumption, PInv, [Passkeys!Next]_Passkeys!vars,
         z \in Ceremony
  PROVE  ProvedSound(z)'
<1>a. work \in [Ceremony -> CeremonyRow] /\ ProvedSound(z) /\ CeremonySound(z)
  BY DEF PInv, PTyped, ProvedByAll, CeremoniesSound
<1>b. work[z].kind # "none" => /\ chal'[work[z].chal].purpose = chal[work[z].chal].purpose
                               /\ chal'[work[z].chal].user = chal[work[z].chal].user
                               /\ chal'[work[z].chal].session = chal[work[z].chal].session
  BY <1>a, ChalKept DEF CeremonySound
<1>c. /\ work[z].kind = "none" => work[z].pc = "idle"
      /\ z \in made => work[z].kind = "register" /\ work[z].pc = "done"
  BY CeremonyKinds DEF PInv, UsedOnce, Passkeys!NoWork
<1>d. work'[z] = work[z] /\ (z \in made' => z \in made) => ProvedSound(z)'
  BY <1>a, <1>b, <1>c DEF ProvedSound, Passkeys!PurposeOf
<1>e. \A d \in Chal : ChalSound(d)
  BY DEF PInv, ChalsSound
<1>0. CASE UNCHANGED Passkeys!vars
  BY <1>0, <1>a, <1>d DEF Passkeys!vars
<1> DEFINE Goal == ProvedSound(z)'
<1>1. ASSUME NEW w \in Ceremony, Passkeys!Consume(w)
      PROVE  Goal
  <2>1. CASE z # w
    BY <1>1, <2>1, <1>a, <1>d DEF Passkeys!Consume
  <2>2. CASE z = w
    <3>1. /\ work'[z].pc \in {"compare", "find", "failed"} /\ made' = made
          /\ work'[z].pc = "compare" => Passkeys!Found(z)
      BY <1>1, <2>2, <1>a DEF Passkeys!Consume, CeremonyRow
    <3>2. /\ work'[z].chal = work[z].chal /\ work'[z].kind = work[z].kind
          /\ work'[z].session = work[z].session
      BY <1>1, <2>2, <1>a DEF Passkeys!Consume, CeremonyRow
    <3>3. z \notin made /\ work[z].kind # "none"
      BY <1>1, <2>2, <1>c, CeremonyKinds DEF Passkeys!Consume
    <3> QED
        BY <3>1, <3>2, <3>3, <1>b DEF ProvedSound, Passkeys!Found, Passkeys!PurposeOf
  <2> QED BY <2>1, <2>2
<1>2. ASSUME NEW w \in Ceremony, Passkeys!FindChallengedAccount(w)
      PROVE  Goal
  <2>1. CASE z # w
    BY <1>2, <2>1, <1>a, <1>d DEF Passkeys!FindChallengedAccount
  <2>2. CASE z = w
    BY <1>2, <2>2, <1>a, <1>c
       DEF Passkeys!FindChallengedAccount, CeremonyRow, ProvedSound
  <2> QED BY <2>1, <2>2
<1>3. ASSUME NEW w \in Ceremony, Passkeys!FindByCredentialId(w)
      PROVE  Goal
  <2>1. CASE z # w
    BY <1>3, <2>1, <1>a, <1>d DEF Passkeys!FindByCredentialId
  <2>2. CASE z = w
    BY <1>3, <2>2, <1>a, <1>c DEF Passkeys!FindByCredentialId, CeremonyRow, ProvedSound
  <2> QED BY <2>1, <2>2
<1>4. ASSUME NEW w \in Ceremony, Passkeys!Advance(w)
      PROVE  Goal
  <2>1. CASE z # w
    BY <1>4, <2>1, <1>a, <1>d DEF Passkeys!Advance
  <2>2. CASE z = w
    BY <1>4, <2>2, <1>a, <1>c DEF Passkeys!Advance, CeremonyRow, ProvedSound
  <2> QED BY <2>1, <2>2
<1>5. ASSUME NEW w \in Ceremony, Passkeys!FindAccount(w)
      PROVE  Goal
  <2>1. CASE z # w
    BY <1>5, <2>1, <1>a, <1>d DEF Passkeys!FindAccount
  <2>2. CASE z = w
    BY <1>5, <2>2, <1>a, <1>c DEF Passkeys!FindAccount, CeremonyRow, ProvedSound
  <2> QED BY <2>1, <2>2
<1>6. ASSUME NEW w \in Ceremony, Passkeys!Discard(w)
      PROVE  Goal
  <2>1. CASE z # w
    BY <1>6, <2>1, <1>a, <1>d DEF Passkeys!Discard
  <2>2. CASE z = w
    BY <1>6, <2>2, <1>a, <1>c DEF Passkeys!Discard, CeremonyRow, ProvedSound
  <2> QED BY <2>1, <2>2
<1>7. ASSUME NEW w \in Ceremony, Passkeys!IssueSession(w)
      PROVE  Goal
  <2>1. CASE z # w
    BY <1>7, <2>1, <1>a, <1>d DEF Passkeys!IssueSession
  <2>2. CASE z = w
    BY <1>7, <2>2, <1>a, <1>c DEF Passkeys!IssueSession, CeremonyRow, ProvedSound
  <2> QED BY <2>1, <2>2
<1>8. ASSUME NEW w \in Ceremony, Passkeys!RegisterFailure(w)
      PROVE  Goal
  <2>1. CASE z # w
    BY <1>8, <2>1, <1>a, <1>d DEF Passkeys!RegisterFailure
  <2>2. CASE z = w
    BY <1>8, <2>2, <1>a, <1>c DEF Passkeys!RegisterFailure, CeremonyRow, ProvedSound
  <2> QED BY <2>1, <2>2
<1>9. ASSUME NEW w \in Ceremony, Passkeys!Compare(w)
      PROVE  Goal
  <2>1. CASE z # w
    BY <1>9, <2>1, <1>a, <1>d DEF Passkeys!Compare
  <2>2. CASE z = w
    <3>1. /\ work'[z].pc \in {"record", "refused"} /\ made' = made
               /\ work[z].pc = "compare"
          /\ work'[z].pc = "record" => work[z].session \in Native \/ Passkeys!HandedTo(z)
      BY <1>9, <2>2, <1>a DEF Passkeys!Compare, CeremonyRow
    <3>2. work'[z].chal = work[z].chal /\ work'[z].session = work[z].session
      BY <1>9, <2>2, <1>a DEF Passkeys!Compare, CeremonyRow
    <3>3. z \notin made /\ work[z].kind = "register" /\ work[z].chal \in Chal
      BY <3>1, <1>c, CeremonyKinds
    <3>4. work[z].session \in Native =>
            /\ chal[work[z].chal].session = work[z].session
            /\ chal[work[z].chal].user = OwnerOf[work[z].session]
      BY <3>1, <3>3, <1>a, <1>e DEF ProvedSound, Passkeys!PurposeOf, ChalSound
    <3> QED BY <3>1, <3>2, <3>3, <3>4, <1>b DEF ProvedSound, Passkeys!HandedTo
  <2> QED BY <2>1, <2>2
<1>10. ASSUME NEW w \in Ceremony, Passkeys!Record(w)
      PROVE  Goal
  <2>1. CASE z # w
    BY <1>10, <2>1, <1>a, <1>d DEF Passkeys!Record
  <2>2. CASE z = w
    <3>1. work'[z].pc \in {"done", "refused"} /\ work[z].pc = "record"
      BY <1>10, <2>2, <1>a DEF Passkeys!Record, CeremonyRow
    <3>2. work'[z].chal = work[z].chal /\ work'[z].session = work[z].session
      BY <1>10, <2>2, <1>a DEF Passkeys!Record, CeremonyRow
    <3>3. work[z].kind # "none"
      BY <3>1, <1>c
    <3> QED BY <3>1, <3>2, <3>3, <1>a, <1>b DEF ProvedSound
  <2> QED BY <2>1, <2>2
<1>11. ASSUME NEW w \in Ceremony, Passkeys!Stop(w)
      PROVE  Goal
  <2>1. CASE z # w
    BY <1>11, <2>1, <1>a, <1>d DEF Passkeys!Stop
  <2>2. CASE z = w
    BY <1>11, <2>2, <1>a, <1>c DEF Passkeys!Stop, CeremonyRow, ProvedSound
  <2> QED BY <2>1, <2>2
<1>12. ASSUME NEW w \in Ceremony, NEW h \in Held, Passkeys!Hold(w, h)
      PROVE  Goal
  <2>1. CASE z # w
    BY <1>12, <2>1, <1>a, <1>d DEF Passkeys!Hold
  <2>2. CASE z = w
    BY <1>12, <2>2, <1>a, <1>c DEF Passkeys!Hold, CeremonyRow, ProvedSound
  <2> QED BY <2>1, <2>2
<1>13. ASSUME NEW w \in Ceremony, NEW c \in Chal, NEW k \in Key, NEW n \in 0..MaxCounter,
             NEW uv \in Verifies, Passkeys!Present(w, c, k, n, uv)
      PROVE  Goal
  <2>1. CASE z # w
    BY <1>13, <2>1, <1>a, <1>d DEF Passkeys!Present
  <2>2. CASE z = w
    BY <1>13, <2>2, <1>a, <1>c DEF Passkeys!Present, CeremonyRow, ProvedSound
  <2> QED BY <2>1, <2>2
<1>14. ASSUME NEW w \in Ceremony, NEW c \in Chal, NEW k \in Key, NEW n \in 0..MaxCounter,
             NEW uv \in Verifies, NEW h \in Held,
             Passkeys!Answer(w, h, c, k, n, uv)
      PROVE  Goal
  <2>1. CASE z # w
    BY <1>14, <2>1, <1>a, <1>d DEF Passkeys!Answer
  <2>2. CASE z = w
    BY <1>14, <2>2, <1>a, <1>c DEF Passkeys!Answer, CeremonyRow, ProvedSound
  <2> QED BY <2>1, <2>2
<1>15. ASSUME NEW w \in Ceremony, NEW c \in Chal, NEW k \in Key, NEW n \in 0..MaxCounter,
             NEW s \in Session, Passkeys!Attest(w, s, c, k, n)
      PROVE  Goal
  <2>1. CASE z # w
    BY <1>15, <2>1, <1>a, <1>d DEF Passkeys!Attest
  <2>2. CASE z = w
    BY <1>15, <2>2, <1>a, <1>c DEF Passkeys!Attest, CeremonyRow, ProvedSound
  <2> QED BY <2>1, <2>2
<1>16. ASSUME NEW c \in Chal, Passkeys!LoginOptions(c)
      PROVE  Goal
  BY <1>16, <1>a, <1>d DEF Passkeys!LoginOptions
<1>17. ASSUME NEW c \in Chal, NEW s \in Session, Passkeys!RegistrationOptions(c, s)
      PROVE  Goal
  BY <1>17, <1>a, <1>d DEF Passkeys!RegistrationOptions
<1>18. ASSUME NEW h \in Held, NEW u \in User, Passkeys!HoldOther(h, u)
      PROVE  Goal
  BY <1>18, <1>a, <1>d DEF Passkeys!HoldOther
<1>19. ASSUME NEW k \in Key, Passkeys!Remove(k)
      PROVE  Goal
  BY <1>19, <1>a, <1>d DEF Passkeys!Remove
<1>20. ASSUME NEW u \in User, Passkeys!Deactivate(u)
      PROVE  Goal
  BY <1>20, <1>a, <1>d DEF Passkeys!Deactivate
<1>21. ASSUME NEW u \in User, Passkeys!TurnFactorOn(u)
      PROVE  Goal
  BY <1>21, <1>a, <1>d DEF Passkeys!TurnFactorOn
<1>22. ASSUME Passkeys!Tick
      PROVE  Goal
  BY <1>22, <1>a, <1>d DEF Passkeys!Tick
<1> QED
  BY <1>0, <1>1, <1>2, <1>3, <1>4, <1>5, <1>6, <1>7, <1>8, <1>9, <1>10, <1>11, <1>12,
      <1>13, <1>14, <1>15, <1>16, <1>17, <1>18, <1>19, <1>20, <1>21, <1>22 DEF
      Passkeys!Next

LEMMA MadeGrows ==
  ASSUME Passkeys!CeremonyAssumption, PInv, [Passkeys!Next]_Passkeys!vars
  PROVE  made \subseteq made'
BY MadeDoes

LEMMA KeyMadeStep ==
  ASSUME Passkeys!CeremonyAssumption, PInv, [Passkeys!Next]_Passkeys!vars
  PROVE  \A i \in Key : key'[i].made \in made' \cup {None}
<1>a. key \in [Key -> KeyRow] /\ work \in [Ceremony -> CeremonyRow] /\ KeysMade
  BY DEF PInv, PTyped
<1>b. made \subseteq made'
  BY MadeGrows
<1>0. CASE UNCHANGED Passkeys!vars
  BY <1>0, <1>a, <1>b DEF Passkeys!vars, KeysMade
<1> DEFINE Goal == \A i \in Key : key'[i].made \in made' \cup {None}
<1>1. ASSUME NEW w \in Ceremony, Passkeys!Consume(w)
      PROVE  Goal
  BY <1>1, <1>a, <1>b DEF Passkeys!Consume, KeysMade
<1>2. ASSUME NEW w \in Ceremony, Passkeys!FindChallengedAccount(w)
      PROVE  Goal
  BY <1>2, <1>a, <1>b DEF Passkeys!FindChallengedAccount, KeysMade
<1>3. ASSUME NEW w \in Ceremony, Passkeys!FindByCredentialId(w)
      PROVE  Goal
  BY <1>3, <1>a, <1>b DEF Passkeys!FindByCredentialId, KeysMade
<1>4. ASSUME NEW w \in Ceremony, Passkeys!Advance(w)
      PROVE  Goal
  <2>1. PICK n : key' = key \/ key' = [key EXCEPT ![work[w].key].counter = n]
    BY <1>4 DEF Passkeys!Advance
  <2> QED BY <2>1, <1>a, <1>b DEF KeyRow, KeysMade
<1>5. ASSUME NEW w \in Ceremony, Passkeys!FindAccount(w)
      PROVE  Goal
  BY <1>5, <1>a, <1>b DEF Passkeys!FindAccount, KeysMade
<1>6. ASSUME NEW w \in Ceremony, Passkeys!Discard(w)
      PROVE  Goal
  BY <1>6, <1>a, <1>b DEF Passkeys!Discard, KeysMade
<1>7. ASSUME NEW w \in Ceremony, Passkeys!IssueSession(w)
      PROVE  Goal
  BY <1>7, <1>a, <1>b DEF Passkeys!IssueSession, KeysMade
<1>8. ASSUME NEW w \in Ceremony, Passkeys!RegisterFailure(w)
      PROVE  Goal
  BY <1>8, <1>a, <1>b DEF Passkeys!RegisterFailure, KeysMade
<1>9. ASSUME NEW w \in Ceremony, Passkeys!Compare(w)
      PROVE  Goal
  BY <1>9, <1>a, <1>b DEF Passkeys!Compare, KeysMade
<1>10. ASSUME NEW w \in Ceremony, Passkeys!Record(w)
      PROVE  Goal
  <2>1. PICK r : \/ key' = key
                 \/ key' = [key EXCEPT ![work[w].key] = r] /\ r.made = w /\ w \in made'
    BY <1>10 DEF Passkeys!Record
  <2> QED BY <2>1, <1>a, <1>b DEF KeysMade
<1>11. ASSUME NEW w \in Ceremony, Passkeys!Stop(w)
      PROVE  Goal
  BY <1>11, <1>a, <1>b DEF Passkeys!Stop, KeysMade
<1>12. ASSUME NEW w \in Ceremony, NEW h \in Held, Passkeys!Hold(w, h)
      PROVE  Goal
  BY <1>12, <1>a, <1>b DEF Passkeys!Hold, KeysMade
<1>13. ASSUME NEW w \in Ceremony, NEW c \in Chal, NEW k \in Key, NEW n \in 0..MaxCounter,
             NEW uv \in Verifies, Passkeys!Present(w, c, k, n, uv)
      PROVE  Goal
  BY <1>13, <1>a, <1>b DEF Passkeys!Present, KeysMade
<1>14. ASSUME NEW w \in Ceremony, NEW c \in Chal, NEW k \in Key, NEW n \in 0..MaxCounter,
             NEW uv \in Verifies, NEW h \in Held,
             Passkeys!Answer(w, h, c, k, n, uv)
      PROVE  Goal
  BY <1>14, <1>a, <1>b DEF Passkeys!Answer, KeysMade
<1>15. ASSUME NEW w \in Ceremony, NEW c \in Chal, NEW k \in Key, NEW n \in 0..MaxCounter,
             NEW s \in Session, Passkeys!Attest(w, s, c, k, n)
      PROVE  Goal
  BY <1>15, <1>a, <1>b DEF Passkeys!Attest, KeysMade
<1>16. ASSUME NEW c \in Chal, Passkeys!LoginOptions(c)
      PROVE  Goal
  BY <1>16, <1>a, <1>b DEF Passkeys!LoginOptions, KeysMade
<1>17. ASSUME NEW c \in Chal, NEW s \in Session, Passkeys!RegistrationOptions(c, s)
      PROVE  Goal
  BY <1>17, <1>a, <1>b DEF Passkeys!RegistrationOptions, KeysMade
<1>18. ASSUME NEW h \in Held, NEW u \in User, Passkeys!HoldOther(h, u)
      PROVE  Goal
  BY <1>18, <1>a, <1>b DEF Passkeys!HoldOther, KeysMade
<1>19. ASSUME NEW k \in Key, Passkeys!Remove(k)
      PROVE  Goal
  <2>1. Passkeys!NoKey.made = None
    BY DEF Passkeys!NoKey
  <2> QED BY <1>19, <2>1, <1>a, <1>b DEF Passkeys!Remove, KeysMade
<1>20. ASSUME NEW u \in User, Passkeys!Deactivate(u)
      PROVE  Goal
  BY <1>20, <1>a, <1>b DEF Passkeys!Deactivate, KeysMade
<1>21. ASSUME NEW u \in User, Passkeys!TurnFactorOn(u)
      PROVE  Goal
  BY <1>21, <1>a, <1>b DEF Passkeys!TurnFactorOn, KeysMade
<1>22. ASSUME Passkeys!Tick
      PROVE  Goal
  BY <1>22, <1>a, <1>b DEF Passkeys!Tick, KeysMade
<1> QED
  BY <1>0, <1>1, <1>2, <1>3, <1>4, <1>5, <1>6, <1>7, <1>8, <1>9, <1>10, <1>11, <1>12,
      <1>13, <1>14, <1>15, <1>16, <1>17, <1>18, <1>19, <1>20, <1>21, <1>22 DEF
      Passkeys!Next

LEMMA ReadMadeStep ==
  ASSUME NEW z, Passkeys!CeremonyAssumption, PInv, [Passkeys!Next]_Passkeys!vars,
         z \in Ceremony
  PROVE  work'[z].read.made \in made' \cup {None}
<1>a. key \in [Key -> KeyRow] /\ work \in [Ceremony -> CeremonyRow] /\ KeysMade
  BY DEF PInv, PTyped
<1>b. made \subseteq made'
  BY MadeGrows
<1>0. CASE UNCHANGED Passkeys!vars
  BY <1>0, <1>a, <1>b DEF Passkeys!vars, KeysMade
<1> DEFINE Goal == work'[z].read.made \in made' \cup {None}
<1>1. ASSUME NEW w \in Ceremony, Passkeys!Consume(w)
      PROVE  Goal
  <2>1. CASE z # w
    BY <1>1, <2>1, <1>a, <1>b DEF Passkeys!Consume, KeysMade
  <2>2. CASE z = w
    BY <1>1, <2>2, <1>a, <1>b DEF Passkeys!Consume, CeremonyRow, KeysMade
  <2> QED BY <2>1, <2>2
<1>2. ASSUME NEW w \in Ceremony, Passkeys!FindChallengedAccount(w)
      PROVE  Goal
  <2>1. CASE z # w
    BY <1>2, <2>1, <1>a, <1>b DEF Passkeys!FindChallengedAccount, KeysMade
  <2>2. CASE z = w
    BY <1>2, <2>2, <1>a, <1>b DEF Passkeys!FindChallengedAccount, CeremonyRow, KeysMade
  <2> QED BY <2>1, <2>2
<1>3. ASSUME NEW w \in Ceremony, Passkeys!FindByCredentialId(w)
      PROVE  Goal
  <2>1. CASE z # w
    BY <1>3, <2>1, <1>a, <1>b DEF Passkeys!FindByCredentialId, KeysMade
  <2>2. CASE z = w
    <3>1. work[z].key \in Key /\ made' = made
      BY <1>3, <2>2, CeremonyKinds DEF Passkeys!FindByCredentialId
    <3>2. work'[z].read = key[work[z].key]
      BY <1>3, <2>2, <1>a DEF Passkeys!FindByCredentialId, CeremonyRow
    <3> QED BY <3>1, <3>2, <1>a DEF KeysMade
  <2> QED BY <2>1, <2>2
<1>4. ASSUME NEW w \in Ceremony, Passkeys!Advance(w)
      PROVE  Goal
  <2>1. CASE z # w
    BY <1>4, <2>1, <1>a, <1>b DEF Passkeys!Advance, KeysMade
  <2>2. CASE z = w
    BY <1>4, <2>2, <1>a, <1>b DEF Passkeys!Advance, CeremonyRow, KeysMade
  <2> QED BY <2>1, <2>2
<1>5. ASSUME NEW w \in Ceremony, Passkeys!FindAccount(w)
      PROVE  Goal
  <2>1. CASE z # w
    BY <1>5, <2>1, <1>a, <1>b DEF Passkeys!FindAccount, KeysMade
  <2>2. CASE z = w
    BY <1>5, <2>2, <1>a, <1>b DEF Passkeys!FindAccount, CeremonyRow, KeysMade
  <2> QED BY <2>1, <2>2
<1>6. ASSUME NEW w \in Ceremony, Passkeys!Discard(w)
      PROVE  Goal
  <2>1. CASE z # w
    BY <1>6, <2>1, <1>a, <1>b DEF Passkeys!Discard, KeysMade
  <2>2. CASE z = w
    BY <1>6, <2>2, <1>a, <1>b DEF Passkeys!Discard, CeremonyRow, KeysMade
  <2> QED BY <2>1, <2>2
<1>7. ASSUME NEW w \in Ceremony, Passkeys!IssueSession(w)
      PROVE  Goal
  <2>1. CASE z # w
    BY <1>7, <2>1, <1>a, <1>b DEF Passkeys!IssueSession, KeysMade
  <2>2. CASE z = w
    BY <1>7, <2>2, <1>a, <1>b DEF Passkeys!IssueSession, CeremonyRow, KeysMade
  <2> QED BY <2>1, <2>2
<1>8. ASSUME NEW w \in Ceremony, Passkeys!RegisterFailure(w)
      PROVE  Goal
  <2>1. CASE z # w
    BY <1>8, <2>1, <1>a, <1>b DEF Passkeys!RegisterFailure, KeysMade
  <2>2. CASE z = w
    BY <1>8, <2>2, <1>a, <1>b DEF Passkeys!RegisterFailure, CeremonyRow, KeysMade
  <2> QED BY <2>1, <2>2
<1>9. ASSUME NEW w \in Ceremony, Passkeys!Compare(w)
      PROVE  Goal
  <2>1. CASE z # w
    BY <1>9, <2>1, <1>a, <1>b DEF Passkeys!Compare, KeysMade
  <2>2. CASE z = w
    BY <1>9, <2>2, <1>a, <1>b DEF Passkeys!Compare, CeremonyRow, KeysMade
  <2> QED BY <2>1, <2>2
<1>10. ASSUME NEW w \in Ceremony, Passkeys!Record(w)
      PROVE  Goal
  <2>1. CASE z # w
    BY <1>10, <2>1, <1>a, <1>b DEF Passkeys!Record, KeysMade
  <2>2. CASE z = w
    BY <1>10, <2>2, <1>a, <1>b DEF Passkeys!Record, CeremonyRow, KeysMade
  <2> QED BY <2>1, <2>2
<1>11. ASSUME NEW w \in Ceremony, Passkeys!Stop(w)
      PROVE  Goal
  <2>1. CASE z # w
    BY <1>11, <2>1, <1>a, <1>b DEF Passkeys!Stop, KeysMade
  <2>2. CASE z = w
    BY <1>11, <2>2, <1>a, <1>b DEF Passkeys!Stop, CeremonyRow, KeysMade
  <2> QED BY <2>1, <2>2
<1>12. ASSUME NEW w \in Ceremony, NEW h \in Held, Passkeys!Hold(w, h)
      PROVE  Goal
  <2>1. CASE z # w
    BY <1>12, <2>1, <1>a, <1>b DEF Passkeys!Hold, KeysMade
  <2>2. CASE z = w
    BY <1>12, <2>2, <1>a, <1>b DEF Passkeys!Hold, CeremonyRow, KeysMade
  <2> QED BY <2>1, <2>2
<1>13. ASSUME NEW w \in Ceremony, NEW c \in Chal, NEW k \in Key, NEW n \in 0..MaxCounter,
             NEW uv \in Verifies, Passkeys!Present(w, c, k, n, uv)
      PROVE  Goal
  <2>1. CASE z # w
    BY <1>13, <2>1, <1>a, <1>b DEF Passkeys!Present, KeysMade
  <2>2. CASE z = w
    BY <1>13, <2>2, <1>a, <1>b DEF Passkeys!Present, CeremonyRow, KeysMade
  <2> QED BY <2>1, <2>2
<1>14. ASSUME NEW w \in Ceremony, NEW c \in Chal, NEW k \in Key, NEW n \in 0..MaxCounter,
             NEW uv \in Verifies, NEW h \in Held,
             Passkeys!Answer(w, h, c, k, n, uv)
      PROVE  Goal
  <2>1. CASE z # w
    BY <1>14, <2>1, <1>a, <1>b DEF Passkeys!Answer, KeysMade
  <2>2. CASE z = w
    BY <1>14, <2>2, <1>a, <1>b DEF Passkeys!Answer, CeremonyRow, KeysMade
  <2> QED BY <2>1, <2>2
<1>15. ASSUME NEW w \in Ceremony, NEW c \in Chal, NEW k \in Key, NEW n \in 0..MaxCounter,
             NEW s \in Session, Passkeys!Attest(w, s, c, k, n)
      PROVE  Goal
  <2>1. CASE z # w
    BY <1>15, <2>1, <1>a, <1>b DEF Passkeys!Attest, KeysMade
  <2>2. CASE z = w
    BY <1>15, <2>2, <1>a, <1>b DEF Passkeys!Attest, CeremonyRow, KeysMade
  <2> QED BY <2>1, <2>2
<1>16. ASSUME NEW c \in Chal, Passkeys!LoginOptions(c)
      PROVE  Goal
  BY <1>16, <1>a, <1>b DEF Passkeys!LoginOptions, KeysMade
<1>17. ASSUME NEW c \in Chal, NEW s \in Session, Passkeys!RegistrationOptions(c, s)
      PROVE  Goal
  BY <1>17, <1>a, <1>b DEF Passkeys!RegistrationOptions, KeysMade
<1>18. ASSUME NEW h \in Held, NEW u \in User, Passkeys!HoldOther(h, u)
      PROVE  Goal
  BY <1>18, <1>a, <1>b DEF Passkeys!HoldOther, KeysMade
<1>19. ASSUME NEW k \in Key, Passkeys!Remove(k)
      PROVE  Goal
  BY <1>19, <1>a, <1>b DEF Passkeys!Remove, KeysMade
<1>20. ASSUME NEW u \in User, Passkeys!Deactivate(u)
      PROVE  Goal
  BY <1>20, <1>a, <1>b DEF Passkeys!Deactivate, KeysMade
<1>21. ASSUME NEW u \in User, Passkeys!TurnFactorOn(u)
      PROVE  Goal
  BY <1>21, <1>a, <1>b DEF Passkeys!TurnFactorOn, KeysMade
<1>22. ASSUME Passkeys!Tick
      PROVE  Goal
  BY <1>22, <1>a, <1>b DEF Passkeys!Tick, KeysMade
<1> QED
  BY <1>0, <1>1, <1>2, <1>3, <1>4, <1>5, <1>6, <1>7, <1>8, <1>9, <1>10, <1>11, <1>12,
      <1>13, <1>14, <1>15, <1>16, <1>17, <1>18, <1>19, <1>20, <1>21, <1>22 DEF
      Passkeys!Next

LEMMA KeysMadeStep ==
  ASSUME Passkeys!CeremonyAssumption, PInv, [Passkeys!Next]_Passkeys!vars
  PROVE  KeysMade'
<1>a. uses \in Seq(UseRow) /\ KeysMade
  BY DEF PInv, PTyped
<1>b. made \subseteq made'
  BY MadeGrows
<1>1. \A i \in DOMAIN uses' : uses'[i].made \in made' \cup {None}
  <2>1. CASE uses' = uses
    BY <2>1, <1>a, <1>b DEF KeysMade
  <2>2. CASE uses' # uses
    <3>1. PICK y \in Ceremony : uses' = Append(uses, UseOf(y))
      BY <2>2, UsesDo
    <3>2. UseOf(y).made \in made' \cup {None}
      BY <1>a, <1>b DEF UseOf, KeysMade
    <3>3. \A i \in DOMAIN uses : uses'[i].made \in made' \cup {None}
      BY <3>1, <1>a, <1>b, AppendDoes DEF KeysMade
    <3> QED BY <3>1, <3>2, <3>3, <1>a, AppendDoes
  <2> QED BY <2>1, <2>2
<1> QED BY <1>1, KeyMadeStep, ReadMadeStep DEF KeysMade

LEMMA AdvanceMovesOn ==
  ASSUME Passkeys!CeremonyAssumption, PInv, NEW w \in Ceremony, work[w].pc = "advance",
         Passkeys!Counts(w) => Passkeys!CounterStands(w)
  PROVE  /\ work[w].key \in Key
         /\ work[w].n \in Nat /\ key[work[w].key].counter \in Nat
         /\ Passkeys!Counts(w) =>
              /\ key[work[w].key].owner # None
                   /\ key[work[w].key].made = work[w].read.made
              /\ key[work[w].key].counter = 0 \/ key[work[w].key].counter < work[w].n
         /\ ~Passkeys!Counts(w) => work[w].n = 0
<1>1. /\ work[w] \in CeremonyRow /\ CeremonySound(w) /\ work[w].key \in Key
      /\ key \in [Key -> KeyRow]
  BY CeremonyKinds DEF PInv, PTyped, CeremoniesSound
<1>2. work[w].n \in Nat /\ work[w].read.counter \in Nat
  <2>1. work[w].n \in 0..MaxCounter /\ work[w].read \in KeyRow
    BY <1>1 DEF CeremonyRow
  <2> QED BY <2>1 DEF KeyRow, Passkeys!CeremonyAssumption
<1>3. key[work[w].key].counter \in Nat
  <2>1. key[work[w].key] \in KeyRow
    BY <1>1
  <2> QED BY <2>1 DEF KeyRow, Passkeys!CeremonyAssumption
<1>4. Passkeys!MovedForward(work[w].read.counter, work[w].n)
  BY <1>1 DEF CeremonySound
<1> QED BY <1>1, <1>2, <1>3, <1>4 DEF Passkeys!Counts, Passkeys!CounterStands,
          Passkeys!MovedForward

LEMMA UseFields ==
  ASSUME Passkeys!CeremonyAssumption, PInv, NEW i \in DOMAIN uses
  PROVE  uses[i].key \in Key /\ uses[i].n \in Nat /\ uses[i].made \in made \cup {None}
<1>1. uses[i] \in UseRow
  BY DEF PInv, PTyped
<1>2. uses[i].key \in Key /\ uses[i].n \in Nat
  BY <1>1 DEF UseRow, Passkeys!CeremonyAssumption
<1> QED BY <1>2 DEF PInv, KeysMade

LEMMA CountersStep ==
  ASSUME Passkeys!CeremonyAssumption, PInv, [Passkeys!Next]_Passkeys!vars
  PROVE  Passkeys!CountersIncrease'
<1>a. uses \in Seq(UseRow) /\ CounterAhead /\ Passkeys!CountersIncrease
  BY DEF PInv, PTyped
<1>1. CASE uses' = uses
  BY <1>1, <1>a DEF Passkeys!CountersIncrease, Passkeys!SameKey
<1>2. CASE uses' # uses
  <2>1. PICK y \in Ceremony : /\ Passkeys!Advance(y) /\ uses' = Append(uses, UseOf(y))
                              /\ (Passkeys!Counts(y) => Passkeys!CounterStands(y))
    BY <1>2, UsesDo
  <2>2. work[y].pc = "advance"
    BY <2>1 DEF Passkeys!Advance
  <2>3. /\ work[y].n \in Nat /\ key[work[y].key].counter \in Nat
        /\ Passkeys!Counts(y) =>
             /\ key[work[y].key].owner # None /\ key[work[y].key].made = work[y].read.made
             /\ key[work[y].key].counter = 0 \/ key[work[y].key].counter < work[y].n
        /\ ~Passkeys!Counts(y) => work[y].n = 0
    BY <2>1, <2>2, AdvanceMovesOn
  <2>4. ASSUME NEW i \in DOMAIN uses, uses[i].key = work[y].key,
               uses[i].made = work[y].read.made, uses[i].n > 0, work[y].n > 0
        PROVE  uses[i].n < work[y].n
    <3>1. uses[i].n \in Nat
      BY UseFields
    <3>2. uses[i].n <= key[work[y].key].counter
      BY <2>3, <2>4, <1>a DEF CounterAhead
    <3> QED BY <2>3, <2>4, <3>1, <3>2
  <2>5. /\ DOMAIN uses' = 1..(Len(uses) + 1) /\ DOMAIN uses = 1..Len(uses)
             /\ Len(uses) \in Nat
        /\ uses'[Len(uses) + 1] = UseOf(y)
        /\ \A i \in DOMAIN uses : uses'[i] = uses[i]
    BY <2>1, <1>a, AppendDoes
  <2>6. /\ UseOf(y).key = work[y].key /\ UseOf(y).made = work[y].read.made
        /\ UseOf(y).n = work[y].n
    BY DEF UseOf
  <2>7. ASSUME NEW i \in DOMAIN uses', NEW j \in DOMAIN uses', i < j,
               uses'[i].key = uses'[j].key, uses'[i].made = uses'[j].made,
               uses'[i].n > 0, uses'[j].n > 0
        PROVE  uses'[i].n < uses'[j].n
    <3>1. CASE j = Len(uses) + 1
      <4>1. i \in DOMAIN uses
        BY <2>5, <2>7, <3>1
      <4> QED BY <2>4, <2>5, <2>6, <2>7, <3>1, <4>1
    <3>2. CASE j # Len(uses) + 1
      <4>1. i \in DOMAIN uses /\ j \in DOMAIN uses
        BY <2>5, <2>7, <3>2
      <4> QED BY <2>5, <2>7, <4>1, <1>a DEF Passkeys!CountersIncrease, Passkeys!SameKey
    <3> QED BY <3>1, <3>2
  <2> QED BY <2>7 DEF Passkeys!CountersIncrease, Passkeys!SameKey
<1> QED BY <1>1, <1>2

LEMMA KeyDoes ==
  ASSUME NEW i, Passkeys!CeremonyAssumption, PInv, [Passkeys!Next]_Passkeys!vars,
         i \in Key
  PROVE  \/ uses' # uses \/ key'[i] = key[i] \/ key'[i] = Passkeys!NoKey
         \/ key'[i].made \in Ceremony \ made
<1>a. key \in [Key -> KeyRow] /\ uses \in Seq(UseRow) /\ UsedOnce
  BY DEF PInv, PTyped
<1>0. CASE UNCHANGED Passkeys!vars
  BY <1>0, <1>a DEF Passkeys!vars
<1> DEFINE Goal ==
         \/ uses' # uses \/ key'[i] = key[i] \/ key'[i] = Passkeys!NoKey
         \/ key'[i].made \in Ceremony \ made
<1>1. ASSUME NEW w \in Ceremony, Passkeys!Consume(w)
      PROVE  Goal
  BY <1>1, <1>a DEF Passkeys!Consume
<1>2. ASSUME NEW w \in Ceremony, Passkeys!FindChallengedAccount(w)
      PROVE  Goal
  BY <1>2, <1>a DEF Passkeys!FindChallengedAccount
<1>3. ASSUME NEW w \in Ceremony, Passkeys!FindByCredentialId(w)
      PROVE  Goal
  BY <1>3, <1>a DEF Passkeys!FindByCredentialId
<1>4. ASSUME NEW w \in Ceremony, Passkeys!Advance(w)
      PROVE  Goal
  <2>1. PICK x : \/ key' = key
                 \/ uses' = Append(uses, x)
    BY <1>4 DEF Passkeys!Advance
  <2>2. CASE uses' = Append(uses, x)
    BY <2>2, <1>a, AppendDoes
  <2> QED BY <2>1, <2>2
<1>5. ASSUME NEW w \in Ceremony, Passkeys!FindAccount(w)
      PROVE  Goal
  BY <1>5, <1>a DEF Passkeys!FindAccount
<1>6. ASSUME NEW w \in Ceremony, Passkeys!Discard(w)
      PROVE  Goal
  BY <1>6, <1>a DEF Passkeys!Discard
<1>7. ASSUME NEW w \in Ceremony, Passkeys!IssueSession(w)
      PROVE  Goal
  BY <1>7, <1>a DEF Passkeys!IssueSession
<1>8. ASSUME NEW w \in Ceremony, Passkeys!RegisterFailure(w)
      PROVE  Goal
  BY <1>8, <1>a DEF Passkeys!RegisterFailure
<1>9. ASSUME NEW w \in Ceremony, Passkeys!Compare(w)
      PROVE  Goal
  BY <1>9, <1>a DEF Passkeys!Compare
<1>10. ASSUME NEW w \in Ceremony, Passkeys!Record(w)
      PROVE  Goal
  <2>1. w \notin made
    BY <1>10, <1>a DEF Passkeys!Record, UsedOnce
  <2>2. PICK r : \/ key' = key
                 \/ key' = [key EXCEPT ![work[w].key] = r] /\ r.made = w
    BY <1>10 DEF Passkeys!Record
  <2> QED BY <2>1, <2>2, <1>a
<1>11. ASSUME NEW w \in Ceremony, Passkeys!Stop(w)
      PROVE  Goal
  BY <1>11, <1>a DEF Passkeys!Stop
<1>12. ASSUME NEW w \in Ceremony, NEW h \in Held, Passkeys!Hold(w, h)
      PROVE  Goal
  BY <1>12, <1>a DEF Passkeys!Hold
<1>13. ASSUME NEW w \in Ceremony, NEW c \in Chal, NEW k \in Key, NEW n \in 0..MaxCounter,
             NEW uv \in Verifies, Passkeys!Present(w, c, k, n, uv)
      PROVE  Goal
  BY <1>13, <1>a DEF Passkeys!Present
<1>14. ASSUME NEW w \in Ceremony, NEW c \in Chal, NEW k \in Key, NEW n \in 0..MaxCounter,
             NEW uv \in Verifies, NEW h \in Held,
             Passkeys!Answer(w, h, c, k, n, uv)
      PROVE  Goal
  BY <1>14, <1>a DEF Passkeys!Answer
<1>15. ASSUME NEW w \in Ceremony, NEW c \in Chal, NEW k \in Key, NEW n \in 0..MaxCounter,
             NEW s \in Session, Passkeys!Attest(w, s, c, k, n)
      PROVE  Goal
  BY <1>15, <1>a DEF Passkeys!Attest
<1>16. ASSUME NEW c \in Chal, Passkeys!LoginOptions(c)
      PROVE  Goal
  BY <1>16, <1>a DEF Passkeys!LoginOptions
<1>17. ASSUME NEW c \in Chal, NEW s \in Session, Passkeys!RegistrationOptions(c, s)
      PROVE  Goal
  BY <1>17, <1>a DEF Passkeys!RegistrationOptions
<1>18. ASSUME NEW h \in Held, NEW u \in User, Passkeys!HoldOther(h, u)
      PROVE  Goal
  BY <1>18, <1>a DEF Passkeys!HoldOther
<1>19. ASSUME NEW k \in Key, Passkeys!Remove(k)
      PROVE  Goal
  BY <1>19, <1>a DEF Passkeys!Remove
<1>20. ASSUME NEW u \in User, Passkeys!Deactivate(u)
      PROVE  Goal
  BY <1>20, <1>a DEF Passkeys!Deactivate
<1>21. ASSUME NEW u \in User, Passkeys!TurnFactorOn(u)
      PROVE  Goal
  BY <1>21, <1>a DEF Passkeys!TurnFactorOn
<1>22. ASSUME Passkeys!Tick
      PROVE  Goal
  BY <1>22, <1>a DEF Passkeys!Tick
<1> QED
  BY <1>0, <1>1, <1>2, <1>3, <1>4, <1>5, <1>6, <1>7, <1>8, <1>9, <1>10, <1>11, <1>12,
      <1>13, <1>14, <1>15, <1>16, <1>17, <1>18, <1>19, <1>20, <1>21, <1>22 DEF
      Passkeys!Next

LEMMA CounterAheadStep ==
  ASSUME Passkeys!CeremonyAssumption, PInv, [Passkeys!Next]_Passkeys!vars
  PROVE  CounterAhead'
<1>a. uses \in Seq(UseRow) /\ CounterAhead /\ key \in [Key -> KeyRow]
  BY DEF PInv, PTyped
<1>b. \A i \in DOMAIN uses : /\ uses[i].key \in Key /\ uses[i].n \in Nat
                             /\ uses[i].made \in made \cup {None}
  BY UseFields
<1>1. CASE uses' # uses
  <2>1. PICK y \in Ceremony : /\ Passkeys!Advance(y) /\ uses' = Append(uses, UseOf(y))
                              /\ (Passkeys!Counts(y) => Passkeys!CounterStands(y))
    BY <1>1, UsesDo
  <2>2. work[y].pc = "advance"
    BY <2>1 DEF Passkeys!Advance
  <2>3. /\ work[y].key \in Key /\ work[y].n \in Nat /\ key[work[y].key].counter \in Nat
        /\ Passkeys!Counts(y) =>
             /\ key[work[y].key].owner # None /\ key[work[y].key].made = work[y].read.made
             /\ key[work[y].key].counter = 0 \/ key[work[y].key].counter < work[y].n
        /\ ~Passkeys!Counts(y) => work[y].n = 0
    BY <2>1, <2>2, AdvanceMovesOn
  <2>4. key' = IF Passkeys!Counts(y) THEN [key EXCEPT ![work[y].key].counter = work[y].n]
               ELSE key
    BY <2>1, <1>1 DEF Passkeys!Advance
  <2>5. /\ \A k \in Key : /\ key'[k].owner = key[k].owner /\ key'[k].made = key[k].made
                          /\ k # work[y].key => key'[k].counter = key[k].counter
        /\ key'[work[y].key].counter =
             IF Passkeys!Counts(y) THEN work[y].n ELSE key[work[y].key].counter
    BY <2>3, <2>4, <1>a DEF KeyRow
  <2>6. /\ DOMAIN uses' = 1..(Len(uses) + 1) /\ DOMAIN uses = 1..Len(uses)
             /\ Len(uses) \in Nat
        /\ uses'[Len(uses) + 1] = UseOf(y)
        /\ \A i \in DOMAIN uses : uses'[i] = uses[i]
    BY <2>1, <1>a, AppendDoes
  <2>7. /\ UseOf(y).key = work[y].key /\ UseOf(y).made = work[y].read.made
        /\ UseOf(y).n = work[y].n
    BY DEF UseOf
  <2>8. ASSUME NEW i \in DOMAIN uses, key'[uses[i].key].owner # None,
               key'[uses[i].key].made = uses[i].made
        PROVE  uses[i].n <= key'[uses[i].key].counter
    <3>1. uses[i].n <= key[uses[i].key].counter
      BY <2>5, <2>8, <1>a, <1>b DEF CounterAhead
    <3>2. CASE uses[i].key # work[y].key
      BY <2>5, <3>1, <3>2, <1>b
    <3>3. CASE uses[i].key = work[y].key
      <4>1. key[work[y].key].counter <= key'[work[y].key].counter
        BY <2>3, <2>5
      <4> QED BY <2>3, <2>5, <3>1, <3>3, <4>1, <1>b
    <3> QED BY <3>2, <3>3
  <2>9. work[y].n <= key'[work[y].key].counter
    BY <2>3, <2>5
  <2> QED BY <2>6, <2>7, <2>8, <2>9 DEF CounterAhead
<1>2. ASSUME uses' = uses, NEW i \in DOMAIN uses, key'[uses[i].key] = key[uses[i].key]
      PROVE  (key'[uses[i].key].owner # None /\ key'[uses[i].key].made = uses[i].made)
               => uses[i].n <= key'[uses[i].key].counter
  BY <1>2, <1>a DEF CounterAhead
<1>3. ASSUME uses' = uses, NEW i \in DOMAIN uses, key'[uses[i].key] # key[uses[i].key]
      PROVE  \/ key'[uses[i].key].owner = None
             \/ key'[uses[i].key].made # uses[i].made
  <2>1. \/ key'[uses[i].key] = Passkeys!NoKey
        \/ key'[uses[i].key].made \in Ceremony \ made
    BY <1>3, <1>b, KeyDoes
  <2> QED BY <2>1, <1>b DEF Passkeys!NoKey, Passkeys!CeremonyAssumption
<1> QED BY <1>1, <1>2, <1>3 DEF CounterAhead

LEMMA PasskeyTyped ==
  ASSUME Passkeys!CeremonyAssumption, PInv, [Passkeys!Next]_Passkeys!vars
  PROVE  PTyped'
BY CeremonyTypedStep, ChalTypedStep, KeyTypedStep, HoldsTypedStep, UseTypedStep,
   FactsTypedStep DEF PTyped

LEMMA PasskeyInit ==
  ASSUME Passkeys!CeremonyAssumption, Passkeys!Init
  PROVE  PInv
<1>1. /\ now = 0 /\ active = User /\ factor = WithFactor /\ uses = <<>> /\ made = {}
      /\ sessions = {} /\ 0 \in 0..EndTime /\ 0 \in 0..MaxCounter /\ 0 \in 0..HeldAttempts
      /\ WithFactor \subseteq User
  BY DEF Passkeys!Init, Passkeys!CeremonyAssumption
<1>2. \A c \in Chal : /\ chal[c].state = "new" /\ chal[c].purpose = "none"
                      /\ chal[c] \in ChalRow
  BY DEF Passkeys!Init, Passkeys!NoChal, ChalRow
<1>3. \A h \in Held : /\ held[h].state = "new" /\ held[h].first = "none"
                      /\ held[h] \in HeldRow
  BY <1>1 DEF Passkeys!Init, Passkeys!NoHeld, HeldRow
<1>4. Passkeys!NoKey \in KeyRow /\ Passkeys!NoKey.made = None
  BY <1>1 DEF Passkeys!NoKey, KeyRow
<1>5. \A k \in Key : key[k] \in KeyRow /\ key[k].made = None
  <2>1. [Passkeys!NoKey EXCEPT !.owner = FirstOwner] \in KeyRow
    BY <1>4 DEF KeyRow, Passkeys!CeremonyAssumption
  <2>2. [Passkeys!NoKey EXCEPT !.owner = FirstOwner].made = None
    BY DEF Passkeys!NoKey
  <2> QED BY <1>4, <2>1, <2>2 DEF Passkeys!Init
<1>6. \A w \in Ceremony : work[w] = Passkeys!NoWork
  BY DEF Passkeys!Init
<1>7. /\ Passkeys!NoWork \in CeremonyRow
      /\ Passkeys!NoWork.kind = "none" /\ Passkeys!NoWork.pc = "idle"
      /\ Passkeys!NoWork.read = Passkeys!NoKey /\ Passkeys!NoWork.held = None
  BY <1>1, <1>4 DEF Passkeys!NoWork, CeremonyRow, CeremonyPc
<1>8. PTyped
  BY <1>1, <1>2, <1>3, <1>5, <1>6, <1>7 DEF PTyped, Passkeys!Init
<1>9. ChalsSound /\ HeldsSound
  BY <1>2, <1>3 DEF ChalsSound, HeldsSound, ChalSound, HeldSound
<1>10. CeremoniesSound /\ SpentOnce /\ ClaimedOnce /\ ShownSound /\ ProvedByAll
  BY <1>1, <1>6, <1>7
     DEF CeremoniesSound, SpentOnce, ClaimedOnce, ShownSound, ProvedByAll,
     CeremonySound, SpentSound, ClaimedSound, ShownWhereDue, ProvedSound, Finding
<1>11. /\ UsedOnce /\ AdmittedSound /\ CounterAhead /\ Passkeys!CountersIncrease
       /\ DOMAIN uses = {}
  BY <1>1 DEF UsedOnce, Passkeys!OneUsePerChallenge, AdmittedSound, CounterAhead,
     Passkeys!CountersIncrease
<1>12. KeysMade
  BY <1>1, <1>4, <1>5, <1>6, <1>7, <1>11 DEF KeysMade
<1> QED BY <1>8, <1>9, <1>10, <1>11, <1>12 DEF PInv

LEMMA PInvStep ==
  ASSUME Passkeys!CeremonyAssumption, PInv, [Passkeys!Next]_Passkeys!vars
  PROVE  PInv'
<1>1. PTyped' /\ ChalsSound' /\ HeldsSound' /\ CeremoniesSound'
  BY PasskeyTyped, ChalsStep, HeldsStep, CeremoniesStep
     DEF ChalsSound, HeldsSound, CeremoniesSound
<1>2. SpentOnce' /\ UsedOnce' /\ ClaimedOnce' /\ AdmittedSound'
  BY ChallengeSpentStep, UsedStep, ClaimedOnceStep, AdmittedStep
     DEF SpentOnce, ClaimedOnce
<1>3. ShownSound' /\ ProvedByAll'
  BY ShownStep, ProvedStep DEF ShownSound, ProvedByAll
<1> QED BY <1>1, <1>2, <1>3, KeysMadeStep, CounterAheadStep, CountersStep DEF PInv

LEMMA OneAnswersAHeld ==
  ASSUME Passkeys!CeremonyAssumption, PInv, NEW h \in Held
  PROVE  Passkeys!Cardinality({w \in Ceremony : work[w].held = h /\ work[w].pc \in
            {"account", "consume", "find", "advance", "discard"}}) <= 1
<1> DEFINE S == {w \in Ceremony : work[w].held = h /\ work[w].pc \in
                   {"account", "consume", "find", "advance", "discard"}}
<1>0. None \notin Held
  BY DEF Passkeys!CeremonyAssumption
<1>1. ASSUME NEW v \in S, NEW w \in S
      PROVE  v = w
  <2>1. \A x \in S : work[x].kind = "second" /\ x \in Ceremony /\ work[x].pc \in Holding
    <3>1. ASSUME NEW x \in S
          PROVE  work[x].kind = "second"
      <4>1. CeremonySound(x) /\ work[x].held = h
        BY <3>1 DEF PInv, CeremoniesSound
      <4> QED BY <4>1, <1>0 DEF CeremonySound
    <3> QED BY <3>1 DEF Holding
  <2>2. ClaimedSound(v) /\ work[v].held = work[w].held
    BY DEF PInv, ClaimedOnce
  <2> QED BY <2>1, <2>2 DEF ClaimedSound
<1>2. S = {} \/ \E w : S = {w}
  BY <1>1
<1> HIDE DEF S
<1>3. Cardinality(S) <= 1
  <2>1. CASE S = {}
    BY <2>1, FS_EmptySet
  <2>2. CASE \E w : S = {w}
    BY <2>2, FS_Singleton
  <2> QED BY <1>2, <2>1, <2>2
<1>4. Passkeys!Cardinality(S) = Cardinality(S)
  BY DEF Passkeys!Cardinality, Cardinality
<1> QED BY <1>3, <1>4 DEF S

(* What the invariant says of the properties below.                        *)
LEMMA PSafe ==
  ASSUME Passkeys!CeremonyAssumption, PInv
  PROVE  /\ Passkeys!TypeOK /\ Passkeys!OneUsePerChallenge
         /\ Passkeys!CountersIncrease /\ Passkeys!TwoFactorsShown
         /\ Passkeys!RegisteredWhereProved
<1>1. Passkeys!TypeOK
  <2>1. /\ now \in 0..EndTime /\ active \subseteq User /\ factor \subseteq User
        /\ key \in [Key -> KeyRow] /\ held \in [Held -> HeldRow]
    BY DEF PInv, PTyped
  <2> QED BY <2>1, OneAnswersAHeld DEF Passkeys!TypeOK, KeyRow, HeldRow
<1>2. Passkeys!OneUsePerChallenge /\ Passkeys!CountersIncrease
  BY DEF PInv, UsedOnce
<1>3. Passkeys!TwoFactorsShown
  <2> SUFFICES ASSUME NEW w \in sessions
               PROVE  /\ \E i \in DOMAIN uses : uses[i].by = w
                      /\ work[w].kind = "login" => (work[w].owed => work[w].uv)
                      /\ work[w].kind = "second" =>
                           /\ work[w].read.owner = held[work[w].held].user
                           /\ work[w].uv \/ held[work[w].held].first = "password"
                           /\ \A v \in sessions : work[v].held = work[w].held => v = w
    BY DEF Passkeys!TwoFactorsShown
  <2>1. /\ w \in Ceremony /\ Shown(w) /\ ClaimedSound(w) /\ CeremonySound(w)
        /\ sessions \subseteq Ceremony
    BY DEF PInv, PTyped, ShownSound, ShownWhereDue, ClaimedOnce, CeremoniesSound
  <2>2. ASSUME work[w].kind = "second", NEW v \in sessions,
               work[v].held = work[w].held
        PROVE  v = w
    <3>1. CeremonySound(v) /\ work[w].held # None
      BY <2>1, <2>2
         DEF PInv, CeremoniesSound, CeremonySound, Passkeys!CeremonyAssumption
    <3>2. work[v].kind = "second"
      BY <2>2, <3>1 DEF CeremonySound
    <3> QED BY <2>1, <2>2, <3>2 DEF ClaimedSound
  <2> QED BY <2>1, <2>2 DEF Shown
<1>4. Passkeys!RegisteredWhereProved
  BY DEF PInv, PTyped, ProvedByAll, ProvedSound, Passkeys!RegisteredWhereProved
<1> QED BY <1>1, <1>2, <1>3, <1>4

(* A challenge is good for one ceremony (PasskeyChallengeService.consume), *)
(* counters of a key and its copy only go up (advanceCounter), and a       *)
(* passkey is stored for the session that proved itself for it             *)
(* (PasskeyRegistrationService, NativePasskeyRegistrationService).         *)
THEOREM PasskeysSafe ==
  ASSUME Passkeys!CeremonyAssumption
  PROVE  Passkeys!Spec =>
           [](/\ Passkeys!TypeOK /\ Passkeys!OneUsePerChallenge
              /\ Passkeys!CountersIncrease /\ Passkeys!RegisteredWhereProved)
<1>1. Passkeys!Init => PInv
  BY PasskeyInit
<1>2. PInv /\ [Passkeys!Next]_Passkeys!vars => PInv'
  BY PInvStep
<1>3. PInv => /\ Passkeys!TypeOK /\ Passkeys!OneUsePerChallenge
              /\ Passkeys!CountersIncrease /\ Passkeys!RegisteredWhereProved
  BY PSafe
<1> QED BY <1>1, <1>2, <1>3, PTL DEF Passkeys!Spec

(* A session that a passkey opens had the second factor its account owed   *)
(* (PasskeyLoginService, PasskeySecondFactorVerifier), and a held sign-in  *)
(* gives one session.                                                      *)
THEOREM OwedFactorsShown ==
  ASSUME Passkeys!CeremonyAssumption
  PROVE  Passkeys!Spec => [](Passkeys!TwoFactorsShown /\ TwoFactorsShown)
<1>1. Passkeys!Init => PInv
  BY PasskeyInit
<1>2. PInv /\ [Passkeys!Next]_Passkeys!vars => PInv'
  BY PInvStep
<1>3. PInv => Passkeys!TwoFactorsShown /\ TwoFactorsShown
  BY PSafe DEF TwoFactorsShown
<1> QED BY <1>1, <1>2, <1>3, PTL DEF Passkeys!Spec

(* A step that makes a key makes it for an account that is active.         *)
LEMMA OnlyTheActiveGetKeys ==
  ASSUME Passkeys!CeremonyAssumption, PInv, [Passkeys!Next]_Passkeys!vars
  PROVE  Passkeys!StandingGetsKey
<1>a. key \in [Key -> KeyRow] /\ \A w \in Ceremony : CeremonySound(w)
  BY DEF PInv, PTyped, CeremoniesSound
<1>0. CASE UNCHANGED Passkeys!vars
  BY <1>0, <1>a DEF Passkeys!vars, Passkeys!StandingGetsKey
<1> DEFINE Goal == Passkeys!StandingGetsKey
<1>1. ASSUME NEW w \in Ceremony, Passkeys!Consume(w)
      PROVE  Goal
  BY <1>1, <1>a DEF Passkeys!Consume, Passkeys!StandingGetsKey
<1>2. ASSUME NEW w \in Ceremony, Passkeys!FindChallengedAccount(w)
      PROVE  Goal
  BY <1>2, <1>a DEF Passkeys!FindChallengedAccount, Passkeys!StandingGetsKey
<1>3. ASSUME NEW w \in Ceremony, Passkeys!FindByCredentialId(w)
      PROVE  Goal
  BY <1>3, <1>a DEF Passkeys!FindByCredentialId, Passkeys!StandingGetsKey
<1>4. ASSUME NEW w \in Ceremony, Passkeys!Advance(w)
      PROVE  Goal
  BY <1>4, <1>a DEF Passkeys!Advance, Passkeys!StandingGetsKey, KeyRow
<1>5. ASSUME NEW w \in Ceremony, Passkeys!FindAccount(w)
      PROVE  Goal
  BY <1>5, <1>a DEF Passkeys!FindAccount, Passkeys!StandingGetsKey
<1>6. ASSUME NEW w \in Ceremony, Passkeys!Discard(w)
      PROVE  Goal
  BY <1>6, <1>a DEF Passkeys!Discard, Passkeys!StandingGetsKey
<1>7. ASSUME NEW w \in Ceremony, Passkeys!IssueSession(w)
      PROVE  Goal
  BY <1>7, <1>a DEF Passkeys!IssueSession, Passkeys!StandingGetsKey
<1>8. ASSUME NEW w \in Ceremony, Passkeys!RegisterFailure(w)
      PROVE  Goal
  BY <1>8, <1>a DEF Passkeys!RegisterFailure, Passkeys!StandingGetsKey
<1>9. ASSUME NEW w \in Ceremony, Passkeys!Compare(w)
      PROVE  Goal
  BY <1>9, <1>a DEF Passkeys!Compare, Passkeys!StandingGetsKey
<1>10. ASSUME NEW w \in Ceremony, Passkeys!Record(w)
      PROVE  Goal
  BY <1>10, <1>a DEF Passkeys!Record, Passkeys!StandingGetsKey, Passkeys!Stands
<1>11. ASSUME NEW w \in Ceremony, Passkeys!Stop(w)
      PROVE  Goal
  BY <1>11, <1>a DEF Passkeys!Stop, Passkeys!StandingGetsKey
<1>12. ASSUME NEW w \in Ceremony, NEW h \in Held, Passkeys!Hold(w, h)
      PROVE  Goal
  BY <1>12, <1>a DEF Passkeys!Hold, Passkeys!StandingGetsKey
<1>13. ASSUME NEW w \in Ceremony, NEW c \in Chal, NEW k \in Key, NEW n \in 0..MaxCounter,
             NEW uv \in Verifies, Passkeys!Present(w, c, k, n, uv)
      PROVE  Goal
  BY <1>13, <1>a DEF Passkeys!Present, Passkeys!StandingGetsKey
<1>14. ASSUME NEW w \in Ceremony, NEW c \in Chal, NEW k \in Key, NEW n \in 0..MaxCounter,
             NEW uv \in Verifies, NEW h \in Held,
             Passkeys!Answer(w, h, c, k, n, uv)
      PROVE  Goal
  BY <1>14, <1>a DEF Passkeys!Answer, Passkeys!StandingGetsKey
<1>15. ASSUME NEW w \in Ceremony, NEW c \in Chal, NEW k \in Key, NEW n \in 0..MaxCounter,
             NEW s \in Session, Passkeys!Attest(w, s, c, k, n)
      PROVE  Goal
  BY <1>15, <1>a DEF Passkeys!Attest, Passkeys!StandingGetsKey
<1>16. ASSUME NEW c \in Chal, Passkeys!LoginOptions(c)
      PROVE  Goal
  BY <1>16, <1>a DEF Passkeys!LoginOptions, Passkeys!StandingGetsKey
<1>17. ASSUME NEW c \in Chal, NEW s \in Session, Passkeys!RegistrationOptions(c, s)
      PROVE  Goal
  BY <1>17, <1>a DEF Passkeys!RegistrationOptions, Passkeys!StandingGetsKey
<1>18. ASSUME NEW h \in Held, NEW u \in User, Passkeys!HoldOther(h, u)
      PROVE  Goal
  BY <1>18, <1>a DEF Passkeys!HoldOther, Passkeys!StandingGetsKey
<1>19. ASSUME NEW k \in Key, Passkeys!Remove(k)
      PROVE  Goal
  BY <1>19, <1>a DEF Passkeys!Remove, Passkeys!StandingGetsKey, Passkeys!NoKey
<1>20. ASSUME NEW u \in User, Passkeys!Deactivate(u)
      PROVE  Goal
  BY <1>20, <1>a DEF Passkeys!Deactivate, Passkeys!StandingGetsKey
<1>21. ASSUME NEW u \in User, Passkeys!TurnFactorOn(u)
      PROVE  Goal
  BY <1>21, <1>a DEF Passkeys!TurnFactorOn, Passkeys!StandingGetsKey
<1>22. ASSUME Passkeys!Tick
      PROVE  Goal
  BY <1>22, <1>a DEF Passkeys!Tick, Passkeys!StandingGetsKey
<1> QED
  BY <1>0, <1>1, <1>2, <1>3, <1>4, <1>5, <1>6, <1>7, <1>8, <1>9, <1>10, <1>11, <1>12,
      <1>13, <1>14, <1>15, <1>16, <1>17, <1>18, <1>19, <1>20, <1>21, <1>22 DEF
      Passkeys!Next

(* An account that was deactivated after its options were handed out gets  *)
(* no passkey (PasskeyRecorder).                                           *)
THEOREM KeysForTheActive ==
  ASSUME Passkeys!CeremonyAssumption
  PROVE  Passkeys!Spec => [][Passkeys!StandingGetsKey]_Passkeys!vars
<1>1. Passkeys!Init => PInv
  BY PasskeyInit
<1>2. PInv /\ [Passkeys!Next]_Passkeys!vars => PInv'
  BY PInvStep
<1>3. PInv /\ [Passkeys!Next]_Passkeys!vars => Passkeys!StandingGetsKey
  BY OnlyTheActiveGetKeys
<1> QED BY <1>1, <1>2, <1>3, PTL DEF Passkeys!Spec
=============================================================================
