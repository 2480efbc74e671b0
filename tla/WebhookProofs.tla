--------------------------- MODULE WebhookProofs ---------------------------
(***************************************************************************)
(* Proofs about Webhook, for every set of hosts, keys, phrases and         *)
(* requests and any number of requests under way.                          *)
(***************************************************************************)
EXTENDS Webhook, TLAPS

-----------------------------------------------------------------------------
(* Type correctness.                                                       *)

(* What Observe writes is a window and a time, whatever the step.          *)
ObservedType == window \in [Slots -> SUBSET Marks] /\ arrived \in [Slots -> 0..MaxClock]

LEMMA ObserveType ==
    ASSUME ObservedType, Observe, MaxClock \in Nat, clock' \in 0..MaxClock
    PROVE  ObservedType'
<1>1. ASSUME NEW s \in Slots
      PROVE  Seen(req[s], arrived[s])' \in SUBSET Marks
  BY DEF Seen
<1>2. window' \in [Slots -> SUBSET Marks]
  BY <1>1 DEF Observe, ObservedType
<1>3. arrived' \in [Slots -> 0..MaxClock]
  BY DEF Observe, ObservedType
<1>4. QED BY <1>2, <1>3 DEF ObservedType

LEMMA EveryStepIsObserved == Next => Observe
<1>1. \A s \in Slots : Serve(s) => Observe
  BY DEF Serve, Work, RejectRequest, LookupFails, LookupRefuses, LookupFinds, ReadClock,
         MatchPhrases, MatchAmong,
         EnrollAllows, EnrollRefuses, EnrollExhausted, CheckPin, DatabaseFails
<1>2. \A s \in Slots : StepCA(s) => Observe
  BY DEF StepCA, Arrive, AskAgain, LoseReply, Issue, GiveUp
<1>3. Admin \/ Tick \/ Shutdown \/ Exit \/ Restart => Observe
  BY DEF Admin, PhraseAdd, PhraseRevoke, PinsClear, UsesReset, PublishList, Tick, Shutdown, Exit,
         Restart
<1>4. QED BY <1>1, <1>2, <1>3 DEF Next

LEMMA InitType == Init => TypeOK
<1> SUFFICES ASSUME Init PROVE TypeOK
  OBVIOUS
<1>1. StoreTypeOK
  BY DEF Init, StoreInit, StoreTypeOK
<1>2. ObservedType
  BY WebhookAssumption DEF Init, ObservedType
<1>3. QED
  BY <1>1, <1>2, WebhookAssumption DEF Init, TypeOK, ObservedType

(* The handler's steps. *)
LEMMA ServeType ==
    ASSUME TypeOK, NEW s \in Slots, Serve(s), ObservedType'
    PROVE  TypeOK'
<1> USE WebhookAssumption DEF TypeOK, ObservedType, Presentable, Reply, Goto, storeVars, history
<1>1. CASE RejectRequest(s)
  BY <1>1 DEF RejectRequest, StoreTypeOK
<1>2. CASE LookupFails(s)
  BY <1>2 DEF LookupFails, StoreTypeOK
<1>3. CASE LookupRefuses(s)
  BY <1>3 DEF LookupRefuses, StoreTypeOK
<1>4. CASE LookupFinds(s)
  <2>1. req[s] \in Request /\ req[s].host \in Hosts /\ devices \in [Hosts -> Serials \cup {Null}]
    BY <1>4 DEF LookupFinds, Request
  <2>2. serial' \in [Slots -> Serials \cup {Null}]
    BY <1>4, <2>1 DEF LookupFinds
  <2>3. pc' = [pc EXCEPT ![s] = "pin"] \/ pc' = [pc EXCEPT ![s] = "clock"]
    BY <1>4 DEF LookupFinds
  <2>4. QED
    BY <1>4, <2>2, <2>3 DEF LookupFinds, StoreTypeOK
<1>5. CASE MatchPhrases(s)
  <2> DEFINE hits == {p \in ActivePhrases(now[s]) : req[s].chal = <<p, serial[s]>>}
  <2>1. hits \subseteq Phrases
    BY DEF ActivePhrases
  <2>2. CASE hits # {} /\ Goto(s, "enroll") /\ matched' = [matched EXCEPT ![s] = hits]
                /\ now' = [now EXCEPT ![s] = 0] /\ UNCHANGED <<req, tries, serial, answer>>
    <3> HIDE DEF hits
    <3> QED BY <1>5, <2>1, <2>2 DEF MatchPhrases, MatchAmong, StoreTypeOK
  <2>3. CASE hits = {} /\ Reply(s, "deny")
    BY <1>5, <2>3 DEF MatchPhrases, MatchAmong, StoreTypeOK
  <2>4. QED BY <1>5, <2>2, <2>3 DEF MatchPhrases, MatchAmong
<1>6. CASE EnrollAllows(s)
  <2>1. PICK p \in matched[s] :
          /\ Enroll(p, req[s].host, req[s].txn, req[s].key)
          /\ grants' = grants \cup {[phrase |-> p, host |-> req[s].host,
                                     txn |-> req[s].txn, key |-> req[s].key]}
    BY <1>6 DEF EnrollAllows
  <2>2. /\ p \in Phrases
        /\ req[s].host \in Hosts /\ req[s].txn \in Txns /\ req[s].key \in Keys
    BY <1>6 DEF EnrollAllows, Request
  <2>3. StoreTypeOK'
    BY <2>1, <2>2 DEF Enroll, StoreTypeOK, PinRow
  <2>4. /\ grants' \subseteq [phrase : Phrases, host : Hosts, txn : Txns, key : Keys]
        /\ enrolled' \subseteq Hosts \X Keys
    BY <1>6, <2>1, <2>2 DEF EnrollAllows
  <2>5. QED
    BY <1>6, <2>3, <2>4 DEF EnrollAllows
<1>7. CASE EnrollRefuses(s)
  BY <1>7 DEF EnrollRefuses, StoreTypeOK
<1>8. CASE EnrollExhausted(s)
  BY <1>8 DEF EnrollExhausted, StoreTypeOK
<1>9. CASE CheckPin(s)
  BY <1>9 DEF CheckPin, StoreTypeOK
<1>10. CASE DatabaseFails(s)
  BY <1>10 DEF DatabaseFails, StoreTypeOK
<1>11. CASE ReadClock(s)
  BY <1>11 DEF ReadClock, StoreTypeOK
<1>12. QED
  BY <1>1, <1>2, <1>3, <1>4, <1>5, <1>6, <1>7, <1>8, <1>9, <1>10, <1>11 DEF Serve, Work

(* step-ca's steps. *)
LEMMA StepCAType ==
    ASSUME TypeOK, NEW s \in Slots, StepCA(s), ObservedType'
    PROVE  TypeOK'
<1> USE WebhookAssumption DEF TypeOK, ObservedType, Presentable, Goto, storeVars, history
<1>1. CASE Arrive(s)
  BY <1>1 DEF Arrive, StoreTypeOK
<1>2. CASE AskAgain(s)
  BY <1>2 DEF AskAgain, StoreTypeOK
<1>3. CASE LoseReply(s)
  BY <1>3 DEF LoseReply, StoreTypeOK
<1>4. CASE Issue(s)
  <2>1. req[s].host \in Hosts /\ req[s].key \in Keys
    BY <1>4 DEF Issue, Request
  <2>2. QED BY <1>4, <2>1 DEF Issue, Release, StoreTypeOK
<1>5. CASE GiveUp(s)
  BY <1>5 DEF GiveUp, Release, StoreTypeOK
<1>6. QED BY <1>1, <1>2, <1>3, <1>4, <1>5 DEF StepCA

(* The administrator's commands, the clock and the process. *)
LEMMA EnvironmentType ==
    ASSUME TypeOK, Admin \/ Tick \/ Shutdown \/ Exit \/ Restart, ObservedType'
    PROVE  TypeOK'
<1> USE WebhookAssumption DEF TypeOK, ObservedType, Presentable, storeVars, reqVars, history
<1>1. ASSUME NEW p \in Phrases, NEW read \in 0..clock, NEW life \in Lifetimes,
             PhraseAdd(p, read, life)
      PROVE  TypeOK'
  <2>1. read + life \in Nat
    <3>1. MaxClock \in Nat /\ clock \in 0..MaxClock /\ life \in Nat
      OBVIOUS
    <3>2. read \in Nat
      BY <3>1
    <3>3. QED BY <3>1, <3>2
  <2>2. StoreTypeOK'
    BY <1>1, <2>1 DEF PhraseAdd, AddPhrase, StoreTypeOK, PhraseRow
  <2>3. QED BY <1>1, <2>2 DEF PhraseAdd
<1>2. ASSUME NEW p \in Phrases, PhraseRevoke(p)
      PROVE  TypeOK'
  <2>1. phrases[p] \in PhraseRow /\ clock \in Nat
    BY <1>2 DEF PhraseRevoke, RevokePhrase, StoreTypeOK
  <2>2. StoreTypeOK'
    BY <1>2, <2>1 DEF PhraseRevoke, RevokePhrase, StoreTypeOK, PhraseRow
  <2>3. QED BY <1>2, <2>2 DEF PhraseRevoke
<1>3. ASSUME NEW h \in Hosts, PinsClear(h)
      PROVE  TypeOK'
  BY <1>3 DEF PinsClear, ClearPin, StoreTypeOK
<1>4. ASSUME NEW h \in Hosts, UsesReset(h)
      PROVE  TypeOK'
  <2>1. uses' \in [Phrases \X Hosts -> Txns \cup {Null}]
    BY <1>4 DEF UsesReset, ResetUses, StoreTypeOK
  <2>2. QED BY <1>4, <2>1 DEF UsesReset, ResetUses, StoreTypeOK
<1>5. ASSUME NEW d \in Lists, PublishList(d)
      PROVE  TypeOK'
  BY <1>5 DEF PublishList, StoreTypeOK
<1>6. CASE Tick
  BY <1>6 DEF Tick, StoreTypeOK
<1>7. CASE Exit
  BY <1>7 DEF Exit, StoreTypeOK, AtWork
<1>8. CASE Shutdown \/ Restart
  BY <1>8 DEF Shutdown, Restart, StoreTypeOK
<1>9. QED BY <1>1, <1>2, <1>3, <1>4, <1>5, <1>6, <1>7, <1>8 DEF Admin

(* Nobody turns the clock back.                                            *)
LEMMA ClockRuns == TypeOK /\ Next => clock' \in 0..MaxClock /\ clock' >= clock
<1>1. CASE Tick
  BY <1>1, WebhookAssumption DEF Tick, TypeOK
<1>2. CASE ~Tick
  <2>1. Next => clock' = clock
    BY <1>2 DEF Next, Serve, Work, RejectRequest, LookupFails, LookupRefuses, LookupFinds,
                ReadClock, MatchPhrases,
       MatchAmong, EnrollAllows, EnrollRefuses, EnrollExhausted, CheckPin, DatabaseFails, StepCA,
       Arrive,
       AskAgain, LoseReply, Issue, GiveUp, Admin, PhraseAdd, PhraseRevoke, PinsClear, UsesReset,
       PublishList, Shutdown, Exit, Restart
  <2>2. QED BY <2>1, WebhookAssumption DEF TypeOK
<1>3. QED BY <1>1, <1>2

LEMMA NextType == TypeOK /\ [Next]_vars => TypeOK'
<1> SUFFICES ASSUME TypeOK, [Next]_vars PROVE TypeOK'
  OBVIOUS
<1>1. CASE Next
  <2>1. ObservedType'
    BY <1>1, ObserveType, EveryStepIsObserved, ClockRuns, WebhookAssumption DEF TypeOK, ObservedType
  <2>2. QED BY <1>1, <2>1, ServeType, StepCAType, EnvironmentType DEF Next
<1>2. CASE UNCHANGED vars
  BY <1>2 DEF vars, storeVars, reqVars, history, TypeOK, StoreTypeOK
<1>3. QED BY <1>1, <1>2

(* Every variable keeps the type TypeOK gives it, whatever the requests,   *)
(* crashes and commands.                                                   *)
THEOREM TypeCorrect == Spec => []TypeOK
<1>1. QED BY InitType, NextType, PTL DEF Spec

-----------------------------------------------------------------------------
(* The windows.                                                            *)

(* A step leaves every window counting the present ...                     *)
LEMMA WindowsCountThePresent ==
    ASSUME NEW s \in Slots, Observe
    PROVE  WindowCoversNow(s)'
<1> SUFFICES ASSUME AtWork(s)'
             PROVE  /\ Listed(req[s])' => "listed" \in window'[s]
                    /\ Entitled(req[s], arrived[s])' => "entitled" \in window'[s]
                    /\ "blocked" \notin window'[s] => Clear(req[s])'
  BY DEF WindowCoversNow
<1>1. Seen(req[s], arrived[s])' \subseteq window'[s]
  BY DEF Observe
<1>2. QED BY <1>1 DEF Seen, Marks

(* ... and forgets nothing while the webhook has the request.              *)
LEMMA WindowsForgetNothing ==
    ASSUME NEW s \in Slots, Observe, AtWork(s), pc'[s] # "idle"
    PROVE  window[s] \subseteq window'[s]
BY DEF Observe

(* The answer finds the window as the handler left it.                     *)
LEMMA WindowsCloseAtTheAnswer ==
    ASSUME NEW s \in Slots, Observe, pc'[s] = "answered"
    PROVE  window'[s] = window[s]
BY DEF Observe, AtWork

-----------------------------------------------------------------------------
(* The records: uses, pins, grants and certificates.                       *)

LEMMA EnrollKeepsRecords ==
    ASSUME TypeOK, RecordInv, AllowedAreEnrolled, NEW s \in Slots, EnrollAllows(s), TypeOK'
    PROVE  RecordInv' /\ AllowedAreEnrolled'
<1> DEFINE h == req[s].host
           t == req[s].txn
           k == req[s].key
<1>1. PICK p \in matched[s] :
        /\ Enroll(p, h, t, k)
        /\ grants' = grants \cup {[phrase |-> p, host |-> h, txn |-> t, key |-> k]}
  BY DEF EnrollAllows
<1>2. /\ p \in Phrases /\ req[s] \in Requests
      /\ h \in Hosts /\ t \in Txns /\ k \in Keys /\ t # Null
  BY WebhookAssumption, StoreAssumption DEF EnrollAllows, TypeOK, Presentable, Request
<1>3. /\ enrolled' = enrolled \cup {<<h, k>>} /\ certs' = certs /\ req' = req
      /\ answer' = [answer EXCEPT ![s] = "allow"]
  BY DEF EnrollAllows, Reply
<1> HIDE DEF h, t, k
<1>4. /\ uses' = [uses EXCEPT ![<<p, h>>] = t]
      /\ pins' = [pins EXCEPT ![h] = [key |-> k, phrase |-> p]]
      /\ uses[<<p, h>>] = Null \/ (t # NoTxn /\ uses[<<p, h>>] = t)
      /\ uses \in [Phrases \X Hosts -> Txns \cup {Null}]
      /\ pins \in [Hosts -> PinRow \cup {Null}]
  BY <1>1, <1>2 DEF Enroll, MayEnroll, TypeOK, StoreTypeOK
<1>5. UsesAreGrants'
  <2>1. ASSUME NEW q \in Phrases, NEW g \in Hosts, <<q, g>> # <<p, h>>
        PROVE  /\ uses'[<<q, g>>] = uses[<<q, g>>]
               /\ \A e \in grants' : e.phrase = q /\ e.host = g => e \in grants
    <3>1. uses'[<<q, g>>] = uses[<<q, g>>]
      BY <1>2, <1>4, <2>1
    <3>2. q # p \/ g # h
      BY <2>1
    <3>3. QED BY <1>1, <3>1, <3>2
  <2>2. /\ uses'[<<p, h>>] = t
        /\ \A e \in grants' : e.phrase = p /\ e.host = h => e.txn = t
        /\ \E e \in grants' : e.phrase = p /\ e.host = h
    <3>1. uses'[<<p, h>>] = t
      BY <1>2, <1>4
    <3>2. \A e \in grants : e.phrase = p /\ e.host = h => e.txn = t
      BY <1>2, <1>4, StoreAssumption DEF RecordInv, UsesAreGrants, TypeOK
    <3>3. [phrase |-> p, host |-> h, txn |-> t, key |-> k] \in grants'
      BY <1>1
    <3>4. \A e \in grants' : e.phrase = p /\ e.host = h => e.txn = t
      BY <1>1, <3>2
    <3>5. \E e \in grants' : e.phrase = p /\ e.host = h
      BY <3>3
    <3>6. QED BY <3>1, <3>4, <3>5
  <2>3. grants \subseteq grants'
    BY <1>1
  <2>4. SUFFICES ASSUME NEW q \in Phrases, NEW g \in Hosts
                 PROVE  /\ \A e \in grants' : e.phrase = q /\ e.host = g =>
                                uses'[<<q, g>>] = e.txn
                        /\ uses'[<<q, g>>] # Null =>
                             \E e \in grants' : e.phrase = q /\ e.host = g
    BY DEF UsesAreGrants
  <2>5. CASE <<q, g>> = <<p, h>>
    BY <2>2, <2>5
  <2>6. CASE <<q, g>> # <<p, h>>
    BY <2>1, <2>3, <2>6 DEF RecordInv, UsesAreGrants
  <2>7. QED BY <2>5, <2>6
<1>6. GrantsAreRequested'
  BY <1>1, <1>2 DEF RecordInv, GrantsAreRequested, t, k
<1>7. OneTransactionPerUse'
  <2>1. ASSUME NEW g \in grants, g.phrase = p, g.host = h
        PROVE  g.txn = t /\ t # NoTxn
    BY <1>2, <1>4, <2>1, StoreAssumption DEF RecordInv, UsesAreGrants, TypeOK
  <2>2. QED BY <1>1, <2>1 DEF RecordInv, OneTransactionPerUse
<1>8. PinIsEnrolled'
  <2>1. ASSUME NEW g \in Hosts, g # h, pins'[g] # Null
        PROVE  /\ <<g, pins'[g].key>> \in enrolled'
               /\ uses'[<<pins'[g].phrase, g>>] # Null =>
                    \E e \in grants' : /\ e.phrase = pins'[g].phrase
                                       /\ e.host = g
                                       /\ e.key = pins'[g].key
    <3>1. /\ pins'[g] = pins[g] /\ pins[g].phrase \in Phrases
          /\ uses'[<<pins[g].phrase, g>>] = uses[<<pins[g].phrase, g>>]
      BY <1>2, <1>4, <2>1 DEF PinRow
    <3>2. QED BY <1>1, <1>3, <2>1, <3>1 DEF RecordInv, PinIsEnrolled
  <2>2. /\ pins'[h].key = k /\ pins'[h].phrase = p
        /\ <<h, k>> \in enrolled'
        /\ \E e \in grants' : e.phrase = p /\ e.host = h /\ e.key = k
    <3>1. [phrase |-> p, host |-> h, txn |-> t, key |-> k] \in grants'
      BY <1>1
    <3>2. QED BY <1>2, <1>3, <1>4, <3>1
  <2>3. QED BY <2>1, <2>2 DEF PinIsEnrolled
<1>9. CertsAreEnrolled'
  BY <1>3 DEF RecordInv, CertsAreEnrolled
<1>10. AllowedAreEnrolled'
  BY <1>3 DEF AllowedAreEnrolled, TypeOK, h, k
<1>11. QED BY <1>5, <1>6, <1>7, <1>8, <1>9, <1>10 DEF RecordInv

LEMMA RecordsAtRest ==
    ASSUME RecordInv, UNCHANGED <<uses, pins, grants, enrolled, certs>>
    PROVE  RecordInv'
BY DEF RecordInv, UsesAreGrants, GrantsAreRequested, OneTransactionPerUse, PinIsEnrolled, CertsAreEnrolled

LEMMA ServeKeepsRecords ==
    ASSUME TypeOK, TypeOK', RecordInv, AllowedAreEnrolled, NEW s \in Slots, Serve(s)
    PROVE  RecordInv' /\ AllowedAreEnrolled'
<1>1. CASE EnrollAllows(s)
  BY <1>1, EnrollKeepsRecords
<1>2. CASE CheckPin(s)
  <2>1. RecordInv'
    BY <1>2, RecordsAtRest DEF CheckPin, storeVars, history
  <2>2. ASSUME answer'[s] = "allow"
        PROVE  <<req[s].host, req[s].key>> \in enrolled
    <3>1. IsPinned(req[s].host, req[s].key)
      BY <1>2, <2>2 DEF CheckPin, Reply, TypeOK
    <3>2. req[s].host \in Hosts
      BY <1>2, WebhookAssumption DEF CheckPin, TypeOK, Presentable, Request
    <3>3. QED BY <3>1, <3>2 DEF IsPinned, RecordInv, PinIsEnrolled
  <2>3. QED BY <1>2, <2>1, <2>2 DEF CheckPin, Reply, AllowedAreEnrolled, TypeOK, history
<1>3. CASE ~EnrollAllows(s) /\ ~CheckPin(s)
  <2>1. /\ UNCHANGED <<storeVars, history, req>>
        /\ \A t \in Slots : answer'[t] = "allow" => answer[t] = "allow"
    BY <1>3 DEF Serve, Work, RejectRequest, LookupFails, LookupRefuses, LookupFinds, ReadClock,
                MatchPhrases, MatchAmong,
                EnrollRefuses, EnrollExhausted, DatabaseFails, Reply, TypeOK
  <2>2. RecordInv'
    BY <2>1, RecordsAtRest DEF storeVars, history
  <2>3. QED BY <2>1, <2>2 DEF AllowedAreEnrolled, history
<1>4. QED BY <1>1, <1>2, <1>3

LEMMA StepCAKeepsRecords ==
    ASSUME TypeOK, RecordInv, AllowedAreEnrolled, NEW s \in Slots, StepCA(s)
    PROVE  RecordInv' /\ AllowedAreEnrolled'
<1>1. /\ UNCHANGED <<storeVars, grants, enrolled>>
      /\ \A t \in Slots : answer'[t] = "allow" => answer[t] = "allow" /\ req'[t] = req[t]
  BY DEF StepCA, Arrive, AskAgain, LoseReply, Issue, GiveUp, Release, TypeOK, history
<1>2. AllowedAreEnrolled'
  BY <1>1 DEF AllowedAreEnrolled
<1>3. CertsAreEnrolled'
  <2>1. CASE Issue(s)
    BY <1>1, <2>1 DEF Issue, RecordInv, CertsAreEnrolled, AllowedAreEnrolled
  <2>2. CASE ~Issue(s)
    BY <1>1, <2>2 DEF StepCA, Arrive, AskAgain, LoseReply, GiveUp, history, RecordInv,
                      CertsAreEnrolled
  <2>3. QED BY <2>1, <2>2
<1>4. QED
  BY <1>1, <1>2, <1>3 DEF storeVars, RecordInv, UsesAreGrants, GrantsAreRequested, OneTransactionPerUse,
                          PinIsEnrolled

LEMMA EnvironmentKeepsRecords ==
    ASSUME TypeOK, RecordInv, AllowedAreEnrolled, Admin \/ Tick \/ Shutdown \/ Exit \/ Restart
    PROVE  RecordInv' /\ AllowedAreEnrolled'
<1> USE DEF storeVars, reqVars, history
<1>1. AllowedAreEnrolled'
  <2>1. /\ UNCHANGED <<req, enrolled>>
        /\ \A t \in Slots : answer'[t] = "allow" => answer[t] = "allow"
    BY DEF Admin, PhraseAdd, PhraseRevoke, PinsClear, UsesReset, PublishList, Tick, Shutdown,
           Exit, Restart
  <2>2. QED BY <2>1 DEF AllowedAreEnrolled
<1>2. ASSUME NEW h \in Hosts, PinsClear(h)
      PROVE  RecordInv'
  <2>1. /\ \A g \in Hosts : pins'[g] # Null => pins'[g] = pins[g]
        /\ UNCHANGED <<uses, grants, enrolled, certs>>
    BY <1>2 DEF PinsClear, ClearPin, TypeOK, StoreTypeOK
  <2>2. PinIsEnrolled'
    BY <2>1 DEF RecordInv, PinIsEnrolled
  <2>3. QED
    BY <2>1, <2>2 DEF RecordInv, UsesAreGrants, GrantsAreRequested, OneTransactionPerUse, CertsAreEnrolled
<1>3. ASSUME NEW h \in Hosts, UsesReset(h)
      PROVE  RecordInv'
  <2>1. /\ grants' = {g \in grants : g.host # h}
        /\ UNCHANGED <<pins, enrolled, certs>>
    BY <1>3 DEF UsesReset, ResetUses
  <2>2. ASSUME NEW p \in Phrases, NEW g \in Hosts
        PROVE  uses'[<<p, g>>] = IF g = h THEN Null ELSE uses[<<p, g>>]
    <3>1. uses' = [u \in Phrases \X Hosts |-> IF u[2] = h THEN Null ELSE uses[u]]
      BY <1>3 DEF UsesReset, ResetUses
    <3>2. <<p, g>> \in Phrases \X Hosts /\ <<p, g>>[2] = g
      OBVIOUS
    <3>3. QED BY <3>1, <3>2
  <2>3. UsesAreGrants'
    <3>1. SUFFICES ASSUME NEW p \in Phrases, NEW g \in Hosts
                   PROVE  /\ \A e \in grants' : e.phrase = p /\ e.host = g =>
                                  uses'[<<p, g>>] = e.txn
                          /\ uses'[<<p, g>>] # Null =>
                               \E e \in grants' : e.phrase = p /\ e.host = g
      BY DEF UsesAreGrants
    <3>2. QED BY <2>1, <2>2 DEF RecordInv, UsesAreGrants
  <2>4. PinIsEnrolled'
    <3>1. SUFFICES ASSUME NEW g \in Hosts, pins[g] # Null
                   PROVE  /\ <<g, pins[g].key>> \in enrolled
                          /\ uses'[<<pins[g].phrase, g>>] # Null =>
                               \E e \in grants' : /\ e.phrase = pins[g].phrase
                                                  /\ e.host = g
                                                  /\ e.key = pins[g].key
      BY <2>1 DEF PinIsEnrolled
    <3>2. pins[g].phrase \in Phrases
      BY <3>1 DEF TypeOK, StoreTypeOK, PinRow
    <3>3. QED BY <2>1, <2>2, <3>1, <3>2 DEF RecordInv, PinIsEnrolled
  <2>5. QED
    BY <2>1, <2>3, <2>4 DEF RecordInv, GrantsAreRequested, OneTransactionPerUse, CertsAreEnrolled
<1>4. ASSUME UNCHANGED <<uses, pins, grants, enrolled, certs>>
      PROVE  RecordInv'
  BY <1>4, RecordsAtRest
<1>5. QED
  BY <1>1, <1>2, <1>3, <1>4 DEF Admin, PhraseAdd, AddPhrase, PhraseRevoke, RevokePhrase,
                                PublishList,
                                Tick, Shutdown, Exit, Restart

-----------------------------------------------------------------------------
(* The handlers: what each one knows between its steps.                    *)

(* No request is at work before it came. *)
LEMMA ArrivalsArePast ==
    ASSUME TypeOK, Next, Observe, NEW t \in Slots, AtWork(t) => arrived[t] <= clock
    PROVE  AtWork(t)' => arrived'[t] <= clock'
<1>1. /\ clock \in Nat /\ clock' \in Nat /\ clock' >= clock
      /\ arrived[t] \in Nat
  BY ClockRuns, WebhookAssumption DEF TypeOK
<1>2. AtWork(t)' => arrived'[t] = IF AtWork(t) THEN arrived[t] ELSE clock'
  BY DEF Observe
<1>3. QED BY <1>1, <1>2

(* What other actors do never takes a handler's knowledge away.            *)
LEMMA Bystander ==
    ASSUME TypeOK, Next, NEW t \in Slots, HandlerInv(t), Observe,
           pc'[t] = pc[t], req'[t] = req[t], serial'[t] = serial[t], now'[t] = now[t],
           matched'[t] = matched[t], answer'[t] = answer[t]
    PROVE  HandlerInv(t)'
<1>1. CASE pc[t] = "idle"
  BY <1>1, ArrivalsArePast DEF HandlerInv, AtWork, TypeOK
<1>2. CASE pc[t] # "idle"
  <2>1. window[t] \subseteq window'[t]
    BY <1>2, WindowsForgetNothing, WindowsCloseAtTheAnswer DEF TypeOK, AtWork
  <2>2. AtWork(t)' => arrived'[t] <= clock'
    BY ArrivalsArePast DEF HandlerInv
  <2>3. pc[t] = "match" => arrived'[t] <= now[t] /\ now[t] <= clock'
    <3>1. pc[t] = "match" => arrived'[t] = arrived[t]
      BY DEF Observe, AtWork
    <3>2. now[t] \in Nat /\ clock \in Nat /\ clock' \in Nat /\ clock' >= clock
      BY ClockRuns, WebhookAssumption DEF TypeOK
    <3>3. QED BY <3>1, <3>2 DEF HandlerInv
  <2>4. QED BY <1>2, <2>1, <2>2, <2>3 DEF HandlerInv, Presentable
<1>3. QED BY <1>1, <1>2

(* A refusal by Enroll has a cause in the enrollments allowed before.      *)
LEMMA RefusedIsSpent ==
    ASSUME TypeOK, RecordInv, NEW s \in Slots, NEW p \in Phrases,
           req[s].prov = "enroll", req[s].chal # Null, req[s].chal[1] = p,
           req[s].host \in Hosts, ~MayEnroll(p, req[s].host, req[s].txn)
    PROVE  ~Unspent(req[s])
<1>1. /\ uses[<<p, req[s].host>>] # Null
      /\ req[s].txn = NoTxn \/ uses[<<p, req[s].host>>] # req[s].txn
  BY DEF MayEnroll
<1>2. PICK g \in grants : g.phrase = p /\ g.host = req[s].host
  BY <1>1 DEF RecordInv, UsesAreGrants
<1>3. g.txn = uses[<<p, req[s].host>>]
  BY <1>2 DEF RecordInv, UsesAreGrants
<1>4. QED BY <1>1, <1>2, <1>3 DEF Unspent

LEMMA ServeKeepsHandler ==
    ASSUME TypeOK, TypeOK', RecordInv, NEW s \in Slots, Serve(s), Next, Observe,
           WindowCoversNow(s), HandlerInv(s)
    PROVE  HandlerInv(s)'
<1> USE DEF Goto, Reply
<1>0. /\ AtWork(s) /\ req'[s] = req[s]
      /\ pc'[s] = "answered" => window'[s] = window[s]
      /\ pc'[s] # "idle" => window[s] \subseteq window'[s]
      /\ AtWork(s)' => arrived'[s] <= clock'
  <2>1. AtWork(s) /\ req' = req
    BY DEF Serve, Work, RejectRequest, LookupFails, LookupRefuses, LookupFinds, ReadClock,
           MatchPhrases, MatchAmong, EnrollAllows,
           EnrollRefuses, EnrollExhausted, CheckPin, DatabaseFails, AtWork
  <2>2. AtWork(s)' => arrived'[s] <= clock'
    BY ArrivalsArePast DEF HandlerInv
  <2>3. QED BY <2>1, <2>2, WindowsForgetNothing, WindowsCloseAtTheAnswer
<1>1. CASE RejectRequest(s)
  BY <1>0, <1>1 DEF RejectRequest, HandlerInv, TypeOK, Presentable
<1>2. CASE LookupFails(s)
  BY <1>0, <1>2 DEF LookupFails, HandlerInv, TypeOK
<1>3. CASE LookupRefuses(s)
  <2>1. ~Listed(req[s])
    BY <1>3 DEF LookupRefuses, Listed, SerialOf
  <2>2. QED BY <1>0, <1>3, <2>1 DEF LookupRefuses, HandlerInv, WindowCoversNow, Clear, TypeOK
<1>4. CASE LookupFinds(s)
  <2>1. req[s].host # Null /\ SerialOf(req[s].host) = devices[req[s].host]
    BY <1>4 DEF LookupFinds, SerialOf, Presentable
  <2>2. answer'[s] = "none" /\ serial'[s] = devices[req[s].host]
    BY <1>4 DEF LookupFinds, TypeOK
  <2>3. CASE req[s].prov = "renew" /\ Goto(s, "pin")
    <3>1. Listed(req[s])
      BY <1>4, <2>1, <2>3 DEF LookupFinds, Listed
    <3>2. QED BY <1>0, <2>2, <2>3, <3>1 DEF HandlerInv, WindowCoversNow, TypeOK
  <2>4. CASE req[s].prov = "enroll" /\ req[s].chal # Null /\ Goto(s, "clock")
    <3>1. Listed(req[s]) <=> req[s].chal[2] = serial'[s]
      BY <1>4, <2>1, <2>2, <2>4 DEF LookupFinds, Listed
    <3>2. WindowCoversNow(s)'
      BY WindowsCountThePresent
    <3>3. pc'[s] = "clock"
      BY <2>4 DEF TypeOK
    <3>4. UNCHANGED <<devices, req>>
      BY <1>4 DEF LookupFinds
    <3>5. Listed(req[s])' <=> Listed(req[s])
      BY <3>4 DEF Listed, SerialOf
    <3>6. QED
      BY <1>0, <2>2, <2>4, <3>1, <3>2, <3>3, <3>5 DEF HandlerInv, WindowCoversNow, Clear, AtWork
  <2>5. QED BY <1>4, <2>3, <2>4 DEF LookupFinds
<1>5. CASE MatchPhrases(s)
  <2> DEFINE hits == {p \in ActivePhrases(now[s]) : req[s].chal = <<p, serial[s]>>}
  <2>1. /\ pc[s] = "match" /\ req[s].prov = "enroll"
        /\ Presentable(req[s]) /\ req[s] \in Request
    BY <1>5, WebhookAssumption DEF MatchPhrases, MatchAmong, HandlerInv, TypeOK, Presentable
  <2>2. CASE hits # {} /\ Goto(s, "enroll") /\ matched' = [matched EXCEPT ![s] = hits]
                /\ now' = [now EXCEPT ![s] = 0] /\ UNCHANGED <<req, tries, serial, answer>>
    <3>1. PICK p \in ActivePhrases(now[s]) : req[s].chal = <<p, serial[s]>>
      BY <2>2
    <3>2. /\ req[s].chal # Null /\ req[s].chal[1] = p /\ req[s].chal[2] = serial[s]
      BY <2>1, <3>1 DEF HandlerInv
    <3>3. "listed" \in window[s]
      BY <2>1, <3>2 DEF HandlerInv
    <3>4. "entitled" \in window[s]
      <4>1. /\ p \in Phrases /\ phrases[p] # Null /\ phrases[p].revoked = Null
            /\ phrases[p].expires > now[s] /\ phrases[p].expires \in Nat
        BY <3>1 DEF ActivePhrases, IsActive, TypeOK, StoreTypeOK, PhraseRow
      <4>2. arrived[s] <= now[s] /\ arrived[s] \in Nat /\ now[s] \in Nat
        BY <2>1, WebhookAssumption DEF HandlerInv, TypeOK
      <4>3. p \in ActivePhrases(arrived[s])
        BY <4>1, <4>2 DEF ActivePhrases, IsActive
      <4>4. QED BY <1>0, <2>1, <3>2, <4>3 DEF WindowCoversNow, Entitled
    <3>5. hits \subseteq {req[s].chal[1]}
      BY <3>2
    <3>6. QED
      BY <1>0, <2>1, <2>2, <3>3, <3>4, <3>5 DEF HandlerInv, TypeOK
  <2>3. CASE hits = {} /\ Reply(s, "deny")
    <3>1. /\ req[s].chal \in Phrases \X Serials
          /\ req[s].chal = <<req[s].chal[1], req[s].chal[2]>>
      BY <2>1 DEF HandlerInv, Request
    <3>2. ASSUME "blocked" \notin window[s]
          PROVE  FALSE
      <4>1. req[s].chal[1] \in ActivePhrases(clock) /\ req[s].chal[2] = serial[s]
        BY <1>0, <2>1, <3>2 DEF WindowCoversNow, Clear, Entitled, HandlerInv
      <4>2. req[s].chal[1] \in ActivePhrases(now[s])
        <5>1. now[s] <= clock /\ now[s] \in Nat /\ clock \in Nat
          BY <2>1 DEF HandlerInv, TypeOK
        <5>2. QED BY <4>1, <5>1 DEF ActivePhrases, IsActive, TypeOK, StoreTypeOK, PhraseRow
      <4>3. req[s].chal[1] \in hits
        BY <3>1, <4>1, <4>2
      <4>4. QED BY <2>3, <4>3
    <3>3. QED BY <1>0, <2>3, <3>2 DEF HandlerInv, TypeOK
  <2>4. QED BY <1>5, <2>2, <2>3 DEF MatchPhrases, MatchAmong
<1>6. CASE EnrollAllows(s)
  BY <1>0, <1>6 DEF EnrollAllows, HandlerInv, TypeOK
<1>7. CASE EnrollRefuses(s)
  <2>1. PICK p \in matched[s] : /\ ~MayEnroll(p, req[s].host, req[s].txn)
                                /\ matched' = [matched EXCEPT ![s] = @ \ {p}]
    BY <1>7 DEF EnrollRefuses
  <2>2. /\ pc[s] = "enroll" /\ req[s].prov = "enroll" /\ p \in Phrases /\ req[s].chal[1] = p
        /\ req[s].host \in Hosts
    BY <1>7, <2>1, WebhookAssumption DEF EnrollRefuses, HandlerInv, TypeOK, Presentable, Request
  <2>3. "blocked" \in window[s]
    BY <1>0, <2>1, <2>2, RefusedIsSpent DEF WindowCoversNow, Clear, HandlerInv
  <2>4. QED BY <1>0, <1>7, <2>1, <2>2, <2>3 DEF EnrollRefuses, HandlerInv, TypeOK
<1>8. CASE EnrollExhausted(s)
  BY <1>0, <1>8 DEF EnrollExhausted, HandlerInv, TypeOK
<1>9. CASE CheckPin(s)
  <2>1. pc[s] = "pin" /\ req[s].prov = "renew" /\ "listed" \in window[s] /\ req[s].host # Null
    BY <1>9 DEF CheckPin, HandlerInv, TypeOK, Presentable
  <2>2. /\ IsPinned(req[s].host, req[s].key) => Entitled(req[s], arrived[s])
        /\ Entitled(req[s], clock) => IsPinned(req[s].host, req[s].key)
    BY <2>1 DEF Entitled
  <2>3. IF IsPinned(req[s].host, req[s].key)
        THEN "entitled" \in window[s]
        ELSE "blocked" \in window[s]
    BY <1>0, <2>2 DEF WindowCoversNow, Clear
  <2>4. QED BY <1>0, <1>9, <2>1, <2>3 DEF CheckPin, HandlerInv, TypeOK
<1>10. CASE DatabaseFails(s)
  BY <1>0, <1>10 DEF DatabaseFails, HandlerInv, TypeOK
<1>11. CASE ReadClock(s)
  <2>1. /\ req[s].prov = "enroll" /\ req[s].chal # Null
        /\ pc'[s] = "match" /\ now'[s] = clock /\ answer'[s] = "none" /\ clock \in Nat
        /\ UNCHANGED <<clock, phrases, req, serial>>
    BY <1>11 DEF ReadClock, HandlerInv, TypeOK, storeVars
  <2>2. arrived'[s] = arrived[s] /\ arrived[s] <= clock
    BY <1>0, <2>1 DEF Observe, AtWork, HandlerInv
  <2>3. QED BY <1>0, <1>11, <2>1, <2>2 DEF ReadClock, HandlerInv
<1>12. QED
  BY <1>1, <1>2, <1>3, <1>4, <1>5, <1>6, <1>7, <1>8, <1>9, <1>10, <1>11 DEF Serve, Work

LEMMA StepCAKeepsHandler ==
    ASSUME TypeOK, NEW s \in Slots, StepCA(s), Next, Observe, HandlerInv(s)
    PROVE  HandlerInv(s)'
<1> USE DEF Goto
<1>0. AtWork(s)' => arrived'[s] <= clock'
  BY ArrivalsArePast DEF HandlerInv
<1>1. CASE Arrive(s)
  BY <1>0, <1>1 DEF Arrive, HandlerInv, TypeOK
<1>2. CASE AskAgain(s)
  BY <1>0, <1>2 DEF AskAgain, HandlerInv, TypeOK
<1>3. CASE LoseReply(s)
  BY <1>0, <1>3 DEF LoseReply, HandlerInv, TypeOK
<1>4. CASE Issue(s)
  BY <1>0, <1>4 DEF Issue, Release, HandlerInv, TypeOK
<1>5. CASE GiveUp(s)
  BY <1>0, <1>5 DEF GiveUp, Release, HandlerInv, TypeOK
<1>6. QED BY <1>1, <1>2, <1>3, <1>4, <1>5 DEF StepCA

LEMMA NextKeepsHandlers ==
    ASSUME IInv, TypeOK', Next, NEW t \in Slots
    PROVE  HandlerInv(t)'
<1> USE DEF IInv
<1>0. Observe
  BY EveryStepIsObserved
<1>1. ASSUME NEW s \in Slots, Serve(s)
      PROVE  HandlerInv(t)'
  <2>1. CASE t = s
    BY <1>0, <1>1, <2>1, ServeKeepsHandler
  <2>2. CASE t # s
    <3>1. /\ pc'[t] = pc[t] /\ req'[t] = req[t] /\ serial'[t] = serial[t] /\ now'[t] = now[t]
          /\ matched'[t] = matched[t] /\ answer'[t] = answer[t]
      BY <1>1, <2>2 DEF Serve, Work, RejectRequest, LookupFails, LookupRefuses, LookupFinds,
                        ReadClock, MatchPhrases, MatchAmong,
           EnrollAllows, EnrollRefuses, EnrollExhausted, CheckPin, DatabaseFails, Reply, Goto,
           TypeOK
    <3>2. QED BY <1>0, <3>1, Bystander
  <2>3. QED BY <2>1, <2>2
<1>2. ASSUME NEW s \in Slots, StepCA(s)
      PROVE  HandlerInv(t)'
  <2>1. CASE t = s
    BY <1>0, <1>2, <2>1, StepCAKeepsHandler
  <2>2. CASE t # s
    <3>1. /\ pc'[t] = pc[t] /\ req'[t] = req[t] /\ serial'[t] = serial[t] /\ now'[t] = now[t]
          /\ matched'[t] = matched[t] /\ answer'[t] = answer[t]
      BY <1>2, <2>2 DEF StepCA, Arrive, AskAgain, LoseReply, Issue, GiveUp, Release, Goto, TypeOK
    <3>2. QED BY <1>0, <3>1, Bystander
  <2>3. QED BY <2>1, <2>2
<1>3. CASE Exit
  <2>1. CASE AtWork(t)
    <3>1. pc'[t] = "answered" /\ answer'[t] = "error"
      BY <1>3, <2>1 DEF Exit
    <3>2. QED BY <3>1 DEF HandlerInv, AtWork
  <2>2. CASE ~AtWork(t)
    <3>1. pc'[t] = pc[t] /\ answer'[t] = answer[t] /\ req'[t] = req[t] /\ pc[t] \in {"idle",
    "answered"}
      BY <1>3, <2>2 DEF Exit, AtWork, TypeOK
    <3>2. pc[t] = "answered" => window'[t] = window[t]
      BY <1>0, <3>1, WindowsCloseAtTheAnswer
    <3>3. ~AtWork(t)'
      BY <3>1 DEF AtWork
    <3>4. QED BY <3>1, <3>2, <3>3 DEF HandlerInv, TypeOK, Presentable
  <2>3. QED BY <2>1, <2>2
<1>4. CASE Admin \/ Tick \/ Shutdown \/ Restart
  <2>1. UNCHANGED reqVars
    BY <1>4 DEF Admin, PhraseAdd, PhraseRevoke, PinsClear, UsesReset, PublishList, Tick,
                Shutdown, Restart
  <2>2. QED BY <1>0, <2>1, Bystander DEF reqVars
<1>5. QED BY <1>1, <1>2, <1>3, <1>4 DEF Next

-----------------------------------------------------------------------------
(* The inductive invariant and the theorems.                               *)

LEMMA InitInv == Init => IInv
<1> SUFFICES ASSUME Init PROVE IInv
  OBVIOUS
<1>1. TypeOK
  BY InitType
<1>2. RecordInv /\ AllowedAreEnrolled
  BY DEF Init, StoreInit, RecordInv, UsesAreGrants, GrantsAreRequested, OneTransactionPerUse,
         PinIsEnrolled,
         CertsAreEnrolled, AllowedAreEnrolled
<1>3. ASSUME NEW s \in Slots
      PROVE  WindowCoversNow(s) /\ HandlerInv(s)
  BY DEF Init, WindowCoversNow, HandlerInv, AtWork
<1>4. QED BY <1>1, <1>2, <1>3 DEF IInv

LEMMA NextInv == IInv /\ [Next]_vars => IInv'
<1> SUFFICES ASSUME IInv, [Next]_vars PROVE IInv'
  OBVIOUS
<1>1. TypeOK'
  BY NextType DEF IInv
<1>2. CASE Next
  <2>1. RecordInv' /\ AllowedAreEnrolled'
    BY <1>1, <1>2, ServeKeepsRecords, StepCAKeepsRecords, EnvironmentKeepsRecords DEF IInv, Next
  <2>2. ASSUME NEW s \in Slots
        PROVE  WindowCoversNow(s)'
    BY <1>2, WindowsCountThePresent, EveryStepIsObserved
  <2>3. ASSUME NEW s \in Slots
        PROVE  HandlerInv(s)'
    BY <1>1, <1>2, NextKeepsHandlers
  <2>4. QED BY <1>1, <2>1, <2>2, <2>3 DEF IInv
<1>3. CASE UNCHANGED vars
  <2> USE <1>3 DEF vars, storeVars, reqVars, history
  <2>1. RecordInv' /\ AllowedAreEnrolled'
    BY RecordsAtRest DEF IInv, AllowedAreEnrolled
  <2>2. ASSUME NEW s \in Slots
        PROVE  WindowCoversNow(s)' /\ HandlerInv(s)'
    <3>1. HandlerInv(s)'
      BY DEF IInv, HandlerInv, Presentable, AtWork
    <3>2. WindowCoversNow(s)'
      BY DEF IInv, WindowCoversNow, AtWork, Clear, Listed, Entitled, Unspent, SerialOf, ActivePhrases,
             IsPinned
    <3>3. QED BY <3>1, <3>2
  <2>3. QED BY <1>1, <2>1, <2>2 DEF IInv
<1>4. QED BY <1>2, <1>3

THEOREM Invariance == Spec => []IInv
<1>1. QED BY InitInv, NextInv, PTL DEF Spec

(* Single use, for any number of hosts, keys, phrases and requests under   *)
(* way, whatever keys and transaction IDs they carry: between two resets a *)
(* phrase lets one host through for one transaction only.                  *)
THEOREM SingleUse == Spec => []OneTransactionPerUse
<1>1. IInv => OneTransactionPerUse
  BY DEF IInv, RecordInv
<1>2. QED BY <1>1, Invariance, PTL

(* For requests whose transaction ID is derived from the key, as           *)
(* scepclient's is and the webhook does not check, that is one key.        *)
COROLLARY SingleKey == TxnDerivesFromKey => (Spec => []OneKeyPerUse)
<1> SUFFICES ASSUME TxnDerivesFromKey PROVE Spec => []OneKeyPerUse
  OBVIOUS
<1>1. IInv => OneKeyPerUse
  <2> SUFFICES ASSUME IInv, NEW g1 \in grants, NEW g2 \in grants,
                      g1.phrase = g2.phrase, g1.host = g2.host, g1 # g2
               PROVE  g1.key = g2.key
    BY DEF OneKeyPerUse
  <2>1. g1.txn = g2.txn /\ g1.txn # NoTxn
    BY DEF IInv, RecordInv, OneTransactionPerUse
  <2>2. PICK q \in Requests : g1.txn = q.txn /\ g1.key = q.key
    BY DEF IInv, RecordInv, GrantsAreRequested
  <2>3. PICK r \in Requests : g2.txn = r.txn /\ g2.key = r.key
    BY DEF IInv, RecordInv, GrantsAreRequested
  <2>4. QED BY <2>1, <2>2, <2>3 DEF TxnDerivesFromKey
<1>2. QED BY <1>1, Invariance, PTL

(* Only an allowed request uses a phrase up, and every allowed one does.   *)
THEOREM UsesAreExact == Spec => []UsesAreGrants
<1>1. IInv => UsesAreGrants
  BY DEF IInv, RecordInv
<1>2. QED BY <1>1, Invariance, PTL

(* Pins come from allowed enrollments of the host itself, and agree with   *)
(* the use they came from.                                                 *)
THEOREM PinsAreEarned == Spec => []PinIsEnrolled
<1>1. IInv => PinIsEnrolled
  BY DEF IInv, RecordInv
<1>2. QED BY <1>1, Invariance, PTL

(* No certificate for a key that was not enrolled with a phrase first.     *)
THEOREM CertificatesAreEarned == Spec => []CertsAreEnrolled
<1>1. IInv => CertsAreEnrolled
  BY DEF IInv, RecordInv
<1>2. QED BY <1>1, Invariance, PTL

(* An allowed request was listed, and its phrase active or its key pinned, *)
(* at some time while the webhook had it.                                  *)
THEOREM AllowedIsJustified == Spec => []AllowedWithinWindow
<1>1. IInv => AllowedWithinWindow
  BY DEF IInv, HandlerInv, AllowedWithinWindow
<1>2. QED BY <1>1, Invariance, PTL

(* A refused request had something against it at some time while the       *)
(* webhook had it.                                                         *)
THEOREM DenialIsJustified == Spec => []DenyHasCause
<1>1. IInv => DenyHasCause
  BY DEF IInv, HandlerInv, DenyHasCause
<1>2. QED BY <1>1, Invariance, PTL
=============================================================================
