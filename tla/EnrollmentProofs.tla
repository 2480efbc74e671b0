-------------------------- MODULE EnrollmentProofs --------------------------
(***************************************************************************)
(* Webhook implements Enrollment, for every set of hosts, keys, phrases,   *)
(* requests and slots.                                                     *)
(***************************************************************************)
EXTENDS WebhookProofs

(* The pins as Enrollment sees them. *)
Pinned == [h \in Hosts |-> IF pins[h] = Null THEN Null ELSE pins[h].key]

LEMMA StartsEmpty == Init => Abstract!Init
BY DEF Init, StoreInit, Abstract!Init

(* An allowed enrollment is a purchase, and what the phrase had bought the *)
(* host before was under the same transaction: single use comes in here.   *)
LEMMA AllowedIsBought ==
    ASSUME IInv, NEW s \in Slots, EnrollAllows(s)
    PROVE  Abstract!Next
<1>1. PICK h \in Hosts, t \in Txns, k \in Keys :
        h = req[s].host /\ t = req[s].txn /\ k = req[s].key
  BY WebhookAssumption DEF EnrollAllows, IInv, TypeOK, Presentable, Request
<1>2. PICK p \in Phrases :
        /\ Enroll(p, h, t, k)
        /\ grants' = grants \cup {[phrase |-> p, host |-> h, txn |-> t, key |-> k]}
  BY <1>1 DEF EnrollAllows, IInv, TypeOK
<1>3. ASSUME NEW g \in grants, g.phrase = p, g.host = h
      PROVE  g.txn = t /\ t # NoTxn
  <2>1. uses[<<p, h>>] = g.txn /\ g.txn # Null
    BY <1>3, StoreAssumption DEF IInv, RecordInv, UsesAreGrants, TypeOK
  <2>2. QED BY <1>2, <2>1 DEF Enroll, MayEnroll
<1>4. Pinned' = [Pinned EXCEPT ![h] = k]
  <2>1. pins' = [pins EXCEPT ![h] = [key |-> k, phrase |-> p]]
    BY <1>2 DEF Enroll
  <2>2. [key |-> k, phrase |-> p] # Null
    BY <1>1, StoreAssumption DEF PinRow
  <2>3. QED BY <1>1, <2>1, <2>2 DEF Pinned, IInv, TypeOK, StoreTypeOK
<1>5. enrolled' = enrolled \cup {<<h, k>>} /\ UNCHANGED certs
  BY <1>1 DEF EnrollAllows
<1>6. Abstract!Buy(p, h, t, k)
  BY <1>2, <1>3, <1>4, <1>5 DEF Abstract!Buy, Pinned
<1>7. QED BY <1>6 DEF Abstract!Next

(* What else a handler does is not seen. *)
LEMMA ServeIsBoughtOrUnseen ==
    ASSUME IInv, NEW s \in Slots, Serve(s)
    PROVE  [Abstract!Next]_Abstract!vars
<1>1. CASE EnrollAllows(s)
  BY <1>1, AllowedIsBought
<1>2. CASE ~EnrollAllows(s)
  <2>1. UNCHANGED <<storeVars, history>>
    BY <1>2 DEF Serve, Work, RejectRequest, LookupFails, LookupRefuses, LookupFinds, ReadClock,
                MatchPhrases, MatchAmong, EnrollRefuses, EnrollExhausted, CheckPin, DatabaseFails
  <2>2. QED BY <2>1 DEF storeVars, history, Abstract!vars
<1>3. QED BY <1>1, <1>2

(* A certificate is for a key that was bought. *)
LEMMA IssuedIsEnrolled ==
    ASSUME IInv, NEW s \in Slots, StepCA(s)
    PROVE  [Abstract!Next]_Abstract!vars
<1>1. CASE Issue(s)
  <2>1. PICK h \in Hosts, k \in Keys : h = req[s].host /\ k = req[s].key
    BY <1>1, WebhookAssumption DEF Issue, IInv, TypeOK, Presentable, Request
  <2>2. <<h, k>> \in enrolled
    BY <1>1, <2>1 DEF Issue, IInv, AllowedAreEnrolled
  <2>3. Abstract!Issue(h, k)
    BY <1>1, <2>1, <2>2 DEF Issue, storeVars, Abstract!Issue
  <2>4. QED BY <2>3 DEF Abstract!Next
<1>2. CASE Arrive(s) \/ AskAgain(s) \/ LoseReply(s) \/ GiveUp(s)
  BY <1>2 DEF Arrive, AskAgain, LoseReply, GiveUp, storeVars, history, Abstract!vars
<1>3. QED BY <1>1, <1>2 DEF StepCA

(* The administrator. *)
LEMMA AdminIsResetOrUnpin ==
    ASSUME IInv, Admin
    PROVE  [Abstract!Next]_Abstract!vars
<1>1. ASSUME NEW h \in Hosts, PinsClear(h)
      PROVE  Abstract!Next
  <2>1. Pinned' = [Pinned EXCEPT ![h] = Null]
    BY <1>1 DEF PinsClear, ClearPin, Pinned, IInv, TypeOK, StoreTypeOK
  <2>2. Abstract!Unpin(h)
    BY <1>1, <2>1 DEF PinsClear, Pinned, history, Abstract!Unpin
  <2>3. QED BY <2>2 DEF Abstract!Next
<1>2. ASSUME NEW h \in Hosts, UsesReset(h)
      PROVE  Abstract!Next
  <2>1. Abstract!Reset(h)
    BY <1>2 DEF UsesReset, ResetUses, Abstract!Reset
  <2>2. QED BY <2>1 DEF Abstract!Next
<1>3. CASE \/ \E p \in Phrases, read \in 0..clock, life \in Lifetimes : PhraseAdd(p, read, life)
           \/ \E p \in Phrases : PhraseRevoke(p)
           \/ \E d \in Lists : PublishList(d)
  BY <1>3 DEF PhraseAdd, AddPhrase, PhraseRevoke, RevokePhrase, PublishList, storeVars, history,
              Abstract!vars
<1>4. QED BY <1>1, <1>2, <1>3 DEF Admin

(* Every step of the webhook, step-ca, the administrator and the process   *)
(* is a step of Enrollment or is not seen there.                           *)
THEOREM Refinement == Spec => ImplementsEnrollment
<1>1. Init => Abstract!Init
  BY StartsEmpty
<1>2. IInv /\ [Next]_vars => [Abstract!Next]_Abstract!vars
  <2> SUFFICES ASSUME IInv, [Next]_vars
               PROVE  [Abstract!Next]_Abstract!vars
    OBVIOUS
  <2>1. CASE \E s \in Slots : Serve(s) \/ StepCA(s)
    BY <2>1, ServeIsBoughtOrUnseen, IssuedIsEnrolled
  <2>2. CASE Admin
    BY <2>2, AdminIsResetOrUnpin
  <2>3. CASE Tick \/ Shutdown \/ Exit \/ Restart \/ UNCHANGED vars
    BY <2>3 DEF Tick, Shutdown, Exit, Restart, vars, storeVars, history, Abstract!vars
  <2>4. QED BY <2>1, <2>2, <2>3 DEF Next
<1>3. Spec => []IInv
  BY Invariance
<1>4. QED BY <1>1, <1>2, <1>3, PTL DEF Spec, ImplementsEnrollment, Abstract!Spec
=============================================================================
