--------------------------- MODULE StoreTxProofs ---------------------------
(***************************************************************************)
(* The statements of store.go implement its calls, for any number of       *)
(* connections and any set of calls.                                       *)
(***************************************************************************)
EXTENDS StoreTx, TLAPS

LEMMA CallFields ==
    ASSUME NEW q \in Calls
    PROVE  /\ q # Null
           /\ q.op \in {"add", "revoke", "enroll", "clear", "reset"}
           /\ q.op = "add" => q.phrase \in Phrases /\ q.expires \in Nat
           /\ q.op = "revoke" => q.phrase \in Phrases /\ q.now \in Nat
           /\ q.op = "enroll" => /\ q.phrase \in Phrases /\ q.host \in Hosts
                                 /\ q.txn \in Txns /\ q.key \in Keys
           /\ q.op \in {"clear", "reset"} => q.host \in Hosts
BY CallsAssumption DEF Call

LEMMA InitInv == TxInit => TxInv
<1> SUFFICES ASSUME TxInit PROVE TxInv
  OBVIOUS
<1> USE DEF TxInit, Init
<1>1. StoreTypeOK
  BY DEF StoreInit, StoreTypeOK
<1>2. TxTypeOK
  BY <1>1, TxAssumption, CallsAssumption DEF TxTypeOK, InTransaction
<1>3. ASSUME NEW c \in Conns
      PROVE  TransactionInv(c) /\ BetweenInv(c)
  BY DEF TransactionInv, BetweenInv, InTransaction
<1>4. QED BY <1>2, <1>3 DEF TxInv

(* The tables stay tables. *)
LEMMA StatementType ==
    ASSUME TxInv, NEW c \in Conns, Statement(c) \/ StatementFails(c)
    PROVE  StoreTypeOK'
<1> DEFINE q == call[c]
<1>0. call[c] \in Calls \/ call[c] = Null
  BY DEF TxInv, TxTypeOK
<1>1. CASE InsertPhrase(c)
  <2>1. /\ q \in Calls /\ q.op = "add"
    BY <1>0, <1>1 DEF InsertPhrase, At
  <2>2. [expires |-> q.expires, revoked |-> Null] \in PhraseRow
    BY <2>1, CallFields DEF PhraseRow
  <2>3. QED BY <1>1, <2>1, <2>2 DEF InsertPhrase, TxInv, TxTypeOK, StoreTypeOK, storeVars
<1>2. CASE UpdatePhrase(c)
  <2>1. q \in Calls /\ q.op = "revoke"
    BY <1>0, <1>2 DEF UpdatePhrase, At
  <2>2. q.phrase \in Phrases /\ q.now \in Nat
    BY <2>1, CallFields
  <2>3. QED BY <1>2, <2>2 DEF UpdatePhrase, TxInv, TxTypeOK, StoreTypeOK, storeVars, PhraseRow
<1>3. CASE Commit(c)
  <2>1. draft \in Draft
    BY <1>3, TxAssumption DEF Commit, At, TxInv, TxTypeOK, InTransaction
  <2>2. QED BY <1>3, <2>1 DEF Commit, Draft, TxInv, TxTypeOK, StoreTypeOK
<1>4. CASE DeletePin(c)
  BY <1>4 DEF DeletePin, TxInv, TxTypeOK, StoreTypeOK
<1>5. CASE DeleteUses(c)
  BY <1>5 DEF DeleteUses, TxInv, TxTypeOK, StoreTypeOK
<1>6. CASE \/ SelectPhrase(c) \/ SelectRevoked(c) \/ InsertUse(c) \/ CheckTxn(c)
           \/ UpsertPin(c) \/ StatementFails(c)
  BY <1>6 DEF SelectPhrase, SelectRevoked, InsertUse, CheckTxn, UpsertPin, StatementFails,
              storeVars, TxInv, TxTypeOK, StoreTypeOK
<1>7. QED BY <1>1, <1>2, <1>3, <1>4, <1>5, <1>6 DEF Statement

(* A call that returns gives the lock back if it has it, and nothing else  *)
(* of the types is in danger.                                              *)
LEMMA ReturnType ==
    ASSUME TxInv, NEW c \in Conns, NEW r \in {"yes", "no", "error"}, Return(c, r), StoreTypeOK'
    PROVE  TxTypeOK'
<1>1. stage' = [stage EXCEPT ![c] = "done"] /\ result' = [result EXCEPT ![c] = r]
  BY DEF Return, Answer
<1>2. UNCHANGED <<call, before>> /\ call[c] # Null
  BY DEF Return, Answer
<1>3. ASSUME NEW d \in Conns
      PROVE  /\ writer' = d <=> InTransaction(d)'
             /\ stage'[d] = "idle" <=> call'[d] = Null
             /\ stage'[d] = "done" <=> result'[d] # "none"
  BY <1>1, <1>2, TxAssumption DEF Return, TxInv, TxTypeOK, InTransaction
<1>4. QED BY <1>1, <1>2, <1>3 DEF Return, TxInv, TxTypeOK

(* A statement that is not the last one changes no table. *)
Goes(c, st) == /\ Goto(c, st)
               /\ UNCHANGED storeVars

LEMMA ReturnsOrGoesOn ==
    ASSUME NEW c \in Conns, Statement(c) \/ StatementFails(c)
    PROVE  \/ \E r \in {"yes", "no", "error"} : Return(c, r)
           \/ SelectPhrase(c) /\ Goes(c, "insert") /\ UNCHANGED <<writer, draft>>
           \/ UpdatePhrase(c) /\ Goes(c, "exists") /\ UNCHANGED <<writer, draft>>
           \/ InsertUse(c)
           \/ CheckTxn(c) /\ Goes(c, "pin") /\ UNCHANGED <<writer, draft>>
           \/ UpsertPin(c)
<1>1. CASE StatementFails(c)
  BY <1>1 DEF StatementFails
<1>2. CASE SelectPhrase(c)
  BY <1>2 DEF SelectPhrase, Goes
<1>3. CASE InsertPhrase(c)
  BY <1>3 DEF InsertPhrase, ReturnWritten
<1>4. CASE UpdatePhrase(c)
  BY <1>4 DEF UpdatePhrase, ReturnWritten, Goes, storeVars
<1>5. CASE SelectRevoked(c)
  BY <1>5 DEF SelectRevoked
<1>6. CASE CheckTxn(c)
  BY <1>6 DEF CheckTxn, Goes
<1>7. CASE Commit(c) \/ DeletePin(c) \/ DeleteUses(c)
  BY <1>7 DEF Commit, DeletePin, DeleteUses, ReturnWritten
<1>8. QED BY <1>1, <1>2, <1>3, <1>4, <1>5, <1>6, <1>7 DEF Statement

(* Going on: the lock is taken with the first write and not given back.    *)
LEMMA GoingOnType ==
    ASSUME TxInv, NEW c \in Conns,
           NEW st \in {"insert", "exists", "check", "pin", "commit"},
           Goes(c, st), call[c] # Null, stage[c] \notin {"idle", "done"},
           writer' \in Conns \cup {Null}, draft' \in Draft \cup {Null},
           writer' = Null <=> draft' = Null,
           \A d \in Conns : writer' = d <=> InTransaction(d)'
    PROVE  TxTypeOK'
BY DEF Goes, Goto, callVars, storeVars, TxInv, TxTypeOK, StoreTypeOK

LEMMA StatementKeepsType ==
    ASSUME TxInv, NEW c \in Conns, Statement(c) \/ StatementFails(c)
    PROVE  TxTypeOK'
<1>0. StoreTypeOK'
  BY StatementType
<1>1. CASE \E r \in {"yes", "no", "error"} : Return(c, r)
  BY <1>0, <1>1, ReturnType
<1>2. CASE \/ SelectPhrase(c) /\ Goes(c, "insert") /\ UNCHANGED <<writer, draft>>
           \/ UpdatePhrase(c) /\ Goes(c, "exists") /\ UNCHANGED <<writer, draft>>
  <2>1. stage[c] = "ready" /\ call[c] # Null
    BY <1>2 DEF SelectPhrase, UpdatePhrase, At
  <2>2. \A d \in Conns : writer' = d <=> InTransaction(d)'
    BY <1>2, <2>1 DEF Goes, Goto, TxInv, TxTypeOK, InTransaction
  <2>3. writer' \in Conns \cup {Null} /\ draft' \in Draft \cup {Null} /\ (writer' = Null <=> draft' = Null)
    BY <1>2 DEF TxInv, TxTypeOK
  <2>4. QED BY <1>2, <2>1, <2>2, <2>3, GoingOnType
<1>3. CASE CheckTxn(c) /\ Goes(c, "pin") /\ UNCHANGED <<writer, draft>>
  <2>1. stage[c] = "check" /\ call[c] # Null
    BY <1>3 DEF CheckTxn, At
  <2>2. \A d \in Conns : writer' = d <=> InTransaction(d)'
    BY <1>3, <2>1 DEF Goes, Goto, TxInv, TxTypeOK, InTransaction
  <2>3. writer' \in Conns \cup {Null} /\ draft' \in Draft \cup {Null} /\ (writer' = Null <=> draft' = Null)
    BY <1>3 DEF TxInv, TxTypeOK
  <2>4. QED BY <1>3, <2>1, <2>2, <2>3, GoingOnType
<1>4. CASE InsertUse(c)
  <2> DEFINE st == IF uses[<<call[c].phrase, call[c].host>>] = Null THEN "pin" ELSE "check"
  <2>1. stage[c] = "ready" /\ call[c] # Null /\ call[c].op = "enroll" /\ writer = Null
    BY <1>4 DEF InsertUse, At
  <2>2. Goes(c, st) /\ st \in {"pin", "check"} /\ writer' = c
    BY <1>4 DEF InsertUse, Goes
  <2>3. draft' \in Draft
    <3>1. call[c].txn \in Txns
      BY <2>1, CallFields DEF TxInv, TxTypeOK
    <3>2. QED BY <1>4, <3>1 DEF InsertUse, Draft, TxInv, TxTypeOK, StoreTypeOK
  <2>4. \A d \in Conns : writer' = d <=> InTransaction(d)'
    BY <2>1, <2>2, TxAssumption DEF Goes, Goto, TxInv, TxTypeOK, InTransaction
  <2>5. writer' # Null /\ draft' # Null
    BY <2>2, <2>3, TxAssumption
  <2>6. QED BY <2>1, <2>2, <2>3, <2>4, <2>5, GoingOnType
<1>5. CASE UpsertPin(c)
  <2>1. stage[c] = "pin" /\ call[c] # Null /\ call[c].op = "enroll"
    BY <1>5 DEF UpsertPin, At
  <2>2. Goes(c, "commit") /\ writer' = writer
    BY <1>5 DEF UpsertPin, Goes
  <2>3. writer = c /\ draft \in Draft
    BY <2>1, TxAssumption DEF TxInv, TxTypeOK, InTransaction
  <2>4. draft' \in Draft
    <3>1. [key |-> call[c].key, phrase |-> call[c].phrase] \in PinRow
      BY <2>1, CallFields DEF TxInv, TxTypeOK, PinRow
    <3>2. QED BY <1>5, <2>3, <3>1 DEF UpsertPin, Draft
  <2>5. \A d \in Conns : writer' = d <=> InTransaction(d)'
    BY <2>1, <2>2 DEF Goes, Goto, TxInv, TxTypeOK, InTransaction
  <2>6. writer' # Null /\ draft' # Null
    BY <2>2, <2>3, <2>4, TxAssumption
  <2>7. QED BY <2>1, <2>2, <2>3, <2>4, <2>5, <2>6, GoingOnType
<1>6. QED BY <1>1, <1>2, <1>3, <1>4, <1>5, ReturnsOrGoesOn

LEMMA CallType ==
    ASSUME TxInv, NEW c \in Conns, CallStore(c) \/ Leave(c)
    PROVE  TxTypeOK'
<1>1. CASE CallStore(c)
  <2>1. PICK q \in Calls : call' = [call EXCEPT ![c] = q]
    BY <1>1 DEF CallStore, Make
  <2>2. stage[c] = "idle" /\ q # Null
    BY <1>1, CallFields DEF CallStore, Make, TxInv, TxTypeOK
  <2>3. OnRecord \subseteq Phrases
    BY DEF OnRecord
  <2>4. QED BY <1>1, <2>1, <2>2, <2>3
            DEF CallStore, Make, storeVars, TxInv, TxTypeOK, StoreTypeOK, InTransaction
<1>2. CASE Leave(c)
  BY <1>2 DEF Leave, Take, storeVars, TxInv, TxTypeOK, StoreTypeOK, InTransaction
<1>3. QED BY <1>1, <1>2

-----------------------------------------------------------------------------
(* What a connection has found out stays true.                             *)

Moves(c) == CallStore(c) \/ Statement(c) \/ StatementFails(c) \/ Leave(c)

(* Nobody else writes while a connection is inside its transaction.        *)
LEMMA LockProtects ==
    ASSUME TxInv, NEW c \in Conns, NEW d \in Conns, c # d, InTransaction(d), Moves(c)
    PROVE  uses' = uses /\ pins' = pins /\ draft' = draft
<1>1. writer = d /\ writer # Null /\ writer # c /\ ~InTransaction(c)
  BY TxAssumption DEF TxInv, TxTypeOK
<1>2. CASE CallStore(c) \/ Leave(c)
  BY <1>2 DEF CallStore, Make, Leave, Take, storeVars
<1>3. CASE Statement(c)
  BY <1>1, <1>3 DEF Statement, SelectPhrase, InsertPhrase, UpdatePhrase, SelectRevoked, InsertUse,
                    CheckTxn, UpsertPin, Commit, DeletePin, DeleteUses, Return, ReturnWritten,
                    storeVars, At, InTransaction
<1>4. CASE StatementFails(c)
  BY <1>1, <1>4 DEF StatementFails, Return, storeVars
<1>5. QED BY <1>2, <1>3, <1>4 DEF Moves

(* A connection's step is its own. *)
LEMMA OthersStay ==
    ASSUME TxInv, NEW c \in Conns, NEW d \in Conns, c # d, Moves(c)
    PROVE  stage'[d] = stage[d] /\ call'[d] = call[d] /\ before'[d] = before[d]
<1>1. CASE CallStore(c)
  <2>1. PICK q \in Calls : call' = [call EXCEPT ![c] = q]
    BY <1>1 DEF CallStore, Make
  <2>2. QED BY <1>1, <2>1 DEF CallStore, Make, TxInv, TxTypeOK
<1>2. CASE Leave(c)
  BY <1>2 DEF Leave, Take, TxInv, TxTypeOK
<1>3. CASE Statement(c) \/ StatementFails(c)
  <2>1. \/ \E r \in {"yes", "no", "error"} : Return(c, r)
        \/ \E st \in {"insert", "exists", "check", "pin", "commit"} : Goto(c, st)
    BY <1>3, ReturnsOrGoesOn DEF Goes, InsertUse, UpsertPin
  <2>2. QED BY <2>1 DEF Return, Answer, Goto, callVars, TxInv, TxTypeOK
<1>4. QED BY <1>1, <1>2, <1>3 DEF Moves

LEMMA TransactionInvKept ==
    ASSUME TxInv, NEW c \in Conns, NEW d \in Conns, Moves(c)
    PROVE  TransactionInv(d)'
<1> SUFFICES ASSUME InTransaction(d)' PROVE TransactionInv(d)'
  BY DEF TransactionInv
<1>1. CASE c # d
  <2>1. InTransaction(d) /\ stage'[d] = stage[d] /\ call'[d] = call[d]
    BY <1>1, OthersStay DEF InTransaction
  <2>2. uses' = uses /\ pins' = pins /\ draft' = draft
    BY <1>1, <2>1, LockProtects
  <2>3. TransactionInv(d)
    BY DEF TxInv
  <2>4. QED BY <2>1, <2>2, <2>3 DEF TransactionInv, InTransaction, MayEnroll
<1>2. CASE c = d
  <2>1. ~CallStore(c) /\ ~Leave(c)
    BY <1>2 DEF CallStore, Leave, TxInv, TxTypeOK, InTransaction
  <2>2. \/ InsertUse(c)
        \/ CheckTxn(c) /\ Goes(c, "pin") /\ UNCHANGED <<writer, draft>>
        \/ UpsertPin(c)
    <3>1. Statement(c) \/ StatementFails(c)
      BY <2>1 DEF Moves
    <3>2. ~\E r \in {"yes", "no", "error"} : Return(c, r)
      BY <1>2 DEF Return, InTransaction, TxInv, TxTypeOK
    <3>3. ~Goes(c, "insert") /\ ~Goes(c, "exists")
      BY <1>2 DEF Goes, Goto, InTransaction, TxInv, TxTypeOK
    <3>4. QED BY <3>1, <3>2, <3>3, ReturnsOrGoesOn
  <2> DEFINE q == call[c]
             u == <<q.phrase, q.host>>
  <2>3. CASE InsertUse(c)
    <3>1. q.op = "enroll" /\ q.phrase \in Phrases /\ q.host \in Hosts /\ call' = call
      BY <2>3, CallFields DEF InsertUse, At, Goto, callVars, TxInv, TxTypeOK
    <3>2. /\ draft'.uses = [uses EXCEPT ![u] = IF @ = Null THEN q.txn ELSE @]
          /\ draft'.pins = pins
          /\ uses' = uses /\ pins' = pins
      BY <2>3 DEF InsertUse, storeVars
    <3>3. stage'[c] = IF uses[u] = Null THEN "pin" ELSE "check"
      BY <2>3 DEF InsertUse, Goto, TxInv, TxTypeOK
    <3>4. QED BY <1>2, <3>1, <3>2, <3>3 DEF TransactionInv, MayEnroll
  <2>4. CASE CheckTxn(c) /\ Goes(c, "pin") /\ UNCHANGED <<writer, draft>>
    <3>1. /\ q.op = "enroll" /\ q.phrase \in Phrases /\ q.host \in Hosts /\ call' = call
          /\ stage[c] = "check" /\ stage'[c] = "pin"
      BY <2>4, CallFields DEF CheckTxn, At, Goes, Goto, callVars, TxInv, TxTypeOK
    <3>2. TransactionInv(c) /\ InTransaction(c)
      BY <3>1 DEF TxInv, InTransaction
    <3>3. q.txn # NoTxn /\ draft.uses[u] = q.txn
      BY <2>4, <3>1 DEF CheckTxn, Return, TxInv, TxTypeOK
    <3>4. uses[u] = q.txn
      <4>1. u \in Phrases \X Hosts /\ uses[u] # Null
        BY <3>1, <3>2 DEF TransactionInv
      <4>2. draft.uses[u] = uses[u]
        BY <3>2, <4>1 DEF TransactionInv, TxInv, TxTypeOK, StoreTypeOK
      <4>3. QED BY <3>3, <4>2
    <3>5. uses' = uses /\ pins' = pins /\ draft' = draft
      BY <2>4 DEF Goes, storeVars
    <3>6. QED BY <1>2, <3>1, <3>2, <3>3, <3>4, <3>5 DEF TransactionInv, MayEnroll
  <2>5. CASE UpsertPin(c)
    <3>1. /\ q.op = "enroll" /\ q.phrase \in Phrases /\ q.host \in Hosts /\ call' = call
          /\ stage[c] = "pin" /\ stage'[c] = "commit"
      BY <2>5, CallFields DEF UpsertPin, At, Goto, callVars, TxInv, TxTypeOK
    <3>2. TransactionInv(c) /\ InTransaction(c)
      BY <3>1 DEF TxInv, InTransaction
    <3>3. draft \in Draft
      BY <3>2, TxAssumption DEF TxInv, TxTypeOK
    <3>4. /\ draft'.uses = draft.uses
          /\ draft'.pins = [pins EXCEPT ![q.host] = [key |-> q.key, phrase |-> q.phrase]]
      BY <2>5, <3>1, <3>2, <3>3 DEF UpsertPin, TransactionInv, Draft
    <3>5. uses' = uses /\ pins' = pins
      BY <2>5 DEF UpsertPin, storeVars
    <3>6. QED BY <1>2, <3>1, <3>2, <3>4, <3>5 DEF TransactionInv, MayEnroll
  <2>6. QED BY <2>2, <2>3, <2>4, <2>5
<1>3. QED BY <1>1, <1>2

(* Rows of phrases are never deleted and revocations never taken back.     *)
LEMMA RowsStay ==
    ASSUME TxInv, NEW c \in Conns, Moves(c), NEW p \in Phrases, phrases[p] # Null
    PROVE  /\ phrases'[p] # Null
           /\ phrases[p].revoked # Null => phrases'[p].revoked # Null
<1>1. CASE InsertPhrase(c)
  <2>1. phrases'[p] = phrases[p]
    BY <1>1 DEF InsertPhrase, storeVars, TxInv, TxTypeOK, StoreTypeOK
  <2>2. QED BY <2>1
<1>2. CASE UpdatePhrase(c)
  <2>1. call[c] \in Calls /\ call[c].op = "revoke"
    BY <1>2 DEF UpdatePhrase, At, TxInv, TxTypeOK
  <2>2. phrases' = phrases \/ phrases' = [phrases EXCEPT ![call[c].phrase].revoked = call[c].now]
    BY <1>2 DEF UpdatePhrase, storeVars
  <2>3. phrases[p] \in PhraseRow /\ call[c].now \in Nat
    BY <2>1, CallFields DEF TxInv, TxTypeOK, StoreTypeOK
  <2>4. [phrases[p] EXCEPT !.revoked = call[c].now] \in PhraseRow
    BY <2>3 DEF PhraseRow
  <2>5. phrases'[p] = phrases[p] \/ phrases'[p] = [phrases[p] EXCEPT !.revoked = call[c].now]
    BY <2>2 DEF TxInv, TxTypeOK, StoreTypeOK
  <2>6. QED BY <2>3, <2>4, <2>5, StoreAssumption DEF PhraseRow
<1>3. CASE ~InsertPhrase(c) /\ ~UpdatePhrase(c)
  <2>1. phrases' = phrases
    BY <1>3 DEF Moves, CallStore, Make, Leave, Take, Statement, StatementFails, SelectPhrase,
                SelectRevoked, InsertUse, CheckTxn, UpsertPin, Commit, DeletePin, DeleteUses,
                storeVars
  <2>2. QED BY <2>1
<1>4. QED BY <1>1, <1>2, <1>3

LEMMA BetweenInvKept ==
    ASSUME TxInv, NEW c \in Conns, NEW d \in Conns, Moves(c)
    PROVE  BetweenInv(d)'
<1>0. BetweenInv(d)
  BY DEF TxInv
<1>1. OnRecord \subseteq OnRecord'
  BY RowsStay DEF OnRecord
<1>2. ASSUME stage'[d] = stage[d], call'[d] = call[d], before'[d] = before[d]
      PROVE  BetweenInv(d)'
  <2>1. ASSUME stage[d] = "exists"
        PROVE  /\ call[d].op = "revoke"
               /\ call[d].phrase \in before[d] => phrases'[call[d].phrase].revoked # Null
    <3>1. call[d].op = "revoke"
      BY <1>0, <2>1 DEF BetweenInv
    <3>2. ASSUME call[d].phrase \in before[d]
          PROVE  phrases'[call[d].phrase].revoked # Null
      <4>1. call[d].phrase \in Phrases /\ phrases[call[d].phrase] # Null
        BY <1>0, <3>2 DEF BetweenInv, OnRecord
      <4>2. phrases[call[d].phrase].revoked # Null
        BY <1>0, <2>1, <3>2 DEF BetweenInv
      <4>3. QED BY <4>1, <4>2, RowsStay
    <3>3. QED BY <3>1, <3>2
  <2>2. QED BY <1>0, <1>1, <1>2, <2>1 DEF BetweenInv
<1>3. CASE c # d
  BY <1>2, <1>3, OthersStay
<1>4. CASE c = d /\ CallStore(c)
  BY <1>1, <1>4 DEF CallStore, Make, storeVars, BetweenInv, TxInv, TxTypeOK
<1>5. CASE c = d /\ Leave(c)
  BY <1>5 DEF Leave, Take, storeVars, BetweenInv, TxInv, TxTypeOK
<1>6. CASE c = d /\ (Statement(c) \/ StatementFails(c))
  <2>1. CASE \E r \in {"yes", "no", "error"} : Return(c, r)
    BY <1>0, <1>1, <1>6, <2>1 DEF Return, Answer, BetweenInv, TxInv, TxTypeOK
  <2>2. CASE SelectPhrase(c) /\ Goes(c, "insert") /\ UNCHANGED <<writer, draft>>
    <3>1. stage'[c] = "insert" /\ UNCHANGED <<call, before>>
      BY <2>2 DEF Goes, Goto, callVars, TxInv, TxTypeOK
    <3>2. call[c].op = "add" /\ call[c].future
      BY <2>2, <3>1 DEF SelectPhrase, At, Return, TxInv, TxTypeOK
    <3>3. QED BY <1>0, <1>1, <1>6, <3>1, <3>2 DEF BetweenInv
  <2>3. CASE UpdatePhrase(c) /\ Goes(c, "exists") /\ UNCHANGED <<writer, draft>>
    <3>1. stage'[c] = "exists" /\ UNCHANGED <<call, before, phrases>>
      BY <2>3 DEF Goes, Goto, callVars, storeVars, TxInv, TxTypeOK
    <3>2. call[c].op = "revoke"
      BY <2>3 DEF UpdatePhrase, At
    <3>3. phrases[call[c].phrase] # Null => phrases[call[c].phrase].revoked # Null
      BY <2>3, <3>1 DEF UpdatePhrase, ReturnWritten, Return, TxInv, TxTypeOK
    <3>4. call[c].phrase \in before[c] => phrases[call[c].phrase].revoked # Null
      BY <1>0, <1>6, <3>3 DEF BetweenInv, OnRecord
    <3>5. QED BY <1>0, <1>1, <1>6, <3>1, <3>2, <3>4 DEF BetweenInv
  <2>4. CASE InsertUse(c) \/ UpsertPin(c) \/ (CheckTxn(c) /\ Goes(c, "pin"))
    <3>1. UNCHANGED <<before, call>> /\ stage'[c] \in {"pin", "check", "commit"}
      BY <2>4 DEF InsertUse, UpsertPin, Goes, Goto, callVars, TxInv, TxTypeOK
    <3>2. QED BY <1>0, <1>1, <1>6, <3>1 DEF BetweenInv
  <2>5. \/ \E r \in {"yes", "no", "error"} : Return(c, r)
        \/ SelectPhrase(c) /\ Goes(c, "insert") /\ UNCHANGED <<writer, draft>>
        \/ UpdatePhrase(c) /\ Goes(c, "exists") /\ UNCHANGED <<writer, draft>>
        \/ InsertUse(c)
        \/ CheckTxn(c) /\ Goes(c, "pin") /\ UNCHANGED <<writer, draft>>
        \/ UpsertPin(c)
    BY <1>6, ReturnsOrGoesOn
  <2>6. QED BY <2>1, <2>2, <2>3, <2>4, <2>5
<1>7. QED BY <1>3, <1>4, <1>5, <1>6 DEF Moves

LEMMA NextInv == TxInv /\ [TxNext]_txVars => TxInv'
<1> SUFFICES ASSUME TxInv, [TxNext]_txVars PROVE TxInv'
  OBVIOUS
<1>1. ASSUME NEW c \in Conns, Moves(c)
      PROVE  TxInv'
  <2>1. TxTypeOK'
    BY <1>1, StatementKeepsType, CallType DEF Moves
  <2>2. QED BY <1>1, <2>1, TransactionInvKept, BetweenInvKept DEF TxInv
<1>2. CASE UNCHANGED txVars
  <2> USE <1>2 DEF txVars, vars, storeVars, callVars
  <2>1. TxTypeOK'
    BY DEF TxInv, TxTypeOK, StoreTypeOK, InTransaction
  <2>2. ASSUME NEW c \in Conns
        PROVE  TransactionInv(c)' /\ BetweenInv(c)'
    BY DEF TxInv, TransactionInv, BetweenInv, InTransaction, MayEnroll, OnRecord
  <2>3. QED BY <2>1, <2>2 DEF TxInv
<1>3. QED BY <1>1, <1>2 DEF TxNext, Moves

(* What a connection has found out by its earlier statements is true when  *)
(* it executes the next, for any number of connections.                    *)
THEOREM Invariance == TxSpec => []TxInv
<1>1. QED BY InitInv, NextInv, PTL DEF TxSpec

(* At most one connection writes, and the lock is held only inside Enroll. *)
THEOREM TypeCorrect == TxSpec => []TxTypeOK
<1>1. TxInv => TxTypeOK
  BY DEF TxInv
<1>2. QED BY <1>1, Invariance, PTL

-----------------------------------------------------------------------------
(* The refinement.                                                         *)

(* A call that is refused or fails. *)
LEMMA SelectPhraseIsCall ==
    ASSUME TxInv, NEW c \in Conns, SelectPhrase(c)
    PROVE  [Next]_vars
<1>1. CASE Return(c, "error")
  BY <1>1 DEF SelectPhrase, Return, Fail, Next
<1>2. CASE Return(c, "no") /\ phrases[call[c].phrase] # Null
  BY <1>2 DEF SelectPhrase, At, Return, Refuse, Refused, Next
<1>3. CASE Goto(c, "insert")
  BY <1>3 DEF SelectPhrase, Goto, vars
<1>4. QED BY <1>1, <1>2, <1>3 DEF SelectPhrase

(* AddPhrase: the check is old news, the constraint is not. *)
LEMMA InsertPhraseIsCall ==
    ASSUME TxInv, NEW c \in Conns, InsertPhrase(c)
    PROVE  Next
<1>1. call[c].op = "add" /\ call[c].future
  BY DEF InsertPhrase, At, TxInv, BetweenInv
<1>2. CASE phrases[call[c].phrase] = Null
  <2>1. AddPhrase(call[c].phrase, call[c].expires)
    BY <1>1, <1>2 DEF InsertPhrase, AddPhrase, storeVars
  <2>2. PICK r \in {"yes", "error"} : Answer(c, r)
    BY <1>2 DEF InsertPhrase, ReturnWritten, Return
  <2>3. QED BY <1>1, <2>1, <2>2 DEF Perform, Effect, Next
<1>3. CASE phrases[call[c].phrase] # Null
  BY <1>3 DEF InsertPhrase, Return, Fail, Next
<1>4. QED BY <1>2, <1>3

(* RevokePhrase: the UPDATE does it, or what the SELECT finds was revoked  *)
(* before, or was not there when the call was made.                        *)
LEMMA RevokeIsCall ==
    ASSUME TxInv, NEW c \in Conns, UpdatePhrase(c) \/ SelectRevoked(c)
    PROVE  [Next]_vars
<1> DEFINE p == call[c].phrase
<1>1. call[c].op = "revoke" /\ p \in Phrases /\ phrases \in [Phrases -> PhraseRow \cup {Null}]
  BY CallFields DEF UpdatePhrase, SelectRevoked, At, TxInv, TxTypeOK, StoreTypeOK
<1>2. CASE UpdatePhrase(c)
  <2>1. CASE Goto(c, "exists") /\ UNCHANGED storeVars
    BY <2>1 DEF Goto, vars
  <2>2. CASE ~(Goto(c, "exists") /\ UNCHANGED storeVars)
    <3>1. /\ phrases[p] # Null /\ phrases[p].revoked = Null
          /\ phrases' = [phrases EXCEPT ![p].revoked = call[c].now]
          /\ UNCHANGED <<uses, pins>>
          /\ ReturnWritten(c)
      BY <1>2, <2>2 DEF UpdatePhrase
    <3>2. RevokePhrase(p, call[c].now)
      BY <3>1 DEF RevokePhrase
    <3>3. PICK r \in {"yes", "error"} : Answer(c, r)
      BY <3>1 DEF ReturnWritten, Return
    <3>4. QED BY <1>1, <3>2, <3>3 DEF Perform, Effect, Next
  <2>3. QED BY <2>1, <2>2
<1>3. CASE SelectRevoked(c)
  <2>1. UNCHANGED storeVars /\ stage[c] = "exists" /\ BetweenInv(c)
    BY <1>3 DEF SelectRevoked, At, TxInv
  <2>2. CASE phrases[p] = Null
    <3>1. Answer(c, "no")
      BY <1>3, <2>2 DEF SelectRevoked, Return
    <3>2. QED BY <1>1, <2>1, <2>2, <3>1 DEF Refuse, Refused, Next
  <2>3. CASE phrases[p] # Null
    <3>1. Answer(c, "yes")
      BY <1>3, <2>3 DEF SelectRevoked, Return
    <3>2. CASE phrases[p].revoked # Null
      <4>1. RevokePhrase(p, call[c].now)
        BY <2>1, <2>3, <3>2 DEF RevokePhrase, storeVars
      <4>2. QED BY <1>1, <3>1, <4>1 DEF Perform, Effect, Next
    <3>3. CASE phrases[p].revoked = Null
      <4>1. p \in OnRecord \ before[c]
        BY <1>1, <2>1, <2>3, <3>3 DEF BetweenInv, OnRecord
      <4>2. QED BY <1>1, <2>1, <3>1, <4>1 DEF Overlook, Next
    <3>4. QED BY <3>2, <3>3
  <2>4. QED BY <2>2, <2>3
<1>4. QED BY <1>2, <1>3

(* Enroll: nothing shows before COMMIT, and COMMIT shows it all. *)
LEMMA EnrollIsCall ==
    ASSUME TxInv, NEW c \in Conns,
           InsertUse(c) \/ CheckTxn(c) \/ UpsertPin(c) \/ Commit(c)
    PROVE  [Next]_vars
<1> DEFINE q == call[c]
           u == <<q.phrase, q.host>>
<1>1. CASE InsertUse(c) \/ UpsertPin(c)
  BY <1>1 DEF InsertUse, UpsertPin, Goto, vars
<1>2. CASE CheckTxn(c)
  <2>1. CASE Goto(c, "pin")
    BY <1>2, <2>1 DEF CheckTxn, Goto, vars
  <2>2. CASE ~Goto(c, "pin")
    <3>1. /\ Return(c, "no") /\ UNCHANGED storeVars /\ q.op = "enroll"
          /\ ~(q.txn # NoTxn /\ draft.uses[u] = q.txn)
      BY <1>2, <2>2 DEF CheckTxn, At
    <3>2. u \in Phrases \X Hosts /\ TransactionInv(c) /\ stage[c] = "check"
      BY <1>2, <3>1, CallFields DEF CheckTxn, At, TxInv, TxTypeOK
    <3>3. uses[u] # Null /\ draft.uses[u] = uses[u]
      BY <3>2 DEF TransactionInv, InTransaction, TxInv, TxTypeOK, StoreTypeOK
    <3>4. ~MayEnroll(q.phrase, q.host, q.txn)
      BY <3>1, <3>3 DEF MayEnroll
    <3>5. QED BY <3>1, <3>4 DEF Return, Refuse, Refused, Next
  <2>3. QED BY <2>1, <2>2
<1>3. CASE Commit(c)
  <2>1. TransactionInv(c) /\ stage[c] = "commit" /\ q.op = "enroll"
    BY <1>3 DEF Commit, At, TxInv
  <2>2. Enroll(q.phrase, q.host, q.txn, q.key)
    BY <1>3, <2>1 DEF Commit, TransactionInv, InTransaction, Enroll
  <2>3. PICK r \in {"yes", "error"} : Answer(c, r)
    BY <1>3 DEF Commit, ReturnWritten, Return
  <2>4. QED BY <2>1, <2>2, <2>3 DEF Perform, Effect, Next
<1>4. QED BY <1>1, <1>2, <1>3

LEMMA DeleteIsCall ==
    ASSUME TxInv, NEW c \in Conns, DeletePin(c) \/ DeleteUses(c)
    PROVE  Next
<1> DEFINE h == call[c].host
<1>1. CASE DeletePin(c)
  <2>1. call[c].op = "clear" /\ pins' = [pins EXCEPT ![h] = Null] /\ UNCHANGED <<phrases, uses>>
    BY <1>1 DEF DeletePin, At
  <2>2. CASE pins[h] = Null
    <3>1. UNCHANGED storeVars
      BY <2>1, <2>2 DEF storeVars, TxInv, TxTypeOK, StoreTypeOK
    <3>2. Answer(c, "no")
      BY <1>1, <2>2 DEF DeletePin, Return
    <3>3. QED BY <2>1, <2>2, <3>1, <3>2 DEF Refuse, Refused, Next
  <2>3. CASE pins[h] # Null
    <3>1. PICK r \in {"yes", "error"} : Answer(c, r)
      BY <1>1, <2>3 DEF DeletePin, ReturnWritten, Return
    <3>2. QED BY <2>1, <2>3, <3>1 DEF ClearPin, Perform, Effect, Next
  <2>4. QED BY <2>2, <2>3
<1>2. CASE DeleteUses(c)
  <2>1. /\ call[c].op = "reset" /\ h \in Hosts
        /\ uses' = [u \in Phrases \X Hosts |-> IF u[2] = h THEN Null ELSE uses[u]]
        /\ UNCHANGED <<phrases, pins>>
    BY <1>2, CallFields DEF DeleteUses, At, TxInv, TxTypeOK
  <2>2. CASE \A p \in Phrases : uses[<<p, h>>] = Null
    <3>1. \A u \in Phrases \X Hosts : u[2] = h => uses[u] = Null
      BY <2>2
    <3>2. UNCHANGED storeVars
      BY <2>1, <3>1 DEF storeVars, TxInv, TxTypeOK, StoreTypeOK
    <3>3. Answer(c, "no")
      BY <1>2, <3>1 DEF DeleteUses, Return
    <3>4. QED BY <2>1, <2>2, <3>2, <3>3 DEF Refuse, Refused, Next
  <2>3. CASE \E p \in Phrases : uses[<<p, h>>] # Null
    <3>1. \E u \in Phrases \X Hosts : u[2] = h /\ uses[u] # Null
      BY <2>1, <2>3
    <3>2. PICK r \in {"yes", "error"} : Answer(c, r)
      BY <1>2, <3>1 DEF DeleteUses, ReturnWritten, Return
    <3>3. QED BY <2>1, <2>3, <3>2 DEF ResetUses, Perform, Effect, Next
  <2>4. QED BY <2>2, <2>3
<1>3. QED BY <1>1, <1>2

(* Every step of a connection is a call made, performed, refused, failed,  *)
(* or answered, or is not seen from outside.                               *)
THEOREM Refinement == TxSpec => ImplementsStoreCalls
<1>1. TxInit => Init
  BY DEF TxInit
<1>2. TxInv /\ [TxNext]_txVars => [Next]_vars
  <2> SUFFICES ASSUME TxInv, [TxNext]_txVars PROVE [Next]_vars
    OBVIOUS
  <2>1. ASSUME NEW c \in Conns, Statement(c)
        PROVE  [Next]_vars
    BY <2>1, SelectPhraseIsCall, InsertPhraseIsCall, RevokeIsCall, EnrollIsCall, DeleteIsCall
       DEF Statement
  <2>2. ASSUME NEW c \in Conns, CallStore(c) \/ Leave(c) \/ StatementFails(c)
        PROVE  Next
    BY <2>2 DEF CallStore, Leave, StatementFails, Return, Fail, Next
  <2>3. CASE UNCHANGED txVars
    BY <2>3 DEF txVars
  <2>4. QED BY <2>1, <2>2, <2>3 DEF TxNext
<1>3. QED BY <1>1, <1>2, Invariance, PTL DEF TxSpec, Spec, ImplementsStoreCalls
=============================================================================
