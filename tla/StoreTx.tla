------------------------------ MODULE StoreTx ------------------------------
(***************************************************************************)
(* webhook/internal/store/store.go statement by statement.  The server's   *)
(* handlers and the admin commands each have a connection of their own to  *)
(* one SQLite file: one connection at a time may write, readers see what   *)
(* is committed, a statement that has to wait longer than the busy timeout *)
(* fails.  A connection may fail or its process die between any two        *)
(* statements.                                                             *)
(*                                                                         *)
(* phrases, uses and pins are the committed tables.                        *)
(***************************************************************************)
EXTENDS StoreCalls

VARIABLES
    stage,      \* the statement a connection is about to execute
    writer,     \* the connection that holds the write lock, or Null
    draft       \* uses and pins as the writer's open transaction has them, or Null

(* Nothing of these is NULL. *)
Draft == [uses : [Phrases \X Hosts -> Txns \cup {Null}], pins : [Hosts -> PinRow \cup {Null}]]

ASSUME TxAssumption == Null \notin Conns \cup Draft

txVars == <<vars, stage, writer, draft>>

TxInit ==
    /\ Init
    /\ stage = [c \in Conns |-> "idle"]
    /\ writer = Null
    /\ draft = Null

InTransaction(c) == stage[c] \in {"check", "pin", "commit"}

At(c, op, st) == call[c] # Null /\ call[c].op = op /\ stage[c] = st

Goto(c, st) == stage' = [stage EXCEPT ![c] = st] /\ UNCHANGED callVars

(* Rollback is deferred: whatever is returned ends the transaction.        *)
Return(c, r) ==
    /\ stage' = [stage EXCEPT ![c] = "done"]
    /\ Answer(c, r)
    /\ writer' = IF writer = c THEN Null ELSE writer
    /\ draft' = IF writer = c THEN Null ELSE draft

(* What was written is on disk; the process may die before it says so.     *)
ReturnWritten(c) == \E r \in {"yes", "error"} : Return(c, r)

CallStore(c) ==
    /\ Make(c)
    /\ stage' = [stage EXCEPT ![c] = "ready"]
    /\ UNCHANGED <<writer, draft>>

Leave(c) ==
    /\ Take(c)
    /\ stage' = [stage EXCEPT ![c] = "idle"]
    /\ UNCHANGED <<writer, draft>>

-----------------------------------------------------------------------------
(* AddPhrase: SELECT, then INSERT, in two transactions.                    *)

SelectPhrase(c) ==
    /\ At(c, "add", "ready")
    /\ UNCHANGED storeVars
    /\ \/ ~call[c].future /\ Return(c, "error")
       \/ /\ call[c].future
          /\ phrases[call[c].phrase] # Null
          /\ Return(c, "no")
       \/ /\ call[c].future
          /\ phrases[call[c].phrase] = Null
          /\ Goto(c, "insert")
          /\ UNCHANGED <<writer, draft>>

(* Slip: the column is not UNIQUE, and the new row hides the old one. *)
InsertPhraseOver(c) ==
    /\ At(c, "add", "insert")
    /\ writer = Null
    /\ phrases' = [phrases EXCEPT ![call[c].phrase] =
                     [expires |-> call[c].expires, revoked |-> Null]]
    /\ UNCHANGED <<uses, pins>>
    /\ ReturnWritten(c)

(* The text is UNIQUE: the second of two that found no row fails.          *)
InsertPhrase(c) ==
    /\ At(c, "add", "insert")
    /\ writer = Null
    /\ \/ /\ phrases[call[c].phrase] = Null
          /\ phrases' = [phrases EXCEPT ![call[c].phrase] =
                           [expires |-> call[c].expires, revoked |-> Null]]
          /\ UNCHANGED <<uses, pins>>
          /\ ReturnWritten(c)
       \/ /\ phrases[call[c].phrase] # Null
          /\ UNCHANGED storeVars
          /\ Return(c, "error")

-----------------------------------------------------------------------------
(* RevokePhrase: UPDATE, and a SELECT when it touched no row.              *)

UpdatePhrase(c) ==
    LET p == call[c].phrase IN
    /\ At(c, "revoke", "ready")
    /\ writer = Null
    /\ \/ /\ phrases[p] # Null
          /\ phrases[p].revoked = Null
          /\ phrases' = [phrases EXCEPT ![p].revoked = call[c].now]
          /\ UNCHANGED <<uses, pins>>
          /\ ReturnWritten(c)
       \/ /\ phrases[p] # Null => phrases[p].revoked # Null
          /\ Goto(c, "exists")
          /\ UNCHANGED <<storeVars, writer, draft>>

SelectRevoked(c) ==
    /\ At(c, "revoke", "exists")
    /\ UNCHANGED storeVars
    /\ Return(c, IF phrases[call[c].phrase] = Null THEN "no" ELSE "yes")

-----------------------------------------------------------------------------
(* Enroll: one transaction, which starts to write with its first statement *)
(* (BEGIN alone takes no lock).                                            *)

(* Slips: the use is committed on its own; the lock is not waited for.     *)
InsertUseAlone(c) ==
    LET u == <<call[c].phrase, call[c].host>> IN
    /\ At(c, "enroll", "ready")
    /\ writer = Null
    /\ writer' = c
    /\ uses' = [uses EXCEPT ![u] = IF @ = Null THEN call[c].txn ELSE @]
    /\ draft' = [uses |-> uses', pins |-> pins]
    /\ Goto(c, IF uses[u] = Null THEN "pin" ELSE "check")
    /\ UNCHANGED <<phrases, pins>>
InsertUseUnlocked(c) ==
    LET u == <<call[c].phrase, call[c].host>> IN
    /\ At(c, "enroll", "ready")
    /\ writer' = c
    /\ draft' = [uses |-> [uses EXCEPT ![u] = IF @ = Null THEN call[c].txn ELSE @],
                 pins |-> pins]
    /\ Goto(c, IF uses[u] = Null THEN "pin" ELSE "check")
    /\ UNCHANGED storeVars

(* INSERT OR IGNORE. *)
InsertUse(c) ==
    LET u == <<call[c].phrase, call[c].host>> IN
    /\ At(c, "enroll", "ready")
    /\ writer = Null
    /\ writer' = c
    /\ draft' = [uses |-> [uses EXCEPT ![u] = IF @ = Null THEN call[c].txn ELSE @],
                 pins |-> pins]
    /\ Goto(c, IF uses[u] = Null THEN "pin" ELSE "check")
    /\ UNCHANGED storeVars

(* Slip: the refusal returns without the rollback. *)
CheckTxnNoRollback(c) ==
    /\ At(c, "enroll", "check")
    /\ UNCHANGED <<storeVars, writer, draft>>
    /\ IF call[c].txn # NoTxn /\ draft.uses[<<call[c].phrase, call[c].host>>] = call[c].txn
       THEN Goto(c, "pin")
       ELSE Answer(c, "no") /\ stage' = [stage EXCEPT ![c] = "done"]

CheckTxn(c) ==
    /\ At(c, "enroll", "check")
    /\ UNCHANGED storeVars
    /\ IF call[c].txn # NoTxn /\ draft.uses[<<call[c].phrase, call[c].host>>] = call[c].txn
       THEN Goto(c, "pin") /\ UNCHANGED <<writer, draft>>
       ELSE Return(c, "no")

UpsertPin(c) ==
    /\ At(c, "enroll", "pin")
    /\ draft' = [draft EXCEPT !.pins[call[c].host] =
                   [key |-> call[c].key, phrase |-> call[c].phrase]]
    /\ Goto(c, "commit")
    /\ UNCHANGED <<storeVars, writer>>

Commit(c) ==
    /\ At(c, "enroll", "commit")
    /\ uses' = draft.uses
    /\ pins' = draft.pins
    /\ UNCHANGED phrases
    /\ ReturnWritten(c)

-----------------------------------------------------------------------------
(* ClearPin and ResetUses: one DELETE each.                                *)

DeletePin(c) ==
    /\ At(c, "clear", "ready")
    /\ writer = Null
    /\ pins' = [pins EXCEPT ![call[c].host] = Null]
    /\ UNCHANGED <<phrases, uses>>
    /\ IF pins[call[c].host] = Null THEN Return(c, "no") ELSE ReturnWritten(c)

DeleteUses(c) ==
    LET mine == {u \in Phrases \X Hosts : u[2] = call[c].host} IN
    /\ At(c, "reset", "ready")
    /\ writer = Null
    /\ uses' = [u \in Phrases \X Hosts |-> IF u \in mine THEN Null ELSE uses[u]]
    /\ UNCHANGED <<phrases, pins>>
    /\ IF \A u \in mine : uses[u] = Null THEN Return(c, "no") ELSE ReturnWritten(c)

-----------------------------------------------------------------------------
Statement(c) ==
    \/ SelectPhrase(c) \/ InsertPhrase(c)
    \/ UpdatePhrase(c) \/ SelectRevoked(c)
    \/ InsertUse(c) \/ CheckTxn(c) \/ UpsertPin(c) \/ Commit(c)
    \/ DeletePin(c) \/ DeleteUses(c)

(* A statement fails: it waited too long for another writer, the request   *)
(* was cancelled, the disk is full.  Or the process dies, and the next     *)
(* connection rolls back what it left.                                     *)
StatementFails(c) ==
    /\ stage[c] \notin {"idle", "done"}
    /\ Return(c, "error")
    /\ UNCHANGED storeVars

BusyTimeout(c) == writer \notin {Null, c} /\ StatementFails(c)

TxNext ==
    \E c \in Conns : CallStore(c) \/ Statement(c) \/ StatementFails(c) \/ Leave(c)

TxSpec == TxInit /\ [][TxNext]_txVars

(* A call runs on until it is answered, and waits for the lock no longer   *)
(* than the busy timeout.                                                  *)
TxFairSpec == TxSpec /\ \A c \in Conns : WF_txVars(Statement(c) \/ BusyTimeout(c))

-----------------------------------------------------------------------------
(* Types, and the write lock: it is held exactly by a connection inside    *)
(* its transaction, of which there is one at most.                         *)
TxTypeOK ==
    /\ StoreTypeOK
    /\ call \in [Conns -> Calls \cup {Null}]
    /\ result \in [Conns -> {"none", "yes", "no", "error"}]
    /\ before \in [Conns -> SUBSET Phrases]
    /\ stage \in [Conns -> {"idle", "ready", "insert", "exists", "check", "pin", "commit", "done"}]
    /\ writer \in Conns \cup {Null}
    /\ draft \in Draft \cup {Null}
    /\ writer = Null <=> draft = Null
    /\ \A c \in Conns :
         /\ writer = c <=> InTransaction(c)
         /\ stage[c] = "idle" <=> call[c] = Null
         /\ stage[c] = "done" <=> result[c] # "none"

(* What a connection has found out by its earlier statements is still so   *)
(* when it executes the next one, whatever the others did meanwhile: its   *)
(* transaction sees the committed tables but for its own use and pin, the  *)
(* use is its to take, and of a phrase that was there all along it knows   *)
(* that it is revoked.                                                     *)
TransactionInv(c) ==
    LET q == call[c]
        u == <<q.phrase, q.host>>
    IN  InTransaction(c) =>
          /\ q.op = "enroll"
          /\ draft.uses = [uses EXCEPT ![u] = IF @ = Null THEN q.txn ELSE @]
          /\ stage[c] # "commit" => draft.pins = pins
          /\ stage[c] = "commit" =>
               draft.pins = [pins EXCEPT ![q.host] = [key |-> q.key, phrase |-> q.phrase]]
          /\ stage[c] = "check" => uses[u] # Null
          /\ stage[c] # "check" => MayEnroll(q.phrase, q.host, q.txn)

BetweenInv(c) ==
    /\ before[c] \subseteq OnRecord
    /\ stage[c] = "insert" => call[c].op = "add" /\ call[c].future
    /\ stage[c] = "exists" =>
         /\ call[c].op = "revoke"
         /\ call[c].phrase \in before[c] => phrases[call[c].phrase].revoked # Null

TxInv == TxTypeOK /\ \A c \in Conns : TransactionInv(c) /\ BetweenInv(c)

(* Statement by statement, with every connection running beside every      *)
(* other, store.go still does each call in one step or not at all, and     *)
(* answers accordingly: of two that add one phrase one succeeds, of two    *)
(* that use it up one does, no use is left without its pin.                *)
ImplementsStoreCalls == Spec

(* Whatever Enroll returns and wherever it fails, the write lock is given  *)
(* back: no call leaves its transaction open for the others to time out on.*)
LockIsReleased == \A c \in Conns : writer = c ~> writer # c
=============================================================================
