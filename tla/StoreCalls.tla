----------------------------- MODULE StoreCalls -----------------------------
(***************************************************************************)
(* What the callers of store.go may rely on: a call takes effect in one    *)
(* step at one moment between being made and being answered, or not at     *)
(* all, and the answer tells which, except that after an error the caller  *)
(* cannot know.                                                            *)
(***************************************************************************)
EXTENDS Store

CONSTANTS
    Conns,      \* callers: handlers of the server, admin processes
    Calls       \* calls they may make

(* future: the expiry asked for lies after the caller's own time.          *)
Call == [op : {"add"}, phrase : Phrases, future : BOOLEAN, expires : Nat]
            \cup [op : {"revoke"}, phrase : Phrases, now : Nat]
            \cup [op : {"enroll"}, phrase : Phrases, host : Hosts, txn : Txns, key : Keys]
            \cup [op : {"clear", "reset"}, host : Hosts]

ASSUME CallsAssumption ==
    /\ Calls \subseteq Call
    /\ Null \notin Calls

VARIABLES
    call,       \* the call a connection is making, or Null
    result,     \* "none" until it is answered: "yes" it did it, "no" it refused, "error"
    before      \* the phrases there were when the call was made

callVars == <<call, result, before>>
vars == <<storeVars, callVars>>

Init ==
    /\ StoreInit
    /\ call = [c \in Conns |-> Null]
    /\ result = [c \in Conns |-> "none"]
    /\ before = [c \in Conns |-> {}]

OnRecord == {p \in Phrases : phrases[p] # Null}

(* The server enrolls with phrases it has read, and rows are never deleted. *)
Make(c) ==
    /\ call[c] = Null
    /\ \E q \in Calls :
         /\ q.op = "enroll" => q.phrase \in OnRecord
         /\ call' = [call EXCEPT ![c] = q]
    /\ before' = [before EXCEPT ![c] = OnRecord]
    /\ UNCHANGED <<storeVars, result>>

Answer(c, r) ==
    /\ call[c] # Null
    /\ result[c] = "none"
    /\ result' = [result EXCEPT ![c] = r]
    /\ UNCHANGED <<call, before>>

Effect(q) ==
    \/ q.op = "add" /\ q.future /\ AddPhrase(q.phrase, q.expires)
    \/ q.op = "revoke" /\ RevokePhrase(q.phrase, q.now)
    \/ q.op = "enroll" /\ Enroll(q.phrase, q.host, q.txn, q.key)
    \/ q.op = "clear" /\ ClearPin(q.host)
    \/ q.op = "reset" /\ ResetUses(q.host)

Refused(q) ==
    \/ q.op = "add" /\ phrases[q.phrase] # Null
    \/ q.op = "revoke" /\ phrases[q.phrase] = Null
    \/ q.op = "enroll" /\ ~MayEnroll(q.phrase, q.host, q.txn)
    \/ q.op = "clear" /\ pins[q.host] = Null
    \/ q.op = "reset" /\ \A p \in Phrases : uses[<<p, q.host>>] = Null

(* An error may hide that the call took effect: the process died after it. *)
Perform(c) ==
    \E r \in {"yes", "error"} : Answer(c, r) /\ Effect(call[c])

Refuse(c) ==
    Answer(c, "no") /\ Refused(call[c]) /\ UNCHANGED storeVars

Fail(c) ==
    Answer(c, "error") /\ UNCHANGED storeVars

(* RevokePhrase is the exception: of a phrase that was added only after    *)
(* the call was made it may say that it revoked it and not have done it.   *)
Overlook(c) ==
    /\ Answer(c, "yes")
    /\ call[c].op = "revoke"
    /\ call[c].phrase \in OnRecord \ before[c]
    /\ UNCHANGED storeVars

Take(c) ==
    /\ result[c] # "none"
    /\ call' = [call EXCEPT ![c] = Null]
    /\ result' = [result EXCEPT ![c] = "none"]
    /\ before' = [before EXCEPT ![c] = {}]
    /\ UNCHANGED storeVars

Next ==
    \E c \in Conns : Make(c) \/ Perform(c) \/ Refuse(c) \/ Fail(c) \/ Overlook(c) \/ Take(c)

Spec == Init /\ [][Next]_vars
=============================================================================
