----------------------------- MODULE DeviceList -----------------------------
(***************************************************************************)
(* What the handlers take allowlist.Lookup for: a call that either fails   *)
(* or answers from the list as it was at one moment between the call and   *)
(* the answer.  Webhook reads its list in one step on the strength of it;  *)
(* Allowlist implements it.                                                *)
(***************************************************************************)
CONSTANTS Readers, Lists, Valid, Null

VARIABLES
    list,       \* the list as it is on disk, Null when there is none
    call,       \* where each reader's call is
    result      \* what the call will answer, Null for an error

vars == <<list, call, result>>

Init ==
    /\ list \in Lists
    /\ call = [r \in Readers |-> "none"]
    /\ result = [r \in Readers |-> Null]

Publish ==
    /\ list' \in Lists \cup {Null}
    /\ UNCHANGED <<call, result>>

Ask(r) ==
    /\ call[r] = "none"
    /\ call' = [call EXCEPT ![r] = "asked"]
    /\ UNCHANGED <<list, result>>

(* The moment the answer is true of. *)
Read(r) ==
    /\ call[r] = "asked"
    /\ call' = [call EXCEPT ![r] = "decided"]
    /\ result' = [result EXCEPT ![r] = IF list \in Valid THEN list ELSE Null]
    /\ UNCHANGED list

Reply(r) ==
    /\ call[r] = "decided"
    /\ call' = [call EXCEPT ![r] = "answered"]
    /\ UNCHANGED <<list, result>>

Fail(r) ==
    /\ call[r] \in {"asked", "decided"}
    /\ call' = [call EXCEPT ![r] = "answered"]
    /\ result' = [result EXCEPT ![r] = Null]
    /\ UNCHANGED list

Forget(r) ==
    /\ call[r] = "answered"
    /\ call' = [call EXCEPT ![r] = "none"]
    /\ result' = [result EXCEPT ![r] = Null]
    /\ UNCHANGED list

Next ==
    \/ Publish
    \/ \E r \in Readers : Ask(r) \/ Read(r) \/ Reply(r) \/ Fail(r) \/ Forget(r)

Spec == Init /\ [][Next]_vars
=============================================================================
