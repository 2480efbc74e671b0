----------------------------- MODULE Enrollment -----------------------------
(***************************************************************************)
(* What the webhook promises, without requests, handlers or tables: a      *)
(* phrase buys a host one key, or what keys one transaction asks for, the  *)
(* host is pinned to the key bought last, and certificates are for keys    *)
(* that were bought.                                                       *)
(***************************************************************************)
CONSTANTS Phrases, Hosts, Keys, Txns, NoTxn, Null

VARIABLES
    bought,     \* [phrase, host, txn, key]: what has been bought since the host's reset
    pinned,     \* the key a host may renew with, or Null
    enrolled,   \* <<host, key>>: every key ever bought
    certs       \* <<host, key>>: every certificate issued

vars == <<bought, pinned, enrolled, certs>>

Init ==
    /\ bought = {}
    /\ pinned = [h \in Hosts |-> Null]
    /\ enrolled = {}
    /\ certs = {}

(* Coming back under the same, named, transaction, however late, is all    *)
(* that brings an old pin back.                                            *)
Buy(p, h, t, k) ==
    /\ \A b \in bought : b.phrase = p /\ b.host = h => b.txn = t /\ t # NoTxn
    /\ bought' = bought \cup {[phrase |-> p, host |-> h, txn |-> t, key |-> k]}
    /\ enrolled' = enrolled \cup {<<h, k>>}
    /\ pinned' = [pinned EXCEPT ![h] = k]
    /\ UNCHANGED certs

Issue(h, k) ==
    /\ <<h, k>> \in enrolled
    /\ certs' = certs \cup {<<h, k>>}
    /\ UNCHANGED <<bought, pinned, enrolled>>

(* The administrator: uses reset, pins clear.                              *)
Reset(h) ==
    /\ bought' = {b \in bought : b.host # h}
    /\ UNCHANGED <<pinned, enrolled, certs>>

Unpin(h) ==
    /\ pinned' = [pinned EXCEPT ![h] = Null]
    /\ UNCHANGED <<bought, enrolled, certs>>

Next ==
    \E h \in Hosts :
        \/ \E p \in Phrases, t \in Txns, k \in Keys : Buy(p, h, t, k)
        \/ \E k \in Keys : Issue(h, k)
        \/ Reset(h)
        \/ Unpin(h)

Spec == Init /\ [][Next]_vars
=============================================================================
