----------------------------- MODULE MCStoreTx -----------------------------
(* A small instance of StoreTx for TLC. *)
EXTENDS StoreTx

CONSTANTS a, b, h1, h2, p1, k1, k2, t1, t2

EnrollAs(n, t, k) == [op |-> "enroll", phrase |-> p1, host |-> n, txn |-> t, key |-> k]

(* Every operation: two keys of one host after one phrase, one of them     *)
(* also without a transaction ID, and another host under the same ID.      *)
AllCalls ==
    {[op |-> "add", phrase |-> p1, future |-> f, expires |-> 0] : f \in BOOLEAN}
        \cup {[op |-> "revoke", phrase |-> p1, now |-> 0],
              [op |-> "clear", host |-> h1], [op |-> "reset", host |-> h1]}
        \cup {EnrollAs(h1, t1, k1), EnrollAs(h1, t2, k2), EnrollAs(h1, NoTxn, k2),
              EnrollAs(h2, t1, k1)}
=============================================================================
