----------------------------- MODULE MCWebhook -----------------------------
(* Small instances of Webhook for TLC. *)
EXTENDS Webhook, TLC

CONSTANTS h1, h2, k1, k2, t1, t2, p1, p2, s1, s2, a, b

(* Requests, as step-ca would present them. *)
EnrollAs(h, s, k, t, p) == [genuine |-> TRUE, prov |-> "enroll", host |-> h,
                            key |-> k, txn |-> t, chal |-> <<p, s>>]
RenewAs(h, k, t) == [genuine |-> TRUE, prov |-> "renew", host |-> h,
                     key |-> k, txn |-> t, chal |-> Null]
MyEnroll == EnrollAs(h1, s1, k1, t1, p1)

Single == 1..1
Short == 0..1
OneList == {[h \in Hosts |-> s1]}

(* Race: two keys of one host after one phrase, the second one under a     *)
(* transaction ID of its own and under the first one's.                    *)
RaceRequests == {MyEnroll, EnrollAs(h1, s1, k2, t2, p1), EnrollAs(h1, s1, k2, t1, p1)}

(* Input: an allowlist that drops a host, moves its serial to another one  *)
(* or does not load, and a phrase that expires, within its first second    *)
(* perhaps, under an enrollment with and without a transaction ID,         *)
(* renewals with the key for its host and for another, and what a handler  *)
(* turns away on sight.                                                    *)
MovingLists == {h1 :> s1 @@ h2 :> s2, h1 :> Null @@ h2 :> s1, Null}
InputRequests ==
    {MyEnroll, [MyEnroll EXCEPT !.txn = NoTxn], [MyEnroll EXCEPT !.txn = NoTxn, !.key = k2],
     [MyEnroll EXCEPT !.chal = Null], [MyEnroll EXCEPT !.chal = <<p1, s2>>],
     [MyEnroll EXCEPT !.genuine = FALSE], [MyEnroll EXCEPT !.prov = "other"],
     [MyEnroll EXCEPT !.host = Null], [MyEnroll EXCEPT !.key = Null, !.txn = NoTxn],
     RenewAs(h1, k1, t1), RenewAs(h2, k1, t1)}

(* Revoked: two keys of one host after one phrase. *)
RevokedRequests == {MyEnroll, EnrollAs(h1, s1, k2, t2, p1)}

SlotSymmetry == Permutations(Slots)
=============================================================================
