---------------------------- MODULE MCKeyPair ----------------------------
(* Small instances of KeyPair for TLC. *)
EXTENDS KeyPair, TLC

CONSTANTS a, b, c, r1, r2

Pair(x, y) == [f \in Parts |-> IF f = "crt" THEN x ELSE y]

(* A renewal that takes a new key, and one that keeps the key.             *)
Renewals == {Pair(a, a), Pair(b, b), Pair(c, b)}
NewKey == {Pair(a, a), Pair(b, b)}

ReaderSymmetry == Permutations(Readers)
=============================================================================
