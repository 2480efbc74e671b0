---------------------------- MODULE MCAllowlist ----------------------------
(* Small instances of Allowlist for TLC. *)
EXTENDS Allowlist, TLC

CONSTANTS x, y, r1, r2

(* One of four files does not parse; two that do have the same size.       *)
MyValid == [1..2 -> {x, y}] \ {<<y, y>>}
MySize == [d \in [1..2 -> {x, y}] |-> IF d = <<x, x>> THEN 2 ELSE 1]

ReaderSymmetry == Permutations(Readers)
=============================================================================
