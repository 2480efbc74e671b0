----------------------------- MODULE MCInstall -----------------------------
(* Small instances of Install for TLC. *)
EXTENDS Install, TLC

CONSTANTS mac, p, k1, k2, k3

InstallSymmetry == Permutations(Keys)
=============================================================================
