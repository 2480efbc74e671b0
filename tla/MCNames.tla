------------------------------ MODULE MCNames ------------------------------
(* An instance of Names for TLC. *)
EXTENDS Names

CONSTANT NoText     \* the value of Error

Alphabet == {"a", "A", "b", ".", ",", "-", "#", " ", "cr", "nl", "vt", "dotless"}

(* Nothing, a list of one device, and a common name with the start of a    *)
(* DNS name.                                                               *)
Drafts == {<<>>, <<"a", ",", "b", "nl">>, <<"a", "nl", "a">>}
=============================================================================
