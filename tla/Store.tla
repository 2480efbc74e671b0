------------------------------- MODULE Store -------------------------------
(***************************************************************************)
(* The webhook's database (webhook/internal/store/store.go): the phrases,  *)
(* which host has used which phrase, and the key each host is pinned to.   *)
(*                                                                         *)
(* Every operation is one SQL statement or one transaction, so each is one *)
(* step here.  A phrase stands for its row id too: the text is UNIQUE and  *)
(* rows are never deleted.  Timestamps nobody reads back (created_at,      *)
(* used_at, set_at) are left out.                                          *)
(***************************************************************************)
EXTENDS Naturals

CONSTANTS
    Phrases,    \* enrollment phrases an administrator may add
    Hosts,      \* normalised hostnames
    Keys,       \* public keys (PKIX DER)
    Txns,       \* SCEP transaction IDs, the empty one among them
    NoTxn,      \* the empty transaction ID
    Null        \* SQL NULL, "no such row"

PhraseRow == [expires : Nat, revoked : Nat \cup {Null}]

PinRow == [key : Keys, phrase : Phrases]

ASSUME StoreAssumption ==
    /\ NoTxn \in Txns
    /\ Null \notin Nat
    /\ Null \notin Txns
    /\ Null \notin Keys
    /\ Null \notin Hosts
    /\ Null \notin PhraseRow \cup PinRow

VARIABLES
    phrases,    \* table phrases: phrase -> its row, or Null
    uses,       \* table uses: <<phrase, host>> -> txn of the use, or Null
    pins        \* table pins: host -> [key, phrase], or Null

storeVars == <<phrases, uses, pins>>

(* Every row a table can hold: a use or a pin never lacks its columns.     *)
StoreTypeOK ==
    /\ phrases \in [Phrases -> PhraseRow \cup {Null}]
    /\ uses \in [Phrases \X Hosts -> Txns \cup {Null}]
    /\ pins \in [Hosts -> PinRow \cup {Null}]

StoreInit ==
    /\ phrases = [p \in Phrases |-> Null]
    /\ uses = [u \in Phrases \X Hosts |-> Null]
    /\ pins = [h \in Hosts |-> Null]

-----------------------------------------------------------------------------
IsActive(row, now) == row.revoked = Null /\ row.expires > now

ActivePhrases(now) ==
    {p \in Phrases : phrases[p] # Null /\ IsActive(phrases[p], now)}

(* A phrase that exists already is refused and nothing changes.  That the  *)
(* expiry lies ahead was checked before, in nanoseconds and against a time *)
(* the caller had read; the row keeps its whole seconds, and by the time   *)
(* it is there that second may have come or gone.                          *)
AddPhrase(p, expires) ==
    /\ phrases[p] = Null
    /\ phrases' = [phrases EXCEPT ![p] = [expires |-> expires, revoked |-> Null]]
    /\ UNCHANGED <<uses, pins>>

(* Revoking twice is not an error; the first revocation time stays.        *)
RevokePhrase(p, now) ==
    /\ phrases[p] # Null
    /\ phrases' = IF phrases[p].revoked = Null
                  THEN [phrases EXCEPT ![p].revoked = now]
                  ELSE phrases
    /\ UNCHANGED <<uses, pins>>

(* Slips for the mutants: any named transaction may come back; a blank one *)
(* counts as a retry of a blank one; no retry is recognised.               *)
MayEnrollAnyTxn(p, h, txn) == uses[<<p, h>>] = Null \/ txn # NoTxn
MayEnrollBlank(p, h, txn) == uses[<<p, h>>] = Null \/ uses[<<p, h>>] = txn
MayEnrollOnce(p, h, txn) == uses[<<p, h>>] = Null

(* The insert into uses took effect, or the row that was there belongs to  *)
(* the same, named, transaction.                                           *)
MayEnroll(p, h, txn) ==
    \/ uses[<<p, h>>] = Null
    \/ txn # NoTxn /\ uses[<<p, h>>] = txn

(* Slip: the upsert leaves the old key in place. *)
EnrollKeepsOldKey(p, h, txn, key) ==
    /\ MayEnroll(p, h, txn)
    /\ uses' = [uses EXCEPT ![<<p, h>>] = IF @ = Null THEN txn ELSE @]
    /\ pins' = [pins EXCEPT ![h] = IF @ = Null THEN [key |-> key, phrase |-> p]
                                    ELSE [@ EXCEPT !.phrase = p]]
    /\ UNCHANGED phrases

(* One transaction: the use and the pin are written together.              *)
Enroll(p, h, txn, key) ==
    /\ MayEnroll(p, h, txn)
    /\ uses' = [uses EXCEPT ![<<p, h>>] = IF @ = Null THEN txn ELSE @]
    /\ pins' = [pins EXCEPT ![h] = [key |-> key, phrase |-> p]]
    /\ UNCHANGED phrases

IsPinned(h, key) == pins[h] # Null /\ pins[h].key = key

ClearPin(h) ==
    /\ pins[h] # Null
    /\ pins' = [pins EXCEPT ![h] = Null]
    /\ UNCHANGED <<phrases, uses>>

ResetUses(h) ==
    /\ \E p \in Phrases : uses[<<p, h>>] # Null
    /\ uses' = [u \in Phrases \X Hosts |-> IF u[2] = h THEN Null ELSE uses[u]]
    /\ UNCHANGED <<phrases, pins>>
=============================================================================
