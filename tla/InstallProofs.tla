--------------------------- MODULE InstallProofs ---------------------------
(***************************************************************************)
(* Proofs about Install, for any number of keys, certificates, phrases and *)
(* tries: a run of the script, interrupted and refused anywhere.           *)
(***************************************************************************)
EXTENDS Install, TLAPS

-----------------------------------------------------------------------------
(* The tables.                                                             *)

LEMMA DirsAreTwo == "main" \in Dirs /\ "scratch" \in Dirs /\ \A d \in Dirs : d \in {"main", "scratch"}
BY DEF Dirs

LEMMA EnrollType ==
    ASSUME StoreTypeOK, NEW p \in Phrases, NEW k \in Keys, Enroll(p, host, k, k)
    PROVE  /\ StoreTypeOK'
           /\ pins'[host] # Null /\ pins'[host].key = k
<1>1. k \in Txns /\ host \in Hosts /\ [key |-> k, phrase |-> p] \in PinRow
  BY InstallAssumption DEF PinRow
<1>2. uses' \in [Phrases \X Hosts -> Txns \cup {Null}]
  BY <1>1 DEF StoreTypeOK, Enroll
<1>3. pins' = [pins EXCEPT ![host] = [key |-> k, phrase |-> p]] /\ phrases' = phrases
  BY DEF Enroll
<1>4. [key |-> k, phrase |-> p] # Null
  BY <1>1, StoreAssumption
<1>5. QED BY <1>1, <1>2, <1>3, <1>4 DEF StoreTypeOK

LEMMA AdminType ==
    ASSUME StoreTypeOK, ClearPin(host) \/ ResetUses(host)
    PROVE  /\ StoreTypeOK'
           /\ pins'[host] \in {pins[host], Null}
BY InstallAssumption DEF StoreTypeOK, ClearPin, ResetUses

(* An allowed request, old or new, leaves its key pinned.                  *)
LEMMA AllowedIsPinned ==
    ASSUME IInv, pc = "sent", Allow
    PROVE  /\ StoreTypeOK'
           /\ pins'[host] # Null /\ pins'[host].key = key[dir]
           /\ csr[dir].key = key[dir] /\ key[dir] \in Keys
<1>1. csr[dir].key = key[dir] /\ key[dir] \in Keys /\ csr[dir].chal = Wanted /\ StoreTypeOK
  <2>1. csr[dir] = [key |-> key[dir], chal |-> Wanted] /\ key[dir] # Null
    BY DEF IInv, RequestInv, RequestIsCurrent
  <2>2. key[dir] \in Keys \cup {Null} /\ StoreTypeOK
    BY DEF IInv, TypeOK
  <2>3. QED BY <2>1, <2>2
<1>2. CASE IsPinned(host, csr[dir].key) /\ UNCHANGED storeVars
  BY <1>1, <1>2 DEF IsPinned, storeVars, StoreTypeOK
<1>3. CASE /\ csr[dir].chal \in ActivePhrases(Now)
           /\ Enroll(csr[dir].chal, host, csr[dir].key, csr[dir].key)
  BY <1>1, <1>3, EnrollType DEF ActivePhrases
<1>4. QED BY <1>1, <1>2, <1>3 DEF Allow

-----------------------------------------------------------------------------
(* The initial state.                                                      *)

LEMMA InitInv == Init => IInv
<1> SUFFICES ASSUME Init PROVE IInv
  OBVIOUS
<1> USE DirsAreTwo, InstallAssumption
<1>1. StoreTypeOK
  BY StoreAssumption DEF Init, StoreTypeOK, PhraseRow, Now
<1>2. /\ Empty \in [Dirs -> Keys \cup {Null}] /\ Empty \in [Dirs -> Cert \cup {Null}]
      /\ Empty \in [Dirs -> Csr \cup {Null}] /\ Empty["scratch"] = Null /\ Empty["main"] = Null
  BY DEF Empty
<1>3. NoEnv \in Env /\ NothingNoted \in [renewal : BOOLEAN, key : BOOLEAN, old : SUBSET Cert]
  BY DEF NoEnv, Env, NothingNoted
<1>4. TypeOK
  <2>1. 1 \in 1..SCEP_ATTEMPTS
    OBVIOUS
  <2>2. before \in [key : Keys \cup {Null}, cert : Cert \cup {Null}] /\ keychain \subseteq Cert
    BY DEF Init
  <2>3. QED BY <1>1, <1>2, <1>3, <2>1, <2>2 DEF Init, TypeOK
<1>5. DirInv /\ BackupInv /\ BeforeInv /\ RequestInv /\ IssuedInv /\ HeldInv
  BY <1>2 DEF Init, DirInv, BackupInv, BeforeInv, RequestInv, IssuedInv, HeldInv, RequestIsCurrent,
         FailedRunLeavesFiles, PinnedKeyIsHeld, Asking, Moving, Placing
<1>6. QED BY <1>4, <1>5 DEF IInv

-----------------------------------------------------------------------------
(* Types.                                                                  *)

LEMMA AttemptsAreCounted == SCEP_ATTEMPTS \in Nat /\ 1 \in 1..SCEP_ATTEMPTS
<1>1. SCEP_ATTEMPTS \in Nat \ {0}
  BY InstallAssumption, Zenon
<1>2. QED BY <1>1

LEMMA SameTables ==
    ASSUME UNCHANGED storeVars
    PROVE  StoreTypeOK <=> StoreTypeOK'
BY DEF storeVars, StoreTypeOK

LEMMA FailsType ==
    ASSUME TypeOK, AttemptFails
    PROVE  /\ key' \in [Dirs -> Keys \cup {Null}] /\ cert' \in [Dirs -> Cert \cup {Null}]
           /\ self' \in [Dirs -> Keys \cup {Null}] /\ csr' \in [Dirs -> Csr \cup {Null}]
           /\ pc' \in {"prepare", "failed"} /\ dir' \in Dirs
           /\ action' \in {"enroll", "renew"} /\ attempt' \in 1..SCEP_ATTEMPTS
           /\ dir' = "main" => /\ Null = key'["scratch"] /\ Null = cert'["scratch"]
                              /\ Null = csr'["scratch"]
<1> USE DirsAreTwo DEF TypeOK
<1>0. SCEP_ATTEMPTS \in Nat /\ 1 \in 1..SCEP_ATTEMPTS
  BY AttemptsAreCounted
<1>1. CASE Retry
  <2>1. attempt' \in 1..SCEP_ATTEMPTS
    <3>1. attempt \in 1..SCEP_ATTEMPTS /\ attempt < SCEP_ATTEMPTS /\ attempt' = attempt + 1
      BY <1>1 DEF Retry
    <3>2. QED
      <4> HIDE DEF TypeOK
      <4>1. QED BY <1>0, <3>1
  <2>2. QED BY <1>1, <2>1 DEF Retry
<1>2. CASE FallBack
  BY <1>0, <1>2 DEF FallBack
<1>3. CASE GiveUp
  BY <1>3 DEF GiveUp, RemoveScratch
<1>4. QED BY <1>1, <1>2, <1>3 DEF AttemptFails

LEMMA FinishType ==
    ASSUME NEW how \in {"ok", "failed", "no certificate", "not imported", "interrupted"}, Finish(how)
    PROVE  /\ pc' = "idle" /\ result' = how /\ env' \in Env /\ action' = "enroll"
           /\ attempt' \in 1..SCEP_ATTEMPTS
           /\ noted' \in [renewal : BOOLEAN, key : BOOLEAN, old : SUBSET Cert]
<1>1. attempt' \in 1..SCEP_ATTEMPTS
  <2>1. 1 \in 1..SCEP_ATTEMPTS
    BY AttemptsAreCounted
  <2>2. QED BY <2>1 DEF Finish
<1>2. QED BY <1>1 DEF Finish, NoEnv, Env, NothingNoted

(* TypeOK in two halves: what lies on the disk, and what the run knows.    *)
FilesTyped ==
    /\ key \in [Dirs -> Keys \cup {Null}]
    /\ cert \in [Dirs -> Cert \cup {Null}]
    /\ self \in [Dirs -> Keys \cup {Null}]
    /\ csr \in [Dirs -> Csr \cup {Null}]
    /\ bak \in Cert \cup {Null}
    /\ keychain \subseteq Cert
    /\ dir \in Dirs
    /\ dir = "main" => Null = key["scratch"] /\ Null = cert["scratch"] /\ Null = csr["scratch"]

RunTyped ==
    /\ pc \in {"idle", "backup", "prepare", "scepclient", "sent", "movekey", "movecert", "issued",
               "failed", "restore", "import", "supersede", "protect", "delete"}
    /\ env \in Env
    /\ action \in {"enroll", "renew"}
    /\ attempt \in 1..SCEP_ATTEMPTS
    /\ noted \in [renewal : BOOLEAN, key : BOOLEAN, old : SUBSET Cert]
    /\ result \in {"ok", "failed", "no certificate", "not imported", "interrupted"}
    /\ before \in [key : Keys \cup {Null}, cert : Cert \cup {Null}]
    /\ mishap \in BOOLEAN

LEMMA InHalves == TypeOK => StoreTypeOK /\ FilesTyped /\ RunTyped
BY DEF TypeOK, FilesTyped, RunTyped

LEMMA FromHalves ==
    ASSUME StoreTypeOK', FilesTyped', RunTyped'
    PROVE  TypeOK'
BY DEF TypeOK, FilesTyped, RunTyped

(* Without a certificate nothing in the directories changes.               *)
LEMMA NothingFrame ==
    ASSUME IInv, NothingIssued
    PROVE  /\ pc = "sent" /\ pc' = IF dir = "scratch" THEN "movekey" ELSE "issued"
           /\ mishap' /\ StoreTypeOK'
           /\ UNCHANGED <<key, cert, self, csr, bak, keychain>>
           /\ UNCHANGED <<dir, env, action, attempt, noted, before, result>>
<1>1. StoreTypeOK
  BY DEF IInv, TypeOK
<1>2. StoreTypeOK'
  BY <1>1, AllowedIsPinned, SameTables DEF NothingIssued
<1>3. QED BY <1>2 DEF NothingIssued, fileVars, runVars

LEMMA TypeStep == ASSUME IInv, [Next]_vars PROVE TypeOK'
<1> USE DirsAreTwo DEF TypeOK, fileVars, runVars
<1>a. UNCHANGED storeVars => (StoreTypeOK <=> StoreTypeOK')
  BY SameTables
<1>0. TypeOK
  BY DEF IInv
<1>1. CASE Begin
  <2>1. 1 \in 1..SCEP_ATTEMPTS
    BY AttemptsAreCounted
  <2>2. /\ noted' \in [renewal : BOOLEAN, key : BOOLEAN, old : SUBSET Cert]
        /\ before' \in [key : Keys \cup {Null}, cert : Cert \cup {Null}]
        /\ action' \in {"enroll", "renew"}
    BY <1>0, <1>a, <1>1 DEF Begin
  <2>3. dir = "main"
    BY <1>1 DEF Begin, IInv, DirInv, Moving
  <2>4. QED BY <1>0, <1>a, <1>1, <2>1, <2>2, <2>3 DEF Begin
<1>2. CASE BackUp
  BY <1>0, <1>a, <1>2 DEF BackUp
<1>3. CASE Prepare
  BY <1>0, <1>a, <1>3 DEF Prepare
<1>4. CASE ScepclientFiles
  <2>1. key' \in [Dirs -> Keys \cup {Null}] /\ key'[dir] \in Keys /\ dir \in Dirs
    <3>1. CASE key[dir] # Null /\ UNCHANGED key
      BY <1>0, <1>a, <3>1
    <3>2. ASSUME NEW k \in Keys, key' = [key EXCEPT ![dir] = k]
          PROVE  key' \in [Dirs -> Keys \cup {Null}] /\ key'[dir] \in Keys
      BY <1>0, <1>a, <3>2
    <3>3. QED BY <1>0, <1>a, <1>4, <3>1, <3>2 DEF ScepclientFiles, FreshKeys
  <2>2. Wanted \in Phrases \cup {Null}
    BY <1>0 DEF Wanted, Env
  <2>3. [key |-> key'[dir], chal |-> Wanted] \in Csr
    BY <2>1, <2>2 DEF Csr
  <2>4. self' \in [Dirs -> Keys \cup {Null}] /\ csr' \in [Dirs -> Csr \cup {Null}]
    BY <1>0, <1>4, <2>1, <2>3 DEF ScepclientFiles
  <2>5. dir = "main" => Null = key'["scratch"] /\ Null = csr'["scratch"]
    BY <1>0, <1>4 DEF ScepclientFiles
  <2>6. FilesTyped'
    BY <1>0, <1>4, <2>1, <2>4, <2>5 DEF ScepclientFiles, FilesTyped
  <2>7. RunTyped'
    BY <1>0, <1>4 DEF ScepclientFiles, RunTyped
  <2>8. StoreTypeOK'
    BY <1>0, <1>a, <1>4 DEF ScepclientFiles
  <2>9. QED
    <3> HIDE DEF TypeOK
    <3>1. QED BY <2>6, <2>7, <2>8, FromHalves
<1>5. CASE ScepclientFails \/ Refused
  BY <1>0, <1>a, <1>5, FailsType DEF ScepclientFails, Refused
<1>6. CASE AnswerLost
  BY <1>0, <1>a, <1>6, FailsType, AllowedIsPinned DEF AnswerLost
<1>7. CASE Issued
  <2>1. PICK i \in FreshIds : cert' = [cert EXCEPT ![dir] = [key |-> csr[dir].key, id |-> i]]
    BY <1>7 DEF Issued
  <2>2. [key |-> csr[dir].key, id |-> i] \in Cert
    BY <1>7, AllowedIsPinned DEF Issued, Cert, FreshIds
  <2>3. QED BY <1>0, <1>a, <1>7, <2>1, <2>2, AllowedIsPinned DEF Issued
<1>8. CASE MoveKey
  BY <1>0, <1>a, <1>8 DEF MoveKey
<1>9. CASE MoveCert
  BY <1>0, <1>a, <1>9 DEF MoveCert, Empty
<1>10. CASE CleanUp
  BY <1>0, <1>a, <1>10 DEF CleanUp
<1>11. CASE Restore
  BY <1>0, <1>a, <1>11, FinishType DEF Restore
<1>12. CASE NoteOld \/ Import
  <2>1. CASE NoteOld
    BY <1>0, <1>a, <2>1 DEF NoteOld
  <2>2. CASE Import
    <3>1. cert["main"] \in Cert
      BY <1>0, <2>2 DEF Import, IInv, BackupInv, Placing
    <3>2. QED BY <1>0, <1>a, <2>2, <3>1 DEF Import
  <2>3. QED BY <1>12, <2>1, <2>2
<1>13. CASE ImportFails
  BY <1>0, <1>a, <1>13, FinishType DEF ImportFails
<1>14. CASE Supersede
  <2>1. keychain' \subseteq Cert
    <3>1. keychain \subseteq Cert
      BY <1>0
    <3>2. keychain' \subseteq keychain
      BY <1>14 DEF Supersede
    <3>3. QED BY <3>1, <3>2
  <2>2. noted' \in [renewal : BOOLEAN, key : BOOLEAN, old : SUBSET Cert]
    <3>1. ASSUME NEW c \in noted.old, noted' = [noted EXCEPT !.old = @ \ {c}]
          PROVE  noted' \in [renewal : BOOLEAN, key : BOOLEAN, old : SUBSET Cert]
      <4>1. noted.old \ {c} \in SUBSET Cert
        BY <1>0
      <4>2. QED BY <1>0, <3>1, <4>1
    <3>2. QED BY <1>0, <1>14, <3>1 DEF Supersede
  <2>3. pc' \in {"supersede", "protect"}
    BY <1>14 DEF Supersede
  <2>4. UNCHANGED <<storeVars, key, cert, self, csr, bak, dir, env, action, attempt, before,
                    result, mishap>>
    BY <1>14 DEF Supersede
  <2>5. QED BY <1>0, <1>a, <2>1, <2>2, <2>3, <2>4
<1>15. CASE Protect
  BY <1>0, <1>a, <1>15, FinishType DEF Protect
<1>16. CASE DeleteRest
  BY <1>0, <1>a, <1>16, FinishType DEF DeleteRest
<1>17. CASE Interrupted
  BY <1>0, <1>a, <1>17, FinishType DEF Interrupted, RemoveScratch
<1>18. CASE Admin
  <2>1. StoreTypeOK'
    BY <1>0, <1>a, <1>18, AdminType DEF Admin
  <2>2. /\ UNCHANGED <<key, cert, self, csr, bak, keychain, pc>>
        /\ UNCHANGED <<dir, env, action, attempt, noted, before, result, mishap>>
    BY <1>18 DEF Admin
  <2> HIDE DEF TypeOK
  <2>3. FilesTyped'
    BY <1>0, <2>2, InHalves DEF FilesTyped
  <2>4. RunTyped'
    BY <1>0, <2>2, InHalves DEF RunTyped
  <2>5. QED BY <2>1, <2>3, <2>4, FromHalves
<1>19. CASE NothingIssued
  <2>1. /\ UNCHANGED <<key, cert, self, csr, bak, keychain, dir>> /\ StoreTypeOK'
        /\ UNCHANGED <<env, action, attempt, noted, result, before>>
        /\ pc' \in {"movekey", "issued"} /\ mishap' \in BOOLEAN
    BY <1>19, NothingFrame
  <2> HIDE DEF TypeOK
  <2>2. FilesTyped' /\ RunTyped'
    BY <1>0, <2>1, InHalves DEF FilesTyped, RunTyped
  <2>3. QED BY <2>1, <2>2, FromHalves
<1>20. CASE NothingToMove
  BY <1>0, <1>a, <1>20 DEF NothingToMove, RemoveScratch
<1>21. CASE NoCertificate
  BY <1>0, <1>a, <1>21, FinishType DEF NoCertificate
<1>22. CASE UNCHANGED vars
  <2>1. /\ UNCHANGED storeVars
        /\ UNCHANGED <<key, cert, self, csr, bak, keychain, pc>>
        /\ UNCHANGED <<dir, env, action, attempt, noted, before, result, mishap>>
    BY <1>22 DEF vars
  <2> HIDE DEF TypeOK
  <2>2. FilesTyped'
    BY <1>0, <2>1, InHalves DEF FilesTyped
  <2>3. RunTyped'
    BY <1>0, <2>1, InHalves DEF RunTyped
  <2>4. StoreTypeOK'
    BY <1>0, <1>a, <2>1, InHalves
  <2>5. QED BY <2>2, <2>3, <2>4, FromHalves
<1>23. QED
  BY <1>1, <1>2, <1>3, <1>4, <1>5, <1>6, <1>7, <1>8, <1>9, <1>10, <1>11, <1>12, <1>13,
     <1>14, <1>15, <1>16, <1>17, <1>18, <1>19, <1>20, <1>21, <1>22 DEF Next

-----------------------------------------------------------------------------
(* What a step comes to, whatever it is about.                             *)

Fails == (ScepclientFails \/ Refused \/ AnswerLost) /\ AttemptFails

LEMMA NextSteps ==
    Next <=> \/ Begin \/ BackUp \/ Prepare \/ ScepclientFiles
             \/ Fails \/ Issued \/ NothingIssued \/ MoveKey \/ NothingToMove \/ MoveCert
             \/ CleanUp \/ Restore \/ NoCertificate
             \/ NoteOld \/ Import \/ ImportFails \/ Supersede \/ Protect \/ DeleteRest
             \/ Interrupted \/ Admin
BY DEF Next, Fails, ScepclientFails, Refused, AnswerLost

(* A failed try never touches what lies in the certificate directory.      *)
LEMMA FailsFrame ==
    ASSUME TypeOK, Fails
    PROVE  /\ pc = "sent"
           /\ pc' = "prepare" \/ (pc' = "failed" /\ dir' = "main")
           /\ key'["main"] = key["main"] /\ cert'["main"] = cert["main"]
           /\ cert'["scratch"] \in {cert["scratch"], Null}
           /\ UNCHANGED <<bak, keychain, env, noted, before, result>>
           /\ (UNCHANGED <<pins, mishap>>) \/ mishap'
<1> USE DirsAreTwo DEF Fails, TypeOK
<1>1. CASE Retry
  BY <1>1 DEF Retry, ScepclientFails, Refused, AnswerLost, storeVars
<1>2. CASE FallBack
  BY <1>2 DEF FallBack, ScepclientFails, Refused, AnswerLost, storeVars
<1>3. CASE GiveUp
  BY <1>3 DEF GiveUp, RemoveScratch, ScepclientFails, Refused, AnswerLost, storeVars
<1>4. QED BY <1>1, <1>2, <1>3 DEF AttemptFails

(* Nor does a fallback that got none, or the failure that follows.         *)
LEMMA NotMovedFrame ==
    ASSUME TypeOK, NothingToMove
    PROVE  /\ pc = "movekey" /\ pc' = "issued" /\ dir' = "main"
           /\ cert["scratch"] = Null /\ cert'["scratch"] = Null
           /\ key'["main"] = key["main"] /\ cert'["main"] = cert["main"]
           /\ UNCHANGED <<bak, keychain, env, noted, before, result, mishap, pins>>
BY DirsAreTwo DEF TypeOK, NothingToMove, RemoveScratch, storeVars

LEMMA NoneFrame ==
    ASSUME IInv, NoCertificate
    PROVE  /\ pc = "issued" /\ pc' = "idle" /\ dir = "main" /\ result' = "no certificate"
           /\ cert["main"] = Null /\ UNCHANGED cert
           /\ UNCHANGED <<key, self, csr, bak, keychain, dir, before, mishap, pins>>
<1>1. bak = Null /\ dir = "main" /\ cert \in [Dirs -> Cert \cup {Null}]
  BY DEF IInv, TypeOK, BackupInv, DirInv, NoCertificate, Moving
<1>2. UNCHANGED cert
  BY <1>1, DirsAreTwo DEF NoCertificate
<1>3. QED BY <1>1, <1>2 DEF NoCertificate, Finish, storeVars

(* A certificate is new, for the key beside it and the one that is pinned. *)
LEMMA IssuedFrame ==
    ASSUME IInv, Issued
    PROVE  /\ pc = "sent" /\ pc' = IF dir = "scratch" THEN "movekey" ELSE "issued"
           /\ cert'[dir] # Null /\ cert'[dir].key = key[dir] /\ cert'[dir] \notin keychain
           /\ cert'[dir] # before.cert
           /\ dir = "scratch" => cert'["main"] = cert["main"]
           /\ pins'[host] # Null => pins'[host].key = key[dir]
           /\ UNCHANGED <<key, bak, keychain, dir, before, noted, result>>
<1>1. /\ csr[dir].key = key[dir] /\ key[dir] \in Keys
      /\ pins'[host] # Null => pins'[host].key = key[dir]
  BY AllowedIsPinned DEF Issued
<1>2. PICK i \in FreshIds : cert' = [cert EXCEPT ![dir] = [key |-> csr[dir].key, id |-> i]]
  BY DEF Issued
<1>3. dir \in Dirs /\ cert \in [Dirs -> Cert \cup {Null}]
  BY DEF IInv, TypeOK
<1>4. cert'[dir] = [key |-> key[dir], id |-> i]
  BY <1>1, <1>2, <1>3
<1>5. cert'[dir] \in Cert /\ cert'[dir] # Null
  BY <1>1, <1>4, InstallAssumption DEF Cert, FreshIds
<1>6. cert'[dir] \notin keychain
  BY <1>4 DEF FreshIds
<1>7. dir = "scratch" => cert'["main"] = cert["main"]
  BY <1>2, <1>3, DirsAreTwo
<1>8. cert'[dir] # before.cert
  <2>1. before.cert = cert["main"]
    BY DEF IInv, BeforeInv, Asking, Issued
  <2>2. cert["main"] # Null => cert'[dir].id # cert["main"].id
    BY <1>4 DEF FreshIds
  <2>3. QED BY <1>5, <2>1, <2>2
<1>9. QED BY <1>1, <1>4, <1>5, <1>6, <1>7, <1>8 DEF Issued, runVars

(* So does a run that is interrupted.                                      *)
LEMMA InterruptedFrame ==
    ASSUME TypeOK, Interrupted
    PROVE  /\ pc' = "idle" /\ dir' = "main" /\ result' = "interrupted" /\ mishap'
           /\ key'["main"] = key["main"] /\ cert'["main"] = cert["main"]
           /\ cert'["scratch"] = Null
           /\ UNCHANGED <<bak, keychain, before, pins>>
BY DirsAreTwo DEF TypeOK, Interrupted, Finish, RemoveScratch, storeVars

LEMMA AdminFrame ==
    ASSUME TypeOK, Admin
    PROVE  /\ UNCHANGED <<key, cert, self, csr, bak, keychain, pc>>
           /\ UNCHANGED <<dir, env, action, attempt, noted, before, result, mishap>>
           /\ pins'[host] \in {pins[host], Null}
BY AdminType DEF TypeOK, Admin, fileVars, runVars

LEMMA StutterFrame ==
    ASSUME UNCHANGED vars
    PROVE  /\ UNCHANGED <<key, cert, self, csr, bak, keychain, pc>>
           /\ UNCHANGED <<dir, env, action, attempt, noted, before, result, mishap, pins>>
BY DEF vars, fileVars, runVars, storeVars

-----------------------------------------------------------------------------
(* Each part of the invariant.                                             *)

LEMMA DirStep == ASSUME IInv, [Next]_vars PROVE DirInv'
<1> USE DirsAreTwo DEF DirInv, Moving, fileVars, runVars
<1>0. TypeOK /\ DirInv /\ cert \in [Dirs -> Cert \cup {Null}]
  BY DEF IInv, TypeOK
<1>1. CASE Begin \/ BackUp \/ Prepare \/ ScepclientFiles
  BY <1>0, <1>1 DEF Begin, BackUp, Prepare, ScepclientFiles
<1>2. CASE Fails
  BY <1>2, <1>0, FailsFrame
<1>3. CASE Issued
  <2>1. dir \in {"main", "scratch"}
    BY <1>0 DEF TypeOK
  <2>2. PICK i \in FreshIds : cert' = [cert EXCEPT ![dir] = [key |-> csr[dir].key, id |-> i]]
    BY <1>3 DEF Issued
  <2>3. QED BY <1>0, <1>3, <2>1, <2>2 DEF Issued
<1>4. CASE NothingIssued
  BY <1>0, <1>4, NothingFrame DEF TypeOK
<1>5. CASE NothingToMove \/ NoCertificate
  BY <1>0, <1>5, NotMovedFrame, NoneFrame
<1>6. CASE MoveKey \/ MoveCert \/ CleanUp \/ Restore
  BY <1>0, <1>6 DEF MoveKey, MoveCert, CleanUp, Restore, Finish
<1>7. CASE NoteOld \/ Import \/ ImportFails \/ Supersede \/ Protect \/ DeleteRest
  BY <1>0, <1>7 DEF NoteOld, Import, ImportFails, Supersede, Protect, DeleteRest, Finish
<1>8. CASE Interrupted
  BY <1>0, <1>8, InterruptedFrame
<1>9. CASE Admin
  BY <1>0, <1>9, AdminFrame
<1>10. CASE UNCHANGED vars
  BY <1>0, <1>10, StutterFrame
<1>11. QED BY <1>1, <1>2, <1>3, <1>4, <1>5, <1>6, <1>7, <1>8, <1>9, <1>10, NextSteps

LEMMA BackupStep == ASSUME IInv, [Next]_vars PROVE BackupInv'
<1> USE DirsAreTwo DEF BackupInv, Placing, fileVars, runVars
<1>0. /\ TypeOK /\ DirInv /\ BackupInv
      /\ cert \in [Dirs -> Cert \cup {Null}]
  BY DEF IInv, TypeOK
<1>1. CASE Begin \/ BackUp \/ Prepare \/ ScepclientFiles
  <2>1. pc = "backup" /\ noted.renewal => cert["main"] # Null
    BY DEF IInv, BeforeInv, Asking
  <2>2. QED BY <1>0, <1>1, <2>1 DEF Begin, BackUp, Prepare, ScepclientFiles
<1>2. CASE Fails
  BY <1>2, <1>0, FailsFrame
<1>3. CASE Issued
  <2>1. dir \in {"main", "scratch"}
    BY <1>0 DEF TypeOK
  <2>2. pc' \in {"movekey", "issued"} /\ UNCHANGED bak
    BY <1>3, IssuedFrame
  <2>3. cert["main"] # Null => cert'["main"] # Null
    BY <1>3, <2>1, IssuedFrame
  <2>4. QED BY <1>0, <2>2, <2>3
<1>4. CASE NothingIssued
  BY <1>0, <1>4, NothingFrame
<1>5. CASE NothingToMove \/ NoCertificate
  BY <1>0, <1>5, NotMovedFrame, NoneFrame
<1>6. CASE MoveKey \/ MoveCert \/ CleanUp \/ Restore
  <2>1. pc = "movecert" => cert["scratch"] # Null
    BY <1>0 DEF IInv, IssuedInv, DirInv, Moving, Got
  <2>2. QED BY <1>0, <1>6, <2>1 DEF MoveKey, MoveCert, CleanUp, Restore, Finish
<1>7. CASE NoteOld \/ Import \/ ImportFails \/ Supersede \/ Protect \/ DeleteRest
  BY <1>0, <1>7 DEF NoteOld, Import, ImportFails, Supersede, Protect, DeleteRest, Finish
<1>8. CASE Interrupted
  BY <1>0, <1>8, InterruptedFrame
<1>9. CASE Admin
  BY <1>0, <1>9, AdminFrame
<1>10. CASE UNCHANGED vars
  BY <1>0, <1>10, StutterFrame
<1>11. QED BY <1>1, <1>2, <1>3, <1>4, <1>5, <1>6, <1>7, <1>8, <1>9, <1>10, NextSteps

LEMMA RequestStep == ASSUME IInv, [Next]_vars PROVE RequestInv'
<1> USE DEF RequestInv, RequestIsCurrent, Wanted, fileVars, runVars
<1>0. TypeOK /\ DirInv /\ RequestInv
  BY DEF IInv
<1>1. CASE Begin \/ BackUp
  BY <1>1 DEF Begin, BackUp
<1>2. CASE Prepare
  BY <1>0, <1>2 DEF Prepare, TypeOK
<1>3. CASE ScepclientFiles
  <2>1. csr[dir] = Null /\ dir \in Dirs /\ UNCHANGED <<dir, env, action>> /\ pc' = "sent"
    BY <1>0, <1>3 DEF ScepclientFiles, TypeOK
  <2>2. key'[dir] # Null
    <3>1. ASSUME NEW k \in FreshKeys, key' = [key EXCEPT ![dir] = k]
          PROVE  key'[dir] # Null
      BY <1>0, <2>1, <3>1, StoreAssumption DEF FreshKeys, TypeOK
    <3>2. QED BY <1>3, <3>1 DEF ScepclientFiles
  <2>3. csr'[dir] = [key |-> key'[dir], chal |-> Wanted]
    BY <1>0, <1>3, <2>1 DEF ScepclientFiles, TypeOK
  <2>4. QED BY <2>1, <2>2, <2>3
<1>4. CASE Fails
  BY <1>4, <1>0, FailsFrame
<1>5. CASE Issued \/ MoveKey \/ MoveCert \/ CleanUp \/ Restore
  BY <1>5 DEF Issued, MoveKey, MoveCert, CleanUp, Restore, Finish
<1>6. CASE NothingIssued \/ NothingToMove \/ NoCertificate
  BY <1>6 DEF NothingIssued, NothingToMove, NoCertificate, Finish
<1>7. CASE NoteOld \/ Import \/ ImportFails \/ Supersede \/ Protect \/ DeleteRest
  BY <1>7 DEF NoteOld, Import, ImportFails, Supersede, Protect, DeleteRest, Finish
<1>8. CASE Interrupted
  BY <1>0, <1>8, InterruptedFrame
<1>9. CASE Admin
  BY <1>0, <1>9, AdminFrame
<1>10. CASE UNCHANGED vars
  BY <1>0, <1>10, StutterFrame
<1>11. QED BY <1>1, <1>2, <1>3, <1>4, <1>5, <1>6, <1>7, <1>8, <1>9, <1>10, NextSteps

(* The failure that is left at the end of a run is that of its beginning.  *)
LEMMA BeforeStep == ASSUME IInv, [Next]_vars PROVE BeforeInv'
<1> USE DirsAreTwo DEF BeforeInv, FailedRunLeavesFiles, Asking, fileVars, runVars
<1>0. /\ TypeOK /\ DirInv /\ BackupInv /\ BeforeInv
      /\ key \in [Dirs -> Keys \cup {Null}]
      /\ cert \in [Dirs -> Cert \cup {Null}]
      /\ before \in [key : Keys \cup {Null}, cert : Cert \cup {Null}]
  BY DEF IInv, TypeOK
<1>1. CASE Begin
  BY <1>0, <1>1 DEF Begin
<1>2. CASE BackUp
  BY <1>0, <1>2 DEF BackUp, BackupInv
<1>3. CASE Prepare
  BY <1>0, <1>3 DEF Prepare
<1>4. CASE ScepclientFiles
  <2>1. key["main"] # Null => key'["main"] = key["main"]
    BY <1>0, <1>4 DEF ScepclientFiles, TypeOK
  <2>2. QED BY <1>0, <1>4, <2>1 DEF ScepclientFiles
<1>5. CASE Fails
  BY <1>0, <1>5, FailsFrame
<1>6. CASE Issued
  <2>1. dir \in {"main", "scratch"}
    BY <1>0 DEF TypeOK
  <2>2. QED BY <1>0, <1>6, <2>1, IssuedFrame
<1>7. CASE NothingIssued
  BY <1>0, <1>7, NothingFrame
<1>8. CASE NothingToMove
  BY <1>0, <1>8, NotMovedFrame
<1>9. CASE NoCertificate
  BY <1>0, <1>9, NoneFrame
<1>10. CASE MoveKey
  BY <1>10 DEF MoveKey
<1>11. CASE MoveCert
  <2>1. cert["scratch"] \notin {Null, before.cert}
    BY <1>11 DEF MoveCert, IInv, IssuedInv, DirInv, Moving, Got
  <2>2. QED BY <1>0, <1>11, <2>1 DEF MoveCert
<1>12. CASE CleanUp
  BY <1>0, <1>12 DEF CleanUp
<1>13. CASE Restore
  BY <1>0, <1>13 DEF Restore, Finish
<1>14. CASE NoteOld \/ Import \/ ImportFails \/ Supersede \/ Protect \/ DeleteRest
  BY <1>0, <1>14 DEF NoteOld, Import, ImportFails, Supersede, Protect, DeleteRest, Finish
<1>15. CASE Interrupted
  BY <1>0, <1>15, InterruptedFrame
<1>16. CASE Admin
  BY <1>0, <1>16, AdminFrame
<1>17. CASE UNCHANGED vars
  BY <1>0, <1>17, StutterFrame
<1>18. QED BY <1>1, <1>2, <1>3, <1>4, <1>5, <1>6, <1>7, <1>8, <1>9, <1>10, <1>11, <1>12,
              <1>13, <1>14, <1>15, <1>16, <1>17, NextSteps

LEMMA IssuedStep == ASSUME IInv, [Next]_vars PROVE IssuedInv'
<1> USE DirsAreTwo DEF IssuedInv, Got, Moving, Placing, fileVars, runVars, storeVars
<1>0. /\ TypeOK /\ DirInv /\ IssuedInv
      /\ key \in [Dirs -> Keys \cup {Null}]
      /\ cert \in [Dirs -> Cert \cup {Null}]
      /\ dir \in Dirs
  BY DEF IInv, TypeOK
<1>1. CASE Begin \/ BackUp \/ Prepare \/ ScepclientFiles
  BY <1>1 DEF Begin, BackUp, Prepare, ScepclientFiles
<1>2. CASE Fails
  BY <1>0, <1>2, FailsFrame
<1>3. CASE Issued
  BY <1>0, <1>3, IssuedFrame
<1>4. CASE NothingIssued
  <2>1. pc' \in {"movekey", "issued"} /\ mishap' /\ UNCHANGED <<cert, dir, before>>
    BY <1>4, NothingFrame
  <2>2. cert["main"] = before.cert /\ cert["scratch"] = Null
    BY <1>4 DEF IInv, DirInv, BeforeInv, Asking, NothingIssued
  <2>3. ~Got' /\ (pc' = "movekey" => dir = "scratch")
    BY <1>0, <1>4, <2>1, <2>2, NothingFrame
  <2>4. QED BY <2>1, <2>2, <2>3
<1>5. CASE NothingToMove
  <2>1. cert["main"] = before.cert /\ mishap
    BY <1>0, <1>5 DEF IInv, BeforeInv, NothingToMove, DirInv
  <2>2. QED BY <1>0, <1>5, <2>1, NotMovedFrame
<1>6. CASE NoCertificate
  BY <1>6, NoneFrame
<1>7. CASE MoveKey
  BY <1>0, <1>7 DEF MoveKey, DirInv
<1>8. CASE MoveCert
  BY <1>0, <1>8 DEF MoveCert, DirInv
<1>9. CASE CleanUp \/ Restore
  BY <1>9 DEF CleanUp, Restore, Finish
<1>10. CASE NoteOld
  BY <1>0, <1>10 DEF NoteOld, DirInv, TypeOK
<1>11. CASE Import
  BY <1>0, <1>11 DEF Import, DirInv
<1>12. CASE ImportFails
  BY <1>12 DEF ImportFails, Finish
<1>13. CASE Supersede
  <2>1. dir = "main" /\ pc = "supersede" /\ pc' \in {"supersede", "protect"}
    BY <1>0, <1>13 DEF Supersede, DirInv
  <2>2. UNCHANGED <<key, cert, dir, pins, before, mishap>>
    BY <1>13 DEF Supersede
  <2>3. ASSUME cert["main"] \in keychain \ noted.old
        PROVE  cert["main"] \in keychain' \ noted'.old
    <3>1. ASSUME NEW c \in noted.old, keychain' \in {keychain, keychain \ {c}},
                 noted' = [noted EXCEPT !.old = @ \ {c}]
          PROVE  cert["main"] \in keychain' \ noted'.old
      <4>1. noted'.old = noted.old \ {c}
        BY <1>0, <3>1 DEF TypeOK
      <4>2. QED BY <2>3, <3>1, <4>1
    <3>2. QED BY <1>13, <2>3, <3>1 DEF Supersede
  <2>4. QED BY <1>0, <2>1, <2>2, <2>3
<1>14. CASE Protect \/ DeleteRest
  BY <1>0, <1>14 DEF Protect, DeleteRest, DirInv, Finish
<1>15. CASE Interrupted
  BY <1>0, <1>15, InterruptedFrame
<1>16. CASE Admin
  BY <1>0, <1>16, AdminFrame
<1>17. CASE UNCHANGED vars
  BY <1>0, <1>17, StutterFrame
<1>18. QED BY <1>1, <1>2, <1>3, <1>4, <1>5, <1>6, <1>7, <1>8, <1>9, <1>10, <1>11, <1>12,
              <1>13, <1>14, <1>15, <1>16, <1>17, NextSteps

LEMMA HeldStep == ASSUME IInv, [Next]_vars PROVE HeldInv'
<1> USE DirsAreTwo DEF HeldInv, PinnedKeyIsHeld, Asking, fileVars, runVars, storeVars
<1>0. /\ TypeOK /\ DirInv /\ BeforeInv /\ IssuedInv /\ HeldInv
      /\ key \in [Dirs -> Keys \cup {Null}]
  BY DEF IInv, TypeOK
<1>1. CASE Begin
  BY <1>0, <1>1 DEF Begin
<1>2. CASE BackUp \/ Prepare \/ ScepclientFiles \/ CleanUp
  BY <1>0, <1>2 DEF BackUp, Prepare, ScepclientFiles, CleanUp
<1>3. CASE Fails
  BY <1>0, <1>3, FailsFrame
<1>4. CASE Issued
  BY <1>4, IssuedFrame
<1>5. CASE NothingIssued
  BY <1>5, NothingFrame
<1>6. CASE NothingToMove
  BY <1>0, <1>6, NotMovedFrame
<1>7. CASE NoCertificate
  BY <1>0, <1>7, NoneFrame DEF IssuedInv, Placing, Got
<1>8. CASE MoveKey \/ MoveCert \/ NoteOld \/ Import \/ Supersede
  BY <1>8 DEF MoveKey, MoveCert, NoteOld, Import, Supersede
<1>9. CASE Restore
  BY <1>0, <1>9 DEF Restore, Finish, BeforeInv
<1>10. CASE ImportFails
  BY <1>0, <1>10 DEF ImportFails, Finish, IssuedInv, DirInv, Moving, Placing, Got
<1>11. CASE Protect \/ DeleteRest
  BY <1>0, <1>11 DEF Protect, DeleteRest, Finish, IssuedInv, DirInv, Moving, Placing, Got
<1>12. CASE Interrupted
  BY <1>0, <1>12, InterruptedFrame
<1>13. CASE Admin
  BY <1>0, <1>13, AdminFrame
<1>14. CASE UNCHANGED vars
  BY <1>0, <1>14, StutterFrame
<1>15. QED BY <1>1, <1>2, <1>3, <1>4, <1>5, <1>6, <1>7, <1>8, <1>9, <1>10, <1>11, <1>12,
              <1>13, <1>14, NextSteps

-----------------------------------------------------------------------------
(* The theorems.                                                           *)

LEMMA NextInv == IInv /\ [Next]_vars => IInv'
BY TypeStep, DirStep, BackupStep, BeforeStep, RequestStep, IssuedStep, HeldStep DEF IInv

(* The invariant behind the rest holds of every reachable state: what a    *)
(* run found can be brought back until it has a certificate, and that      *)
(* certificate, if there is one, is new, fits its key and is for the key   *)
(* that is pinned.                                                         *)
THEOREM Invariance == Spec => []IInv
<1>1. QED BY InitInv, NextInv, PTL DEF Spec

(* Every variable keeps its type, and outside the fallback there is no     *)
(* scratch directory.                                                      *)
THEOREM TypeCorrect == Spec => []TypeOK
<1>1. IInv => TypeOK
  BY DEF IInv
<1>2. QED BY <1>1, Invariance, PTL

(* A run whose request fails leaves the key and the certificate it found,  *)
(* and one that gets no certificate keeps them.                            *)
THEOREM FailureIsUndone == Spec => []FailedRunLeavesFiles
<1>1. IInv => FailedRunLeavesFiles
  BY DEF IInv, BeforeInv
<1>2. QED BY <1>1, Invariance, PTL

(* No request is for a key, or with a challenge, of an earlier try.        *)
THEOREM NothingStaleIsSent == Spec => []RequestIsCurrent
<1>1. IInv => RequestIsCurrent
  BY DEF IInv, RequestInv
<1>2. QED BY <1>1, Invariance, PTL

(* Whatever was interrupted before, a certificate is only imported beside  *)
(* its key, unless the run found them so and got no other.                 *)
THEOREM PairIsImported == Spec => []ImportsMatchingPair
<1>1. IInv => ImportsMatchingPair
  <2> SUFFICES ASSUME IInv, pc = "import",
                      cert["main"] = before.cert => before.key = before.cert.key
               PROVE  cert["main"].key = key["main"]
    BY DEF ImportsMatchingPair
  <2>1. dir = "main" /\ cert["main"] \in Cert
    BY DirsAreTwo DEF IInv, TypeOK, DirInv, BackupInv, Moving, Placing
  <2>2. CASE cert["main"] = before.cert
    <3>1. before.key \in Keys
      BY <2>1, <2>2 DEF Cert
    <3>2. QED BY <2>2, <3>1, StoreAssumption DEF IInv, BeforeInv
  <2>3. CASE cert["main"] # before.cert
    BY <2>1, <2>3, InstallAssumption DEF IInv, IssuedInv, Placing, Got
  <2>4. QED BY <2>2, <2>3
<1>2. QED BY <1>1, Invariance, PTL

(* Unless an answer was lost, a run interrupted or a certificate missing,  *)
(* a device never loses the key it can renew with.                         *)
THEOREM DeviceHoldsPinnedKey == Spec => []PinnedKeyIsHeld
<1>1. IInv => PinnedKeyIsHeld
  BY DEF IInv, HeldInv
<1>2. QED BY <1>1, Invariance, PTL

(* A run with a new certificate never empties the keychain, and when it    *)
(* succeeds it leaves the certificate there.                               *)
THEOREM IdentityStays == Spec => IdentityIsKept
<1>1. ASSUME IInv, [Next]_vars,
             cert["main"] # before.cert
      PROVE  /\ keychain # {} => keychain' # {}
             /\ pc # "idle" /\ pc' = "idle" /\ result' = "ok" => cert["main"] \in keychain'
  <2> USE DEF fileVars, runVars
  <2>0. TypeOK /\ IssuedInv
    BY <1>1 DEF IInv
  <2>1. CASE Begin \/ BackUp \/ Prepare \/ ScepclientFiles
    BY <2>1 DEF Begin, BackUp, Prepare, ScepclientFiles
  <2>2. CASE Fails
    BY <2>0, <2>2, FailsFrame
  <2>3. CASE Issued
    BY <1>1, <2>3, IssuedFrame
  <2>4. CASE NothingIssued
    BY <1>1, <2>4, NothingFrame
  <2>5. CASE NothingToMove \/ NoCertificate
    BY <1>1, <2>0, <2>5, NotMovedFrame, NoneFrame
  <2>6. CASE MoveKey \/ MoveCert \/ CleanUp \/ Restore
    BY <2>6 DEF MoveKey, MoveCert, CleanUp, Restore, Finish
  <2>7. CASE NoteOld \/ Import \/ ImportFails
    BY <2>7 DEF NoteOld, Import, ImportFails, Finish
  <2>8. CASE Supersede
    <3>1. cert["main"] \in keychain \ noted.old
      BY <1>1, <2>0, <2>8 DEF Supersede, IInv, IssuedInv, BackupInv, DirInv, Moving, Placing, Got
    <3>2. QED BY <2>8, <3>1 DEF Supersede
  <2>9. CASE Protect \/ DeleteRest
    <3>1. cert["main"] \in keychain
      BY <1>1, <2>0, <2>9 DEF Protect, DeleteRest, IInv, IssuedInv, BackupInv, DirInv, Moving,
                              Placing, Got
    <3>2. QED BY <2>9, <3>1 DEF Protect, DeleteRest
  <2>10. CASE Interrupted
    BY <2>0, <2>10, InterruptedFrame
  <2>11. CASE Admin
    BY <2>0, <2>11, AdminFrame
  <2>12. CASE UNCHANGED vars
    BY <2>12, StutterFrame
  <2>13. QED BY <1>1, <2>1, <2>2, <2>3, <2>4, <2>5, <2>6, <2>7, <2>8, <2>9, <2>10, <2>11,
                <2>12, NextSteps
<1>2. IInv /\ [Next]_vars =>
        [cert["main"] # before.cert =>
         /\ keychain # {} => keychain' # {}
         /\ pc # "idle" /\ pc' = "idle" /\ result' = "ok" => cert["main"] \in keychain']_vars
  BY <1>1
<1>3. QED BY <1>2, Invariance, PTL DEF Spec, IdentityIsKept
=============================================================================
