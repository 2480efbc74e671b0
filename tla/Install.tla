------------------------------- MODULE Install -------------------------------
(***************************************************************************)
(* One device running install-macos.sh again and again: the files of its   *)
(* certificate directory, the backup, the scratch directory of the         *)
(* fallback and the login keychain, step by step, against the webhook's    *)
(* database.  A run may be interrupted between any two steps, scepclient   *)
(* may fail on its own or end well without a certificate, and the answer   *)
(* to an allowed request may be lost.                                      *)
(*                                                                         *)
(* scepclient is modelled from what the script and webhook/README.md say   *)
(* of it: it makes what is missing of key, self.pem and csr.pem, sends     *)
(* csr.pem whatever challenge it is given, and may fail before it has sent *)
(* it.  Its transaction ID is derived from the key: here it is the key.    *)
(* Only a device in webhook mode is modelled.                              *)
(***************************************************************************)
EXTENDS Store

CONSTANTS
    host,           \* this device
    CertIds,        \* what tells certificates of one key apart
    SCEP_ATTEMPTS   \* tries per scepclient call

Now == 0
Dirs == {"main", "scratch"}
Cert == [key : Keys, id : CertIds]
Csr == [key : Keys, chal : Phrases \cup {Null}]

ASSUME InstallAssumption ==
    /\ host \in Hosts
    /\ Keys \subseteq Txns \ {NoTxn}
    /\ SCEP_ATTEMPTS \in Nat \ {0}
    /\ Null \notin Phrases
    /\ Null \notin Cert
    /\ Null \notin Csr

VARIABLES
    key,        \* client.key of each directory, or Null
    cert,       \* client.crt
    self,       \* the key self.pem was made for
    csr,        \* csr.pem
    bak,        \* client.crt.bak
    keychain,   \* certificates in the login keychain, each with its key
    pc,         \* what the run does next
    dir,        \* the directory run_scepclient works in
    env,        \* of the run: SCEP_PHRASE, is there a SCEP_RENEW_PROVISIONER,
                \* is KEY_PROTECTION Delete
    action,     \* "enroll" or "renew"
    attempt,    \* tries of this scepclient call
    noted,      \* IS_RENEWAL, KEY_BEFORE_RUN, and the superseded certificates
    result,     \* how the last run ended
    before,     \* history: key and certificate when the run began
    mishap      \* history: an answer lost, a run interrupted or no certificate with
                \* an exit code of 0, and not made good since

fileVars == <<key, cert, self, csr, bak, keychain>>
runVars == <<dir, env, action, attempt, noted, before>>
vars == <<storeVars, fileVars, pc, runVars, result, mishap>>

Env == [phrase : Phrases \cup {Null}, renew : BOOLEAN, delete : BOOLEAN]
NoEnv == [phrase |-> Null, renew |-> FALSE, delete |-> FALSE]
NothingNoted == [renewal |-> FALSE, key |-> FALSE, old |-> {}]
Empty == [d \in Dirs |-> Null]

Init ==
    /\ phrases = [p \in Phrases |-> [expires |-> Now + 1, revoked |-> Null]]
    /\ uses = [u \in Phrases \X Hosts |-> Null]
    /\ pins = [h \in Hosts |-> Null]
    /\ key = Empty /\ cert = Empty /\ self = Empty /\ csr = Empty
    /\ bak = Null
    /\ keychain = {}
    /\ pc = "idle"
    /\ dir = "main"
    /\ env = NoEnv
    /\ action = "enroll"
    /\ attempt = 1
    /\ noted = NothingNoted
    /\ before = [key |-> Null, cert |-> Null]
    /\ result = "ok"
    /\ mishap = FALSE

-----------------------------------------------------------------------------
(* The request.                                                            *)

Begin ==
    /\ pc = "idle"
    /\ env' \in Env
    /\ noted' = [renewal |-> cert["main"] # Null, key |-> key["main"] # Null, old |-> {}]
    /\ before' = [key |-> key["main"], cert |-> cert["main"]]
    /\ action' = IF env'.renew /\ key["main"] # Null /\ cert["main"] # Null
                 THEN "renew" ELSE "enroll"
    /\ dir' = "main"
    /\ attempt' = 1
    /\ pc' = "backup"
    /\ UNCHANGED <<storeVars, fileVars, result, mishap>>

BackUp ==
    /\ pc = "backup"
    /\ bak' = IF noted.renewal THEN cert["main"] ELSE bak
    /\ pc' = "prepare"
    /\ UNCHANGED <<storeVars, key, cert, self, csr, keychain, runVars, result, mishap>>

(* Slip: what scepclient has cached stays where it is.                     *)
PrepareNothing ==
    /\ pc = "prepare"
    /\ pc' = "scepclient"
    /\ UNCHANGED <<storeVars, fileVars, runVars, result, mishap>>

Prepare ==
    /\ pc = "prepare"
    /\ csr' = [csr EXCEPT ![dir] = Null]
    /\ self' = [self EXCEPT ![dir] = IF key[dir] = Null THEN Null ELSE @]
    /\ pc' = "scepclient"
    /\ UNCHANGED <<storeVars, key, cert, bak, keychain, runVars, result, mishap>>

Wanted == IF action = "renew" THEN Null ELSE env.phrase

(* A key nobody has heard of. *)
FreshKeys ==
    Keys \ ({key[d] : d \in Dirs} \cup {self[d] : d \in Dirs}
            \cup {c.key : c \in keychain \cup ({bak, cert["main"], cert["scratch"]} \ {Null})}
            \cup {p.key : p \in {pins[host]} \ {Null}}
            \cup {uses[<<p, host>>] : p \in Phrases})

ScepclientFiles ==
    /\ pc = "scepclient"
    /\ \/ key[dir] # Null /\ UNCHANGED key
       \/ key[dir] = Null /\ \E k \in FreshKeys : key' = [key EXCEPT ![dir] = k]
    /\ self' = [self EXCEPT ![dir] = IF @ = Null THEN key'[dir] ELSE @]
    /\ csr' = [csr EXCEPT ![dir] = IF @ = Null THEN [key |-> key'[dir], chal |-> Wanted] ELSE @]
    /\ pc' = "sent"
    /\ UNCHANGED <<storeVars, cert, bak, keychain, runVars, result, mishap>>

RemoveScratch ==
    /\ dir' = "main"
    /\ key' = [key EXCEPT !["scratch"] = Null]
    /\ cert' = [cert EXCEPT !["scratch"] = Null]
    /\ self' = [self EXCEPT !["scratch"] = Null]
    /\ csr' = [csr EXCEPT !["scratch"] = Null]

Retry ==
    /\ attempt < SCEP_ATTEMPTS
    /\ attempt' = attempt + 1
    /\ pc' = "prepare"
    /\ UNCHANGED <<key, cert, self, csr, dir, action>>

(* Slip: the fallback starts over in place.                                *)
FallBackInPlace ==
    /\ attempt = SCEP_ATTEMPTS
    /\ action = "renew" /\ env.phrase # Null
    /\ action' = "enroll"
    /\ key' = [key EXCEPT !["main"] = Null]
    /\ attempt' = 1
    /\ pc' = "prepare"
    /\ UNCHANGED <<cert, self, csr, dir>>

(* Once, after a renewal and if there is a phrase: enroll with a new key,  *)
(* in a directory of its own.                                              *)
FallBack ==
    /\ attempt = SCEP_ATTEMPTS
    /\ action = "renew" /\ env.phrase # Null
    /\ action' = "enroll"
    /\ dir' = "scratch"
    /\ attempt' = 1
    /\ pc' = "prepare"
    /\ UNCHANGED <<key, cert, self, csr>>

(* Slip: a failed fallback leaves its directory behind.                    *)
GiveUpMessy ==
    /\ attempt = SCEP_ATTEMPTS
    /\ action = "enroll" \/ env.phrase = Null
    /\ dir' = "main"
    /\ pc' = "failed"
    /\ UNCHANGED <<key, cert, self, csr, action, attempt>>

GiveUp ==
    /\ attempt = SCEP_ATTEMPTS
    /\ action = "enroll" \/ env.phrase = Null
    /\ RemoveScratch
    /\ pc' = "failed"
    /\ UNCHANGED <<action, attempt>>

AttemptFails == Retry \/ FallBack \/ GiveUp

(* What the webhook makes of the request in csr.pem.                       *)
MayBeAllowed ==
    LET q == csr[dir] IN
    \/ action = "renew" /\ IsPinned(host, q.key)
    \/ /\ action = "enroll"
       /\ q.chal \in ActivePhrases(Now)
       /\ MayEnroll(q.chal, host, q.key)
Allow ==
    LET q == csr[dir] IN
    \/ action = "renew" /\ IsPinned(host, q.key) /\ UNCHANGED storeVars
    \/ /\ action = "enroll"
       /\ q.chal \in ActivePhrases(Now)
       /\ Enroll(q.chal, host, q.key, q.key)

(* scepclient fails before the request gets anywhere.                      *)
ScepclientFails ==
    /\ pc = "sent"
    /\ AttemptFails
    /\ UNCHANGED <<storeVars, bak, keychain, env, noted, before, result, mishap>>

Refused ==
    /\ pc = "sent"
    /\ ~MayBeAllowed
    /\ AttemptFails
    /\ UNCHANGED <<storeVars, bak, keychain, env, noted, before, result, mishap>>

AnswerLost ==
    /\ pc = "sent"
    /\ Allow
    /\ AttemptFails
    /\ mishap' = TRUE
    /\ UNCHANGED <<bak, keychain, env, noted, before, result>>

FreshIds ==
    CertIds \ {c.id : c \in keychain \cup ({bak, cert["main"], cert["scratch"]} \ {Null})}

Issued ==
    /\ pc = "sent"
    /\ Allow
    /\ \E i \in FreshIds :
         /\ \A j \in FreshIds : i <= j
         /\ cert' = [cert EXCEPT ![dir] = [key |-> csr[dir].key, id |-> i]]
    /\ pc' = IF dir = "scratch" THEN "movekey" ELSE "issued"
    /\ mishap' = FALSE
    /\ UNCHANGED <<key, self, csr, bak, keychain, runVars, result>>

(* scepclient ends with 0, whether the request was allowed or not, and has *)
(* written no certificate: the script looks for the file because it may.   *)
NothingIssued ==
    /\ pc = "sent"
    /\ Allow \/ UNCHANGED storeVars
    /\ pc' = IF dir = "scratch" THEN "movekey" ELSE "issued"
    /\ mishap' = TRUE
    /\ UNCHANGED <<fileVars, runVars, result>>

(* Slip: the new key stays in the scratch directory.                       *)
MoveKeyNot ==
    /\ pc = "movekey"
    /\ cert["scratch"] # Null
    /\ pc' = "movecert"
    /\ UNCHANGED <<storeVars, fileVars, runVars, result, mishap>>

MoveKey ==
    /\ pc = "movekey"
    /\ cert["scratch"] # Null
    /\ key' = [key EXCEPT !["main"] = key["scratch"], !["scratch"] = Null]
    /\ pc' = "movecert"
    /\ UNCHANGED <<storeVars, cert, self, csr, bak, keychain, runVars, result, mishap>>

(* No certificate to move: the key goes with the scratch directory, and    *)
(* the run goes on with what it found.                                     *)
NothingToMove ==
    /\ pc = "movekey"
    /\ cert["scratch"] = Null
    /\ RemoveScratch
    /\ pc' = "issued"
    /\ UNCHANGED <<storeVars, bak, keychain, env, action, attempt, noted, before, result, mishap>>

(* The certificate, and the end of the scratch directory; of what          *)
(* scepclient left beside the old key only csr.pem is removed.             *)
MoveCert ==
    /\ pc = "movecert"
    /\ dir' = "main"
    /\ key' = [key EXCEPT !["scratch"] = Null]
    /\ cert' = [cert EXCEPT !["main"] = cert["scratch"], !["scratch"] = Null]
    /\ self' = [self EXCEPT !["scratch"] = Null]
    /\ csr' = Empty
    /\ pc' = "issued"
    /\ UNCHANGED <<storeVars, bak, keychain, env, action, attempt, noted, before, result, mishap>>

Finish(how) ==
    /\ pc' = "idle"
    /\ result' = how
    /\ env' = NoEnv
    /\ action' = "enroll"
    /\ attempt' = 1
    /\ noted' = NothingNoted

(* A key made for this run goes with it; the backup is put back.           *)
CleanUp ==
    /\ pc = "failed"
    /\ key' = [key EXCEPT !["main"] = IF noted.key THEN @ ELSE Null]
    /\ self' = [self EXCEPT !["main"] = IF noted.key THEN @ ELSE Null]
    /\ csr' = [csr EXCEPT !["main"] = IF noted.key THEN @ ELSE Null]
    /\ pc' = "restore"
    /\ UNCHANGED <<storeVars, cert, bak, keychain, runVars, result, mishap>>

Restore ==
    /\ pc = "restore"
    /\ cert' = [cert EXCEPT !["main"] = IF bak # Null THEN bak ELSE @]
    /\ Finish("failed")
    /\ UNCHANGED <<storeVars, key, self, csr, bak, keychain, dir, before, mishap>>

(* An exit code of 0 and no certificate, not even an old one: the backup   *)
(* is put back, but a key made for this run stays.                         *)
NoCertificate ==
    /\ pc = "issued"
    /\ cert["main"] = Null
    /\ cert' = [cert EXCEPT !["main"] = IF bak # Null THEN bak ELSE @]
    /\ Finish("no certificate")
    /\ UNCHANGED <<storeVars, key, self, csr, bak, keychain, dir, before, mishap>>

-----------------------------------------------------------------------------
(* The keychain.                                                           *)

NoteOld ==
    /\ pc = "issued"
    /\ cert["main"] # Null
    /\ bak' = Null
    /\ noted' = [noted EXCEPT !.old = keychain]
    /\ pc' = "import"
    /\ UNCHANGED <<storeVars, key, cert, self, csr, keychain, dir, env, action, attempt,
                   before, result, mishap>>

(* Slips: the old certificates make room before the new one is in; those   *)
(* to be removed are listed when it is.                                    *)
ImportOverOld ==
    /\ pc = "import"
    /\ \/ /\ noted.old # {}
          /\ keychain' = keychain \ noted.old
          /\ noted' = [noted EXCEPT !.old = {}]
          /\ UNCHANGED pc
       \/ /\ noted.old = {}
          /\ keychain' = keychain \cup {cert["main"]}
          /\ pc' = "supersede"
          /\ UNCHANGED noted
    /\ UNCHANGED <<storeVars, key, cert, self, csr, bak, dir, env, action, attempt, before,
                   result, mishap>>
ImportThenNote ==
    /\ pc = "import"
    /\ keychain' = keychain \cup {cert["main"]}
    /\ noted' = [noted EXCEPT !.old = keychain']
    /\ pc' = "supersede"
    /\ UNCHANGED <<storeVars, key, cert, self, csr, bak, dir, env, action, attempt, before,
                   result, mishap>>

Import ==
    /\ pc = "import"
    /\ keychain' = keychain \cup {cert["main"]}
    /\ pc' = "supersede"
    /\ UNCHANGED <<storeVars, key, cert, self, csr, bak, runVars, result, mishap>>

ImportFails ==
    /\ pc = "import"
    /\ Finish("not imported")
    /\ UNCHANGED <<storeVars, fileVars, dir, before, mishap>>

(* Each one may turn out impossible to remove. *)
Supersede ==
    /\ pc = "supersede"
    /\ \/ \E c \in noted.old :
            /\ keychain' \in {keychain, keychain \ {c}}
            /\ noted' = [noted EXCEPT !.old = @ \ {c}]
            /\ UNCHANGED pc
       \/ /\ noted.old = {}
          /\ pc' = "protect"
          /\ UNCHANGED <<keychain, noted>>
    /\ UNCHANGED <<storeVars, key, cert, self, csr, bak, dir, env, action, attempt, before,
                   result, mishap>>

(* rm deletes one file after the other, the key first.                     *)
Protect ==
    /\ pc = "protect"
    /\ \/ /\ ~env.delete
          /\ Finish("ok")
          /\ UNCHANGED key
       \/ /\ env.delete
          /\ key' = [key EXCEPT !["main"] = Null]
          /\ pc' = "delete"
          /\ UNCHANGED <<env, action, attempt, noted, result>>
    /\ UNCHANGED <<storeVars, cert, self, csr, bak, keychain, dir, before, mishap>>

DeleteRest ==
    /\ pc = "delete"
    /\ cert' = [cert EXCEPT !["main"] = Null]
    /\ self' = [self EXCEPT !["main"] = Null]
    /\ csr' = [csr EXCEPT !["main"] = Null]
    /\ Finish("ok")
    /\ UNCHANGED <<storeVars, key, bak, keychain, dir, before, mishap>>

(* A scratch directory is left behind, but mktemp never gives it again.    *)
Interrupted ==
    /\ pc # "idle"
    /\ Finish("interrupted")
    /\ RemoveScratch
    /\ mishap' = TRUE
    /\ UNCHANGED <<storeVars, bak, keychain, before>>

Admin ==
    /\ ClearPin(host) \/ ResetUses(host)
    /\ UNCHANGED <<fileVars, pc, runVars, result, mishap>>

Next ==
    \/ Begin \/ BackUp \/ Prepare \/ ScepclientFiles
    \/ ScepclientFails \/ Refused \/ AnswerLost \/ Issued \/ NothingIssued
    \/ MoveKey \/ NothingToMove \/ MoveCert \/ CleanUp \/ Restore \/ NoCertificate
    \/ NoteOld \/ Import \/ ImportFails \/ Supersede \/ Protect \/ DeleteRest
    \/ Interrupted \/ Admin

Spec == Init /\ [][Next]_vars

-----------------------------------------------------------------------------
(* Properties.                                                             *)

(* Every variable has its type, and the scratch directory exists only      *)
(* during the fallback (install-macos.sh, 483 to 493).                     *)
TypeOK ==
    /\ StoreTypeOK
    /\ key \in [Dirs -> Keys \cup {Null}]
    /\ cert \in [Dirs -> Cert \cup {Null}]
    /\ self \in [Dirs -> Keys \cup {Null}]
    /\ csr \in [Dirs -> Csr \cup {Null}]
    /\ bak \in Cert \cup {Null}
    /\ keychain \subseteq Cert
    /\ pc \in {"idle", "backup", "prepare", "scepclient", "sent", "movekey", "movecert", "issued",
               "failed", "restore", "import", "supersede", "protect", "delete"}
    /\ dir \in Dirs
    /\ env \in Env
    /\ action \in {"enroll", "renew"}
    /\ attempt \in 1..SCEP_ATTEMPTS
    /\ noted \in [renewal : BOOLEAN, key : BOOLEAN, old : SUBSET Cert]
    /\ result \in {"ok", "failed", "no certificate", "not imported", "interrupted"}
    /\ before \in [key : Keys \cup {Null}, cert : Cert \cup {Null}]
    /\ mishap \in BOOLEAN
    /\ dir = "main" => Null = key["scratch"] /\ Null = cert["scratch"] /\ Null = csr["scratch"]

(* A run whose request fails leaves the key and the certificate as it      *)
(* found them, whatever interrupted runs left beside them: no orphan of a  *)
(* first enrollment, no half of a fallback, no old backup.  One that stops *)
(* for want of a certificate keeps what it found, but a key it has made    *)
(* stays behind.  Of a run that fails at the import nothing is said.       *)
FailedRunLeavesFiles ==
    pc = "idle" =>
        /\ result = "failed" => before = [key |-> key["main"], cert |-> cert["main"]]
        /\ result = "no certificate" =>
             before.cert = cert["main"] /\ before.key \in {Null, key["main"]}

(* What is sent is for the key of this request and with the challenge of   *)
(* this run, never one that an earlier run or attempt has cached.          *)
RequestIsCurrent ==
    pc = "sent" => csr[dir] = [key |-> key[dir], chal |-> Wanted]

(* Only a certificate that belongs to the key beside it is imported, also  *)
(* after a run that stopped between moving the one and the other.  A run   *)
(* that got no certificate goes on with what it found: a pair, or not.     *)
ImportsMatchingPair ==
    pc = "import" /\ (cert["main"] = before.cert => before.key = before.cert.key) =>
        cert["main"].key = key["main"]

(* When a run has got a certificate, a device that had an identity in the  *)
(* keychain always has one, and if it succeeds it leaves the certificate   *)
(* there: the old ones are removed when the new one is in, and never the   *)
(* new one.  (A run that got none imports the old one again and may then   *)
(* remove it as superseded.)                                               *)
IdentityIsKept ==
    [][cert["main"] # before.cert =>
       /\ keychain # {} => keychain' # {}
       /\ pc # "idle" /\ pc' = "idle" /\ result' = "ok" => cert["main"] \in keychain']_vars

(* The key the webhook has pinned is one the device still has, unless an   *)
(* answer was lost, a run interrupted or a certificate missing since it    *)
(* last got one.                                                           *)
PinnedKeyIsHeld ==
    pc = "idle" /\ ~mishap /\ pins[host] # Null =>
        pins[host].key \in {key["main"]} \cup {c.key : c \in keychain}

(* The inductive invariant behind them.  A run asks until it is told that  *)
(* it has a certificate, then puts what it has got in its place.           *)
Asking == {"backup", "prepare", "scepclient", "sent", "failed", "restore"}
Moving == {"movekey", "movecert"}
Placing == {"issued", "import", "supersede", "protect", "delete"}
Got == cert[dir] \notin {Null, before.cert}

DirInv ==
    /\ pc \in Moving => dir = "scratch"
    /\ pc \notin Moving \cup {"prepare", "scepclient", "sent"} => dir = "main"
    /\ pc \notin Moving => cert["scratch"] = Null

(* A backup is never put where there was no certificate.                   *)
BackupInv ==
    /\ bak # Null => cert["main"] # Null
    /\ pc \in Placing \ {"issued"} => bak = Null /\ cert["main"] # Null

(* What a run found is still there, or can be brought back, until it has   *)
(* a certificate.                                                          *)
BeforeInv ==
    /\ pc \in Asking \cup {"movekey"} =>
         /\ noted.renewal <=> before.cert # Null
         /\ noted.key <=> before.key # Null
         /\ cert["main"] = before.cert
         /\ pc # "backup" => bak = before.cert
         /\ before.key # Null => key["main"] = before.key
    /\ pc = "restore" => key["main"] = before.key
    /\ pc = "issued" /\ cert["main"] = Null => before.cert = Null
    /\ pc \in {"issued", "import"} /\ cert["main"] = before.cert =>
         before.key \in {Null, key["main"]}
    /\ FailedRunLeavesFiles

RequestInv ==
    /\ pc = "scepclient" => csr[dir] = Null
    /\ pc = "sent" => key[dir] # Null
    /\ RequestIsCurrent

(* The certificate a run has got is new, for the key that goes with it     *)
(* and for the one the webhook has pinned, and outlives the old ones.      *)
IssuedInv ==
    /\ pc \in Moving \cup Placing /\ ~Got => mishap
    /\ pc \in Moving /\ ~Got => pc = "movekey" /\ cert["scratch"] = Null
    /\ pc \in Moving \cup Placing /\ Got =>
         /\ pins[host] # Null => pins[host].key = cert[dir].key
         /\ pc \notin {"movecert", "delete"} => key[dir] = cert[dir].key
         /\ pc = "movecert" => key["main"] = cert[dir].key
         /\ pc \in Moving \cup {"issued"} => cert[dir] \notin keychain
         /\ pc = "import" => cert["main"] \notin noted.old
         /\ pc \in {"supersede", "protect", "delete"} => cert["main"] \in keychain \ noted.old

(* Until then the key the webhook has pinned is one the run began with.    *)
HeldInv ==
    /\ pc \in Asking /\ ~mishap /\ pins[host] # Null =>
         pins[host].key \in {before.key} \cup {c.key : c \in keychain}
    /\ PinnedKeyIsHeld

IInv ==
    /\ TypeOK
    /\ DirInv
    /\ BackupInv
    /\ BeforeInv
    /\ RequestInv
    /\ IssuedInv
    /\ HeldInv

(* From a comment of the script: a self.pem goes whenever its key does, so *)
(* nothing is signed with that of another key.                             *)
SelfGoesWithKey == pc = "sent" => self[dir] = key[dir]
=============================================================================
