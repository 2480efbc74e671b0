------------------------------- MODULE KeyPair -------------------------------
(***************************************************************************)
(* The reloading TLS key pair (keyPairReloader in webhook/serve.go): every *)
(* handshake stats the certificate and the key, and reads both again when  *)
(* either one has another mtime than the pair it keeps; a pair that does   *)
(* not fit is not kept.  Meanwhile dtw-refresh installs the two files one  *)
(* after the other, with nothing in them when the download failed, and an  *)
(* editor may write or remove either.                                      *)
(***************************************************************************)
EXTENDS Naturals

CONSTANTS
    Readers,    \* handshakes that may run at once
    Items,      \* what a file may hold, the empty and half-written included
    Fits,       \* certificates with their keys
    Null,
    MaxMtime    \* bound: changes of each file

Parts == {"crt", "key"}

ASSUME KeyPairAssumption ==
    /\ Fits \subseteq [Parts -> Items]
    /\ MaxMtime \in Nat
    /\ Null \notin Readers
    /\ Null \notin Nat
    /\ Null \notin Fits
    /\ Null \notin [item : Items, mtime : 0..MaxMtime]
    /\ Null \notin [pair : Fits, mod : [Parts -> 0..MaxMtime], from : [Parts -> 0..MaxMtime]]

VARIABLES
    disk,       \* each file, [item, mtime], or Null
    last,       \* the latest mtime of each file
    server,     \* the process: "down", "starting", "up"
    cache,      \* the pair kept, the mtimes it is known by (mod), and those
                \* of the files it was read from (history: from); or Null
    lock,       \* who holds the mutex, or Null
    pc,         \* where each handshake is
    stat,       \* the mtimes it has seen, Null before
    read,       \* the certificate file as it has read it, or Null
    answer,     \* the pair it is given, or Null
    quiet       \* history: nothing has gone on around it so far

fileVars == <<disk, last>>
shared == <<server, cache, lock>>
own == <<pc, stat, read, answer>>
vars == <<fileVars, shared, own, quiet>>

Mtimes == 0..MaxMtime
File == [item : Items, mtime : Mtimes]
NoStat == [f \in Parts |-> Null]

Ended(r) == pc[r] \in {"served", "failed", "nofile"}
InHandshake(r) == pc[r] # "idle" /\ ~Ended(r)
Loading(r) == pc[r] \in {"readcrt", "readkey"}

OnDisk == \A f \in Parts : disk[f] # Null
DiskPair == [f \in Parts |-> disk[f].item]
DiskMtimes == [f \in Parts |-> disk[f].mtime]

Init ==
    /\ \E p \in Fits : disk = [f \in Parts |-> [item |-> p[f], mtime |-> 0]]
    /\ last = [f \in Parts |-> 0]
    /\ server = "down"
    /\ cache = Null
    /\ lock = Null
    /\ pc = [r \in Readers |-> "idle"]
    /\ stat = [r \in Readers |-> NoStat]
    /\ read = [r \in Readers |-> Null]
    /\ answer = [r \in Readers |-> Null]
    /\ quiet = [r \in Readers |-> TRUE]

-----------------------------------------------------------------------------
(* Handshakes.                                                             *)

Goto(r, l) == pc' = [pc EXCEPT ![r] = l]

(* The server loads the pair once before it listens, and exits if it       *)
(* cannot; systemd starts it again.                                        *)
Start(r) ==
    /\ server = "down"
    /\ \A q \in Readers : pc[q] = "idle"
    /\ server' = "starting"
    /\ Goto(r, "statcrt")
    /\ UNCHANGED <<fileVars, cache, lock, stat, read, answer, quiet>>

ClientHello(r) ==
    /\ server = "up"
    /\ pc[r] = "idle"
    /\ Goto(r, "statcrt")
    /\ UNCHANGED <<fileVars, shared, stat, read, answer, quiet>>

(* The end of GetCertificate, and of newKeyPairReloader in the first call. *)
Return(r, l, p) ==
    /\ Goto(r, l)
    /\ answer' = [answer EXCEPT ![r] = p]
    /\ stat' = [stat EXCEPT ![r] = NoStat]
    /\ read' = [read EXCEPT ![r] = Null]
    /\ server' = IF server # "starting" THEN server
                 ELSE IF p = Null THEN "down" ELSE "up"

StatFile(r, f, here, next) ==
    /\ pc[r] = here
    /\ disk[f] # Null
    /\ stat' = [stat EXCEPT ![r][f] = disk[f].mtime]
    /\ Goto(r, next)
    /\ UNCHANGED <<fileVars, shared, read, answer, quiet>>

StatCert(r) == StatFile(r, "crt", "statcrt", "statkey")
StatKey(r) == StatFile(r, "key", "statkey", "lock")

(* Before the mutex is taken, and whatever is kept.                        *)
StatFails(r) ==
    /\ \/ pc[r] = "statcrt" /\ disk["crt"] = Null
       \/ pc[r] = "statkey" /\ disk["key"] = Null
    /\ Return(r, "nofile", Null)
    /\ UNCHANGED <<fileVars, cache, lock, quiet>>

IsKnown(r) == cache # Null /\ stat[r] = cache.mod

(* Slips: the first pair is kept for good; the mutex is not taken.         *)
LockKeepsFirst(r) ==
    /\ pc[r] = "lock"
    /\ lock = Null
    /\ \/ cache # Null /\ Return(r, "served", cache.pair) /\ UNCHANGED lock
       \/ /\ cache = Null
          /\ lock' = r
          /\ Goto(r, "readcrt")
          /\ UNCHANGED <<server, stat, read, answer>>
    /\ UNCHANGED <<fileVars, cache, quiet>>
LockNotTaken(r) ==
    /\ pc[r] = "lock"
    /\ \/ IsKnown(r) /\ Return(r, "served", cache.pair)
       \/ /\ ~IsKnown(r)
          /\ Goto(r, "readcrt")
          /\ UNCHANGED <<server, stat, read, answer>>
    /\ UNCHANGED <<fileVars, cache, lock, quiet>>

(* Under the mutex, the mtimes seen before it are compared with those of   *)
(* the pair that is kept.                                                  *)
Lock(r) ==
    /\ pc[r] = "lock"
    /\ lock = Null
    /\ \/ IsKnown(r) /\ Return(r, "served", cache.pair) /\ UNCHANGED lock
       \/ /\ ~IsKnown(r)
          /\ lock' = r
          /\ Goto(r, "readcrt")
          /\ UNCHANGED <<server, stat, read, answer>>
    /\ UNCHANGED <<fileVars, cache, quiet>>

(* LoadX509KeyPair reads the certificate, then the key, then parses both.  *)
ReadCert(r) ==
    /\ pc[r] = "readcrt"
    /\ disk["crt"] # Null
    /\ read' = [read EXCEPT ![r] = disk["crt"]]
    /\ Goto(r, "readkey")
    /\ UNCHANGED <<fileVars, shared, stat, answer, quiet>>

FileRead(r, f) == IF f = "crt" THEN read[r] ELSE disk[f]
PairRead(r) == [f \in Parts |-> FileRead(r, f).item]
Keep(r, m) ==
    /\ cache' = [pair |-> PairRead(r), mod |-> m,
                 from |-> [f \in Parts |-> FileRead(r, f).mtime]]
    /\ Return(r, "served", PairRead(r))

(* The last good pair, if there is one.                                    *)
KeepLastGood(r) ==
    /\ Return(r, IF cache = Null THEN "failed" ELSE "served",
                 IF cache = Null THEN Null ELSE cache.pair)
    /\ UNCHANGED cache

(* Slips: the mutex is kept; the mtimes are taken when both files are      *)
(* read; a pair that does not fit is kept as well, or costs the last good. *)
ReadKeyStaysLocked(r) ==
    /\ pc[r] = "readkey"
    /\ disk["key"] # Null
    /\ IF PairRead(r) \in Fits THEN Keep(r, stat[r]) ELSE KeepLastGood(r)
    /\ UNCHANGED <<fileVars, lock, quiet>>
ReadKeyThenStat(r) ==
    /\ pc[r] = "readkey"
    /\ OnDisk
    /\ IF PairRead(r) \in Fits THEN Keep(r, DiskMtimes) ELSE KeepLastGood(r)
    /\ lock' = Null
    /\ UNCHANGED <<fileVars, quiet>>
ReadKeyUnchecked(r) ==
    /\ pc[r] = "readkey"
    /\ disk["key"] # Null
    /\ Keep(r, stat[r])
    /\ lock' = Null
    /\ UNCHANGED <<fileVars, quiet>>
ReadKeyOrDrop(r) ==
    /\ pc[r] = "readkey"
    /\ disk["key"] # Null
    /\ IF PairRead(r) \in Fits THEN Keep(r, stat[r])
       ELSE cache' = Null /\ Return(r, "failed", Null)
    /\ lock' = Null
    /\ UNCHANGED <<fileVars, quiet>>

(* What fits is kept under the mtimes seen before the mutex was taken.     *)
ReadKey(r) ==
    /\ pc[r] = "readkey"
    /\ disk["key"] # Null
    /\ IF PairRead(r) \in Fits THEN Keep(r, stat[r]) ELSE KeepLastGood(r)
    /\ lock' = Null
    /\ UNCHANGED <<fileVars, quiet>>

FileGone(r) ==
    /\ \/ pc[r] = "readcrt" /\ disk["crt"] = Null
       \/ pc[r] = "readkey" /\ disk["key"] = Null
    /\ KeepLastGood(r)
    /\ lock' = Null
    /\ UNCHANGED <<fileVars, quiet>>

(* A read fails for no fault of the file.                                  *)
ReadError(r) ==
    /\ Loading(r)
    /\ KeepLastGood(r)
    /\ lock' = Null
    /\ quiet' = [quiet EXCEPT ![r] = FALSE]
    /\ UNCHANGED fileVars

(* The handshake goes on with what it was given.                           *)
Leave(r) ==
    /\ Ended(r)
    /\ Goto(r, "idle")
    /\ answer' = [answer EXCEPT ![r] = Null]
    /\ quiet' = [quiet EXCEPT ![r] = TRUE]
    /\ UNCHANGED <<fileVars, shared, stat, read>>

GetCertificate(r) ==
    \/ StatCert(r) \/ StatKey(r) \/ StatFails(r)
    \/ Lock(r) \/ ReadCert(r) \/ ReadKey(r) \/ FileGone(r)

Exit ==
    /\ server # "down"
    /\ server' = "down"
    /\ cache' = Null
    /\ lock' = Null
    /\ pc' = [r \in Readers |-> "idle"]
    /\ stat' = [r \in Readers |-> NoStat]
    /\ read' = [r \in Readers |-> Null]
    /\ answer' = [r \in Readers |-> Null]
    /\ quiet' = [r \in Readers |-> TRUE]
    /\ UNCHANGED fileVars

-----------------------------------------------------------------------------
(* The files.                                                              *)

Change(f, file) ==
    /\ disk' = [disk EXCEPT ![f] = file]
    /\ quiet' = [r \in Readers |-> quiet[r] /\ pc[r] = "idle"]
    /\ UNCHANGED <<shared, own>>

Install(f, d) ==
    /\ last[f] < MaxMtime
    /\ last' = [last EXCEPT ![f] = last[f] + 1]
    /\ Change(f, [item |-> d, mtime |-> last[f] + 1])

Remove(f) ==
    /\ disk[f] # Null
    /\ Change(f, Null)
    /\ UNCHANGED last

Next ==
    \/ \E r \in Readers :
         Start(r) \/ ClientHello(r) \/ GetCertificate(r) \/ ReadError(r) \/ Leave(r)
    \/ Exit
    \/ \E f \in Parts : Remove(f) \/ \E d \in Items : Install(f, d)

Spec == Init /\ [][Next]_vars

(* Goroutines run on, and Go's mutex starves nobody.                       *)
FairSpec ==
    Spec /\ \A r \in Readers :
              WF_vars(GetCertificate(r)) /\ SF_vars(Lock(r)) /\ WF_vars(Leave(r))

-----------------------------------------------------------------------------
(* Properties.                                                             *)

(* Every variable has its type; only pairs that fit are kept and served    *)
(* (LoadX509KeyPair in GetCertificate).                                    *)
TypeOK ==
    /\ disk \in [Parts -> File \cup {Null}]
    /\ last \in [Parts -> Mtimes]
    /\ server \in {"down", "starting", "up"}
    /\ cache \in [pair : Fits, mod : [Parts -> Mtimes], from : [Parts -> Mtimes]] \cup {Null}
    /\ lock \in Readers \cup {Null}
    /\ pc \in [Readers -> {"idle", "statcrt", "statkey", "lock", "readcrt", "readkey",
                           "served", "failed", "nofile"}]
    /\ stat \in [Readers -> [Parts -> Mtimes \cup {Null}]]
    /\ read \in [Readers -> File \cup {Null}]
    /\ answer \in [Readers -> Fits \cup {Null}]
    /\ quiet \in [Readers -> BOOLEAN]

(* A pair that a stat of the two files takes for known is the one on disk, *)
(* in whatever order the files changed while handshakes stat'ed and read   *)
(* them (GetCertificate stats before it takes the mutex).                  *)
KnownIsCurrent ==
    cache # Null /\ OnDisk =>
        (cache.mod = DiskMtimes => cache.from = DiskMtimes /\ cache.pair = DiskPair)

(* A handshake around which nothing goes on is given the pair on disk,     *)
(* whatever half-written renewals and slower handshakes came before it.    *)
QuietHandshakeIsCurrent ==
    \A r \in Readers :
        Ended(r) /\ quiet[r] /\ OnDisk => (DiskPair \in Fits => answer[r] = DiskPair)

(* Once it is up the server never fails for a renewal that is half done:   *)
(* it goes on serving the last good pair.                                  *)
LastGoodIsKept == server = "up" => \A r \in Readers : pc[r] # "failed"

(* The pair kept never goes back to an older certificate or key, not even  *)
(* by a handshake that saw older mtimes and had to wait for the mutex.     *)
NeverBackToOldPair ==
    [][cache # Null /\ cache' # Null =>
         \A f \in Parts : cache.from[f] <= cache'.from[f]]_vars

(* The inductive invariant behind the four.  An mtime is never given out   *)
(* twice, so a file that still has the one it was read with is the file    *)
(* that was read.                                                          *)
MtimesGrow == \A f \in Parts : disk[f] # Null => disk[f].mtime = last[f]

Unchanged(file, f) == disk[f] # Null /\ disk[f].mtime = file.mtime => disk[f] = file

(* What a handshake has seen before it is granted the mutex is no newer    *)
(* than what it reads under it.                                            *)
HandshakeInv(r) ==
    /\ stat[r]["crt"] # Null <=> pc[r] \in {"statkey", "lock", "readcrt", "readkey"}
    /\ stat[r]["key"] # Null <=> pc[r] \in {"lock", "readcrt", "readkey"}
    /\ \A f \in Parts : stat[r][f] # Null => stat[r][f] <= last[f]
    /\ read[r] # Null <=> pc[r] = "readkey"
    /\ read[r] # Null =>
         /\ stat[r]["crt"] <= read[r].mtime /\ read[r].mtime <= last["crt"]
         /\ Unchanged(read[r], "crt")
         /\ cache # Null => cache.from["crt"] <= read[r].mtime

Mutex == \A r \in Readers : Loading(r) <=> lock = r

(* The pair kept is at least as new as the mtimes it is known by.          *)
CacheInv ==
    cache # Null =>
        \A f \in Parts :
            /\ cache.mod[f] <= cache.from[f] /\ cache.from[f] <= last[f]
            /\ Unchanged([item |-> cache.pair[f], mtime |-> cache.from[f]], f)

(* While nothing goes on around it, a handshake knows what is on disk.     *)
QuietInv(r) ==
    quiet[r] /\ pc[r] # "idle" =>
        /\ \A f \in Parts : stat[r][f] # Null => disk[f] # Null /\ stat[r][f] = disk[f].mtime
        /\ read[r] # Null => read[r] = disk["crt"]
        /\ Ended(r) /\ OnDisk => (DiskPair \in Fits => answer[r] = DiskPair)

(* Nobody is served before the first load, which is one handshake's.       *)
ServerInv ==
    /\ server = "up" => cache # Null /\ \A r \in Readers : pc[r] # "failed"
    /\ server # "up" => cache = Null
    /\ server = "down" => \A r \in Readers : ~InHandshake(r)
    /\ server = "starting" =>
         \E r \in Readers : InHandshake(r) /\ \A q \in Readers \ {r} : pc[q] = "idle"

IInv ==
    /\ TypeOK
    /\ MtimesGrow
    /\ Mutex
    /\ CacheInv
    /\ ServerInv
    /\ \A r \in Readers : HandshakeInv(r) /\ QuietInv(r)

(* Every handshake ends, or dies with the process.                         *)
HandshakeEnds == \A r \in Readers : InHandshake(r) ~> ~InHandshake(r)
=============================================================================
