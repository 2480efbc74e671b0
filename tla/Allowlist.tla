------------------------------ MODULE Allowlist ------------------------------
(***************************************************************************)
(* The reloading device allowlist (webhook/internal/allowlist): a cache of *)
(* the parsed file, keyed by the mtime and size it was read at, shared by  *)
(* all handlers under one mutex, over a file that an editor writes in      *)
(* place and dtw-refresh replaces by renaming a new one over it.           *)
(*                                                                         *)
(* A file is a few blocks, read one at a time, so that a reader may see    *)
(* the start of one version and the end of another.                        *)
(***************************************************************************)
EXTENDS Naturals, FiniteSets

CONSTANTS
    Readers,    \* handlers that may call Lookup at once
    Data,       \* what one block of the file may hold
    NBlocks,    \* blocks in the file
    Valid,      \* files that parse: no bad line, no host or serial twice
    SizeOf,     \* size of a file
    Null,
    InPlace,    \* somebody writes the file in place
    Coarse,     \* two writes may get the same mtime
    MaxMtime    \* bound: mtimes given out

Blocks == 1..NBlocks
Content == [Blocks -> Data]

ASSUME AllowlistAssumption ==
    /\ NBlocks \in Nat \ {0}
    /\ Valid \subseteq Content
    /\ SizeOf \in [Content -> Nat]
    /\ InPlace \in BOOLEAN
    /\ Coarse \in BOOLEAN
    /\ MaxMtime \in Nat
    /\ Null \notin Readers
    /\ Null \notin Data
    /\ Null \notin Content
    /\ Null \notin [data : Content, mtime : 0..MaxMtime]
    /\ Null \notin [data : Content, stamp : (0..MaxMtime) \X Nat]

VARIABLES
    file,       \* the file at the path, [data, mtime], or Null
    new,        \* the file dtw-refresh is about to rename over it, or Null
    last,       \* the latest mtime given to a write
    cache,      \* devices with the stamp they were read at, Null before Load
    lock,       \* who holds the mutex, or Null
    pc,         \* where each reader is
    old,        \* the file a reader has open once the path names another, or Null
    stamp,      \* what fstat of the open file said
    got,        \* the blocks read so far
    answer,     \* the content Lookup answered from, or Null
    seen        \* history: contents the path had while the reader was in Lookup

fileVars == <<file, new, last>>
readerVars == <<lock, pc, old, stamp, got, answer>>
vars == <<fileVars, cache, readerVars, seen>>

File == [data : Content, mtime : 0..MaxMtime]
Stamp == (0..MaxMtime) \X Nat
StampOf(f) == <<f.mtime, SizeOf[f.data]>>

Nothing == [b \in Blocks |-> Null]
Unread(g) == {b \in Blocks : g[b] = Null}

InLookup(r) == pc[r] \notin {"idle", "done", "failed"}
HasOpen(r) == pc[r] \in {"fstat", "read"}

(* The file a reader has open: still the one at the path, or another.      *)
Handle(r) == IF old[r] = Null THEN file ELSE old[r]

Observe ==
    seen' = [r \in Readers |->
        IF pc'[r] = "idle" THEN {}
        ELSE (IF pc[r] = "idle" THEN {} ELSE seen[r])
             \cup IF InLookup(r)' /\ file' # Null THEN {file'.data} ELSE {}]

Init ==
    /\ \E d \in Content : file = [data |-> d, mtime |-> 0]
    /\ new = Null
    /\ last = 0
    /\ cache = Null
    /\ lock = Null
    /\ pc = [r \in Readers |-> "idle"]
    /\ old = [r \in Readers |-> Null]
    /\ stamp = [r \in Readers |-> <<0, 0>>]
    /\ got = [r \in Readers |-> Nothing]
    /\ answer = [r \in Readers |-> Null]
    /\ seen = [r \in Readers |-> {}]

-----------------------------------------------------------------------------
(* Readers.                                                                *)

Goto(r, l) == pc' = [pc EXCEPT ![r] = l]

(* serve calls Load once, before any handler runs, and exits if it fails.  *)
Load(r) ==
    /\ cache = Null
    /\ lock = Null
    /\ \A q \in Readers : pc[q] = "idle"
    /\ lock' = r
    /\ Goto(r, "open")
    /\ UNCHANGED <<fileVars, cache, old, stamp, got, answer>>
    /\ Observe

Lookup(r) ==
    /\ cache # Null
    /\ pc[r] = "idle"
    /\ Goto(r, "lock")
    /\ UNCHANGED <<fileVars, cache, lock, old, stamp, got, answer>>
    /\ Observe

(* Slip: Lookup forgets the mutex. *)
LockNotTaken(r) ==
    /\ pc[r] = "lock"
    /\ Goto(r, "stat")
    /\ UNCHANGED <<fileVars, cache, lock, old, stamp, got, answer>>
    /\ Observe

Lock(r) ==
    /\ pc[r] = "lock"
    /\ lock = Null
    /\ lock' = r
    /\ Goto(r, "stat")
    /\ UNCHANGED <<fileVars, cache, old, stamp, got, answer>>
    /\ Observe

Close(r) ==
    /\ old' = [old EXCEPT ![r] = Null]
    /\ stamp' = [stamp EXCEPT ![r] = <<0, 0>>]
    /\ got' = [got EXCEPT ![r] = Nothing]

(* Every return closes the file and releases the mutex.                    *)
Return(r, l, a) ==
    /\ lock' = Null
    /\ Goto(r, l)
    /\ Close(r)
    /\ answer' = [answer EXCEPT ![r] = a]

(* Slip: the size is enough to tell that nothing changed. *)
RefreshBySize(r) ==
    /\ pc[r] = "stat"
    /\ file # Null
    /\ Goto(r, IF StampOf(file)[2] = cache.stamp[2] THEN "answer" ELSE "open")
    /\ UNCHANGED <<fileVars, cache, lock, old, stamp, got, answer>>
    /\ Observe

(* Same mtime and size: what is cached will do.                            *)
Refresh(r) ==
    /\ pc[r] = "stat"
    /\ file # Null
    /\ Goto(r, IF StampOf(file) = cache.stamp THEN "answer" ELSE "open")
    /\ UNCHANGED <<fileVars, cache, lock, old, stamp, got, answer>>
    /\ Observe

Open(r) ==
    /\ pc[r] = "open"
    /\ file # Null
    /\ Goto(r, "fstat")
    /\ UNCHANGED <<fileVars, cache, lock, old, stamp, got, answer>>
    /\ Observe

Fstat(r) ==
    /\ pc[r] = "fstat"
    /\ stamp' = [stamp EXCEPT ![r] = StampOf(Handle(r))]
    /\ Goto(r, "read")
    /\ UNCHANGED <<fileVars, cache, lock, old, got, answer>>
    /\ Observe

ReadBlock(r) ==
    /\ pc[r] = "read"
    /\ \E b \in Unread(got[r]) :
         /\ \A c \in Unread(got[r]) : b <= c
         /\ got' = [got EXCEPT ![r][b] = Handle(r).data[b]]
    /\ UNCHANGED <<fileVars, cache, lock, pc, old, stamp, answer>>
    /\ Observe

(* Slips: the stamp is taken when the reading is over; what does not parse *)
(* is kept as well.                                                        *)
ParseThenStat(r) ==
    /\ pc[r] = "read"
    /\ Unread(got[r]) = {}
    /\ \/ /\ got[r] \in Valid /\ file # Null
          /\ cache' = [data |-> got[r], stamp |-> StampOf(file)]
          /\ Goto(r, "answer")
          /\ Close(r)
          /\ UNCHANGED <<lock, answer>>
       \/ /\ got[r] \notin Valid \/ file = Null
          /\ Return(r, "failed", Null)
          /\ UNCHANGED cache
    /\ UNCHANGED fileVars
    /\ Observe
ParseAndKeep(r) ==
    /\ pc[r] = "read"
    /\ Unread(got[r]) = {}
    /\ cache' = [data |-> got[r], stamp |-> stamp[r]]
    /\ \/ /\ got[r] \in Valid
          /\ Goto(r, "answer")
          /\ Close(r)
          /\ UNCHANGED <<lock, answer>>
       \/ /\ got[r] \notin Valid
          /\ Return(r, "failed", Null)
    /\ UNCHANGED fileVars
    /\ Observe

(* The devices and the stamp are replaced together, and only by a file     *)
(* that parses.                                                            *)
Parse(r) ==
    /\ pc[r] = "read"
    /\ Unread(got[r]) = {}
    /\ \/ /\ got[r] \in Valid
          /\ cache' = [data |-> got[r], stamp |-> stamp[r]]
          /\ Goto(r, "answer")
          /\ Close(r)
          /\ UNCHANGED <<lock, answer>>
       \/ /\ got[r] \notin Valid
          /\ Return(r, "failed", Null)
          /\ UNCHANGED cache
    /\ UNCHANGED fileVars
    /\ Observe

(* Slip: the mutex stays locked on the way out. *)
FailsLocked(r) ==
    /\ pc[r] \in {"stat", "open", "fstat", "read"}
    /\ Goto(r, "failed")
    /\ UNCHANGED <<fileVars, cache, lock, old, stamp, got, answer>>
    /\ Observe

(* The file is gone, may not be opened, or cannot be read.                 *)
Fails(r) ==
    /\ pc[r] \in {"stat", "open", "fstat", "read"}
    /\ Return(r, "failed", Null)
    /\ UNCHANGED <<fileVars, cache>>
    /\ Observe

Answer(r) ==
    /\ pc[r] = "answer"
    /\ Return(r, "done", cache.data)
    /\ UNCHANGED <<fileVars, cache>>
    /\ Observe

(* The handler goes on; it calls Lookup again for another request.         *)
Leave(r) ==
    /\ pc[r] \in {"done", "failed"}
    /\ Goto(r, "idle")
    /\ answer' = [answer EXCEPT ![r] = Null]
    /\ UNCHANGED <<fileVars, cache, lock, old, stamp, got>>
    /\ Observe

Reader(r) ==
    \/ Lock(r) \/ Refresh(r) \/ Open(r) \/ Fstat(r) \/ ReadBlock(r) \/ Parse(r)
    \/ Fails(r) \/ Answer(r)

-----------------------------------------------------------------------------
(* Writers.  A reader that has the file open keeps it when the path is     *)
(* given another file, and sees what is written into it in place.          *)

Mtimes == {t \in last..MaxMtime : t = last + 1 \/ (Coarse /\ t = last)}

LeaveOpen ==
    old' = [r \in Readers |-> IF HasOpen(r) /\ old[r] = Null THEN file ELSE old[r]]

WriteInPlace(d) ==
    /\ InPlace
    /\ file # Null
    /\ \E t \in Mtimes : file' = [data |-> d, mtime |-> t] /\ last' = t
    /\ UNCHANGED <<new, cache, readerVars>>
    /\ Observe

PrepareNew(d) ==
    /\ \E t \in Mtimes : new' = [data |-> d, mtime |-> t] /\ last' = t
    /\ UNCHANGED <<file, cache, readerVars>>
    /\ Observe

RenameNew ==
    /\ new # Null
    /\ file' = new
    /\ new' = Null
    /\ LeaveOpen
    /\ UNCHANGED <<last, cache, lock, pc, stamp, got, answer>>
    /\ Observe

Remove ==
    /\ file # Null
    /\ file' = Null
    /\ LeaveOpen
    /\ UNCHANGED <<new, last, cache, lock, pc, stamp, got, answer>>
    /\ Observe

Writer ==
    \/ \E d \in Content : WriteInPlace(d) \/ PrepareNew(d)
    \/ RenameNew
    \/ Remove

Next ==
    \/ \E r \in Readers : Load(r) \/ Lookup(r) \/ Reader(r) \/ Leave(r)
    \/ Writer

Spec == Init /\ [][Next]_vars

(* A goroutine runs on, and Go's mutex hands itself to a waiter that has   *)
(* waited too long.                                                        *)
FairSpec == Spec /\ \A r \in Readers : WF_vars(Reader(r)) /\ SF_vars(Lock(r))

-----------------------------------------------------------------------------
(* Properties.                                                             *)

(* Every variable has its type; a reader looks into a cache or at an open  *)
(* file only where there is one, and answers with a list that parses.      *)
TypeOK ==
    /\ file \in File \cup {Null}
    /\ new \in File \cup {Null}
    /\ last \in 0..MaxMtime
    /\ cache \in [data : Valid, stamp : Stamp] \cup {Null}
    /\ lock \in Readers \cup {Null}
    /\ pc \in [Readers -> {"idle", "lock", "stat", "open", "fstat", "read", "answer", "done", "failed"}]
    /\ old \in [Readers -> File \cup {Null}]
    /\ stamp \in [Readers -> Stamp]
    /\ got \in [Readers -> [Blocks -> Data \cup {Null}]]
    /\ answer \in [Readers -> Valid \cup {Null}]
    /\ seen \in [Readers -> SUBSET Content]
    /\ \A r \in Readers :
         /\ pc[r] \in {"lock", "stat", "answer"} => cache # Null
         /\ HasOpen(r) => Handle(r) # Null

(* The mutex is held by the one reader between Lock and its return.        *)
Holder == \A r \in Readers : lock = r <=> pc[r] \in {"stat", "open", "fstat", "read", "answer"}

(* A cache that a stat of the file takes for current is current, however   *)
(* the file was replaced or rewritten while it was read.                   *)
CacheIsCurrent ==
    cache # Null /\ file # Null =>
        (StampOf(file) = cache.stamp => cache.data = file.data)

(* Lookup never answers from a list the file did not have any more when it *)
(* was called: every block of it was at the path during the call.          *)
AnswerIsFresh ==
    \A r \in Readers : answer[r] # Null =>
        \A b \in Blocks : \E d \in seen[r] : answer[r][b] = d[b]

(* Every call of Lookup returns.                                           *)
LookupReturns == \A r \in Readers : InLookup(r) ~> pc[r] \in {"done", "failed"}

(* The inductive invariant, for mtimes that are never given out twice.     *)

(* A file nobody has read has an mtime nobody has seen.                    *)
MtimesGrow ==
    /\ file # Null => file.mtime <= last
    /\ cache # Null => cache.stamp[1] <= last
    /\ \A r \in Readers : /\ old[r] # Null => old[r].mtime <= last
                          /\ stamp[r][1] <= last
    /\ new # Null =>
         /\ new.mtime <= last
         /\ file # Null => file.mtime # new.mtime
         /\ cache # Null => cache.stamp[1] # new.mtime
         /\ \A r \in Readers : /\ old[r] # Null => old[r].mtime # new.mtime
                               /\ pc[r] = "read" => stamp[r][1] # new.mtime

(* The cache is the file's list if it has the file's mtime.                *)
CacheInv ==
    cache # Null /\ file # Null =>
        (file.mtime = cache.stamp[1] => cache.data = file.data)

(* What a reader that has the file open holds, whether or not the path has *)
(* moved on to another file.                                               *)
OpenInv(r) ==
    /\ old[r] # Null =>
         /\ HasOpen(r)
         /\ file # Null => file.mtime # old[r].mtime
         /\ old[r].data \in seen[r]
         /\ pc[r] = "read" /\ file # Null => file.mtime # stamp[r][1]
    /\ pc[r] # "read" => got[r] = Nothing
    /\ pc[r] = "read" =>
         /\ ~InPlace => Handle(r).mtime = stamp[r][1]
         /\ Handle(r).mtime = stamp[r][1] =>
              \A b \in Blocks \ Unread(got[r]) : got[r][b] = Handle(r).data[b]
         /\ \A b \in Blocks \ Unread(got[r]) : \E d \in seen[r] : got[r][b] = d[b]

AnswerInv(r) ==
    /\ InLookup(r) /\ file # Null => file.data \in seen[r]
    /\ pc[r] = "answer" => \A b \in Blocks : \E d \in seen[r] : cache.data[b] = d[b]
    /\ pc[r] # "done" => answer[r] = Null
    /\ answer[r] # Null => \A b \in Blocks : \E d \in seen[r] : answer[r][b] = d[b]

IInv ==
    /\ TypeOK
    /\ Holder
    /\ MtimesGrow
    /\ CacheInv
    /\ \A r \in Readers : OpenInv(r) /\ AnswerInv(r)

-----------------------------------------------------------------------------
(* Where nobody writes in place, Lookup is what DeviceList says: its call  *)
(* reads the list when the stat finds the cache current, or when it opens  *)
(* the file.                                                               *)

Judged(d) == IF d \in Valid THEN d ELSE Null

CallOf(r) ==
    IF pc[r] = "idle" THEN "none"
    ELSE IF pc[r] \in {"lock", "stat", "open"} THEN "asked"
    ELSE IF pc[r] \in {"fstat", "read", "answer"} THEN "decided"
    ELSE "answered"

ResultOf(r) ==
    IF HasOpen(r) THEN Judged(Handle(r).data)
    ELSE IF pc[r] = "answer" THEN cache.data
    ELSE answer[r]

Abstract == INSTANCE DeviceList WITH
    Lists <- Content,
    list <- IF file = Null THEN Null ELSE file.data,
    call <- [r \in Readers |-> CallOf(r)],
    result <- [r \in Readers |-> ResultOf(r)]

ImplementsDeviceList == Abstract!Spec
=============================================================================
