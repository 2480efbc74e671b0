-------------------------- MODULE AllowlistProofs --------------------------
(***************************************************************************)
(* Proofs about Allowlist, for any number of readers, blocks and writes.   *)
(***************************************************************************)
EXTENDS Allowlist, TLAPS

-----------------------------------------------------------------------------
(* Type correctness.                                                       *)

LEMMA StampIsTyped == ASSUME TypeOK, NEW f \in File PROVE StampOf(f) \in Stamp
BY AllowlistAssumption DEF StampOf, Stamp, File

LEMMA ObserveType ==
    ASSUME seen \in [Readers -> SUBSET Content], file' \in File \cup {Null}, Observe
    PROVE  seen' \in [Readers -> SUBSET Content]
BY DEF Observe, File

LEMMA EveryStepIsObserved == Next => Observe
BY DEF Next, Load, Lookup, Reader, Lock, Refresh, Open, Fstat, ReadBlock, Parse, Fails, Answer,
       Leave, Writer, WriteInPlace, PrepareNew, RenameNew, Remove

LEMMA InitType == Init => TypeOK
<1> SUFFICES ASSUME Init PROVE TypeOK
  OBVIOUS
<1>1. file \in File /\ <<0, 0>> \in Stamp
  BY AllowlistAssumption DEF Init, File, Stamp
<1>2. Nothing \in [Blocks -> Data \cup {Null}]
  BY DEF Nothing
<1>3. QED BY <1>1, <1>2, AllowlistAssumption DEF Init, TypeOK, HasOpen

LEMMA ReaderType ==
    ASSUME TypeOK, NEW r \in Readers, Load(r) \/ Lookup(r) \/ Reader(r) \/ Leave(r)
    PROVE  TypeOK'
<1> USE AllowlistAssumption DEF TypeOK, Goto, HasOpen, Handle, fileVars
<1>0. /\ <<0, 0>> \in Stamp
      /\ Nothing \in [Blocks -> Data \cup {Null}]
      /\ file' = file
      /\ seen' \in [Readers -> SUBSET Content]
  <2>1. file' = file
    BY DEF Load, Lookup, Reader, Lock, Refresh, Open, Fstat, ReadBlock, Parse, Fails, Answer, Leave
  <2>2. Observe
    BY DEF Load, Lookup, Reader, Lock, Refresh, Open, Fstat, ReadBlock, Parse, Fails, Answer, Leave
  <2>3. QED BY <2>1, <2>2, ObserveType DEF Nothing, Stamp
<1>1. CASE Load(r)
  BY <1>0, <1>1 DEF Load
<1>2. CASE Lookup(r)
  BY <1>0, <1>2 DEF Lookup
<1>3. CASE Lock(r)
  BY <1>0, <1>3 DEF Lock
<1>4. CASE Refresh(r)
  BY <1>0, <1>4 DEF Refresh
<1>5. CASE Open(r)
  BY <1>0, <1>5 DEF Open
<1>6. CASE Fstat(r)
  <2>1. StampOf(Handle(r)) \in Stamp
    BY <1>6, StampIsTyped DEF Fstat
  <2>2. QED BY <1>0, <1>6, <2>1 DEF Fstat
<1>7. CASE ReadBlock(r)
  <2>1. PICK b \in Unread(got[r]) : got' = [got EXCEPT ![r][b] = Handle(r).data[b]]
    BY <1>7 DEF ReadBlock
  <2>2. Handle(r).data[b] \in Data
    BY <1>7, <2>1 DEF ReadBlock, Unread, File, Content
  <2>3. got' \in [Readers -> [Blocks -> Data \cup {Null}]]
    BY <2>1, <2>2
  <2>4. QED BY <1>0, <1>7, <2>3 DEF ReadBlock
<1>8. CASE Parse(r)
  <2>1. CASE got[r] \in Valid /\ cache' = [data |-> got[r], stamp |-> stamp[r]]
               /\ Goto(r, "answer") /\ Close(r) /\ UNCHANGED <<lock, answer>>
    <3>1. cache' \in [data : Valid, stamp : Stamp]
      BY <2>1
    <3>2. cache' \in [data : Content, stamp : (0..MaxMtime) \X Nat]
      BY <3>1 DEF Stamp
    <3>3. cache' # Null
      BY <3>2
    <3>4. QED BY <1>0, <1>8, <2>1, <3>1, <3>3 DEF Parse, Close
  <2>2. CASE got[r] \notin Valid /\ Return(r, "failed", Null) /\ UNCHANGED cache
    BY <1>0, <1>8, <2>2 DEF Parse, Return, Close
  <2>3. QED BY <1>8, <2>1, <2>2 DEF Parse
<1>9. CASE Fails(r)
  BY <1>0, <1>9 DEF Fails, Return, Close
<1>10. CASE Answer(r)
  BY <1>0, <1>10 DEF Answer, Return, Close
<1>11. CASE Leave(r)
  BY <1>0, <1>11 DEF Leave
<1>12. QED
  BY <1>1, <1>2, <1>3, <1>4, <1>5, <1>6, <1>7, <1>8, <1>9, <1>10, <1>11 DEF Reader

LEMMA WriterType == ASSUME TypeOK, Writer PROVE TypeOK'
<1> USE AllowlistAssumption DEF TypeOK, HasOpen, Handle, readerVars
<1>1. ASSUME NEW d \in Content, WriteInPlace(d)
      PROVE  TypeOK'
  <2>1. file' \in File /\ last' \in 0..MaxMtime
    BY <1>1 DEF WriteInPlace, Mtimes, File
  <2>2. seen' \in [Readers -> SUBSET Content]
    BY <1>1, <2>1, ObserveType DEF WriteInPlace
  <2>3. QED BY <1>1, <2>1, <2>2 DEF WriteInPlace, File
<1>2. ASSUME NEW d \in Content, PrepareNew(d)
      PROVE  TypeOK'
  <2>1. new' \in File /\ last' \in 0..MaxMtime
    BY <1>2 DEF PrepareNew, Mtimes, File
  <2>2. seen' \in [Readers -> SUBSET Content]
    BY <1>2, ObserveType DEF PrepareNew
  <2>3. QED BY <1>2, <2>1, <2>2 DEF PrepareNew
<1>3. CASE RenameNew
  <2>1. seen' \in [Readers -> SUBSET Content]
    BY <1>3, ObserveType DEF RenameNew
  <2>2. QED BY <1>3, <2>1 DEF RenameNew, LeaveOpen
<1>4. CASE Remove
  <2>1. seen' \in [Readers -> SUBSET Content]
    BY <1>4, ObserveType DEF Remove
  <2>2. QED BY <1>4, <2>1 DEF Remove, LeaveOpen
<1>5. QED BY <1>1, <1>2, <1>3, <1>4 DEF Writer

LEMMA NextType == TypeOK /\ [Next]_vars => TypeOK'
<1> SUFFICES ASSUME TypeOK, [Next]_vars PROVE TypeOK'
  OBVIOUS
<1>1. CASE Next
  BY <1>1, ReaderType, WriterType DEF Next
<1>2. CASE UNCHANGED vars
  BY <1>2 DEF vars, fileVars, readerVars, TypeOK, HasOpen, Handle
<1>3. QED BY <1>1, <1>2

(* Every variable keeps its type; a reader never looks into a cache or an  *)
(* open file that is not there, and answers only with lists that parse.    *)
THEOREM TypeCorrect == Spec => []TypeOK
<1>1. QED BY InitType, NextType, PTL DEF Spec

-----------------------------------------------------------------------------
(* Mutual exclusion.                                                       *)

LEMMA HolderStep ==
    ASSUME TypeOK, Holder, [Next]_vars
    PROVE  Holder'
<1> USE AllowlistAssumption DEF TypeOK, Holder, Goto
<1>1. ASSUME NEW r \in Readers, Load(r) \/ Lookup(r) \/ Reader(r) \/ Leave(r)
      PROVE  Holder'
  <2>1. CASE Load(r) \/ Lookup(r) \/ Leave(r)
    BY <2>1 DEF Load, Lookup, Leave
  <2>2. CASE Lock(r) \/ Refresh(r) \/ Open(r) \/ Fstat(r) \/ ReadBlock(r)
    BY <2>2 DEF Lock, Refresh, Open, Fstat, ReadBlock
  <2>3. CASE Parse(r) \/ Fails(r) \/ Answer(r)
    BY <2>3 DEF Parse, Fails, Answer, Return, Close
  <2>4. QED BY <1>1, <2>1, <2>2, <2>3 DEF Reader
<1>2. CASE Writer
  BY <1>2 DEF Writer, WriteInPlace, PrepareNew, RenameNew, Remove, readerVars
<1>3. CASE UNCHANGED vars
  BY <1>3 DEF vars, readerVars
<1>4. QED BY <1>1, <1>2, <1>3 DEF Next

-----------------------------------------------------------------------------
(* What readers have seen.                                                 *)

LEMMA SeenCountsThePresent ==
    ASSUME NEW r \in Readers, Observe, InLookup(r)', file' # Null
    PROVE  file'.data \in seen'[r]
BY DEF Observe, InLookup

LEMMA SeenForgetsNothing ==
    ASSUME NEW r \in Readers, Observe, pc[r] # "idle", pc'[r] # "idle"
    PROVE  seen[r] \subseteq seen'[r]
BY DEF Observe

-----------------------------------------------------------------------------
(* The writers' steps.                                                     *)

LEMMA WriterKeepsMtimes ==
    ASSUME IInv, ~Coarse, Writer, TypeOK'
    PROVE  MtimesGrow' /\ CacheInv'
<1> USE DEF IInv, MtimesGrow, CacheInv
<1>0. /\ last \in Nat /\ Mtimes = {t \in last..MaxMtime : t = last + 1}
      /\ file # Null => file \in File
      /\ new # Null => new \in File
      /\ cache # Null => cache.stamp[1] \in Nat
      /\ \A r \in Readers : /\ old[r] # Null => old[r] \in File
                            /\ stamp[r][1] \in Nat
  BY AllowlistAssumption DEF TypeOK, Mtimes, Stamp
<1>1. ASSUME NEW d \in Content, WriteInPlace(d)
      PROVE  MtimesGrow' /\ CacheInv'
  <2>1. /\ file'.mtime = last + 1 /\ last' = last + 1
        /\ UNCHANGED <<new, cache, old, stamp, pc>>
    BY <1>0, <1>1 DEF WriteInPlace, readerVars
  <2>2. QED BY <1>0, <2>1 DEF File
<1>2. ASSUME NEW d \in Content, PrepareNew(d)
      PROVE  MtimesGrow' /\ CacheInv'
  <2>1. /\ new'.mtime = last + 1 /\ last' = last + 1
        /\ UNCHANGED <<file, cache, old, stamp, pc>>
    BY <1>0, <1>2 DEF PrepareNew, readerVars
  <2>2. QED BY <1>0, <2>1 DEF File
<1>3. CASE RenameNew \/ Remove
  <2>1. /\ UNCHANGED <<last, cache, stamp, pc>>
        /\ \/ new # Null /\ file' = new /\ new' = Null
           \/ file' = Null /\ new' = new
        /\ \A r \in Readers : old'[r] = old[r] \/ old'[r] = file
    BY <1>3 DEF RenameNew, Remove, LeaveOpen
  <2>2. QED BY <1>0, <2>1 DEF File
<1>4. QED BY <1>1, <1>2, <1>3 DEF Writer

LEMMA WriterKeepsReaders ==
    ASSUME IInv, ~Coarse, Writer, TypeOK', NEW r \in Readers
    PROVE  OpenInv(r)' /\ AnswerInv(r)'
<1> USE DEF IInv, InLookup, HasOpen
<1>0. /\ Observe /\ UNCHANGED <<cache, pc, stamp, got, answer>>
      /\ pc[r] # "idle" => seen[r] \subseteq seen'[r]
  <2>1. Observe /\ UNCHANGED <<cache, pc, stamp, got, answer>>
    BY DEF Writer, WriteInPlace, PrepareNew, RenameNew, Remove, readerVars
  <2>2. QED BY <2>1, SeenForgetsNothing
<1>1. AnswerInv(r)'
  <2>1. InLookup(r)' /\ file' # Null => file'.data \in seen'[r]
    BY <1>0, SeenCountsThePresent
  <2>2. QED BY <1>0, <2>1 DEF AnswerInv, TypeOK
<1>2. /\ last \in Nat /\ Mtimes = {t \in last..MaxMtime : t = last + 1}
      /\ file # Null => file \in File
      /\ new # Null => new \in File
      /\ old[r] # Null => old[r] \in File
      /\ stamp[r][1] \in Nat
  BY AllowlistAssumption DEF TypeOK, Mtimes, Stamp
<1>3. ASSUME NEW d \in Content, WriteInPlace(d)
      PROVE  OpenInv(r)'
  <2>1. InPlace /\ file' # Null /\ file'.mtime = last + 1 /\ old' = old
    BY <1>2, <1>3, AllowlistAssumption DEF WriteInPlace, readerVars, TypeOK, File
  <2>2. CASE old[r] = Null
    BY <1>0, <1>2, <2>1, <2>2 DEF OpenInv, Handle, MtimesGrow, Unread, TypeOK
  <2>3. CASE old[r] # Null
    BY <1>0, <1>2, <2>1, <2>3 DEF OpenInv, Handle, MtimesGrow, Unread, File
  <2>4. QED BY <2>2, <2>3
<1>4. ASSUME NEW d \in Content, PrepareNew(d)
      PROVE  OpenInv(r)'
  BY <1>0, <1>4 DEF PrepareNew, readerVars, OpenInv, Handle, Unread
<1>5. CASE RenameNew \/ Remove
  <2>1. /\ old' = [q \in Readers |-> IF HasOpen(q) /\ old[q] = Null THEN file ELSE old[q]]
        /\ \/ new # Null /\ file' = new
           \/ file' = Null
    BY <1>5 DEF RenameNew, Remove, LeaveOpen
  <2>2. CASE ~HasOpen(r)
    <3>1. old[r] = Null /\ pc[r] # "read"
      BY <2>2 DEF OpenInv
    <3>2. old'[r] = old[r]
      BY <2>1, <2>2
    <3>3. QED BY <1>0, <1>1, <3>1, <3>2 DEF OpenInv
  <2>3. CASE HasOpen(r)
    <3>1. old'[r] = Handle(r) /\ Handle(r) # Null
      BY <2>1, <2>3 DEF Handle, TypeOK
    <3>2. Handle(r)' = Handle(r)
      BY <3>1 DEF Handle
    <3>3. Handle(r).data \in seen[r] /\ seen[r] \subseteq seen'[r]
      BY <1>0, <2>3, <3>1 DEF Handle, OpenInv, AnswerInv
    <3>4. file' # Null => file'.mtime # Handle(r).mtime
      BY <2>1, <3>1 DEF Handle, MtimesGrow
    <3>5. pc[r] = "read" /\ file' # Null => file'.mtime # stamp[r][1]
      <4>1. pc[r] = "read" /\ new # Null => stamp[r][1] # new.mtime
        BY DEF MtimesGrow
      <4>2. QED BY <2>1, <4>1
    <3>6. QED
      BY <1>0, <1>1, <2>3, <3>1, <3>2, <3>3, <3>4, <3>5 DEF OpenInv, Unread
  <2>4. QED BY <2>2, <2>3
<1>6. QED BY <1>1, <1>3, <1>4, <1>5 DEF Writer

-----------------------------------------------------------------------------
(* The readers' steps.                                                     *)

LEMMA StampHasMtime == ASSUME NEW f PROVE StampOf(f)[1] = f.mtime
BY DEF StampOf

(* A file that was read from start to end without its mtime changing is    *)
(* the file that was read.                                                 *)
LEMMA ParsedIsTheFile ==
    ASSUME IInv, NEW r \in Readers, pc[r] = "read", Unread(got[r]) = {}, got[r] \in Valid,
           file # Null, file.mtime = stamp[r][1]
    PROVE  got[r] = file.data
<1>1. old[r] = Null /\ Handle(r) = file
  BY DEF IInv, OpenInv, Handle
<1>2. \A b \in Blocks : got[r][b] = file.data[b]
  BY <1>1 DEF IInv, OpenInv
<1>3. got[r] \in [Blocks -> Data] /\ file.data \in [Blocks -> Data]
  BY AllowlistAssumption DEF IInv, TypeOK, File, Content
<1>4. QED BY <1>2, <1>3

LEMMA ReaderKeepsMtimes ==
    ASSUME IInv, NEW r \in Readers, Load(r) \/ Lookup(r) \/ Reader(r) \/ Leave(r), TypeOK'
    PROVE  MtimesGrow' /\ CacheInv'
<1> USE DEF IInv, fileVars
<1>1. CASE Load(r) \/ Lookup(r) \/ Lock(r) \/ Refresh(r) \/ Open(r) \/ ReadBlock(r) \/ Leave(r)
  <2>1. UNCHANGED <<file, new, last, cache, old, stamp>>
    BY <1>1 DEF Load, Lookup, Lock, Refresh, Open, ReadBlock, Leave
  <2>2. \A q \in Readers : pc'[q] = "read" => pc[q] = "read"
    BY <1>1 DEF Load, Lookup, Lock, Refresh, Open, ReadBlock, Leave, Goto, TypeOK
  <2>3. QED BY <2>1, <2>2 DEF MtimesGrow, CacheInv
<1>2. CASE Fstat(r)
  <2>1. /\ UNCHANGED <<file, new, last, cache, old>>
        /\ \A q \in Readers : q # r => stamp'[q] = stamp[q] /\ pc'[q] = pc[q]
        /\ stamp'[r][1] = Handle(r).mtime
    BY <1>2, StampHasMtime DEF Fstat, Goto, TypeOK
  <2>2. /\ Handle(r) # Null /\ Handle(r).mtime <= last
        /\ new # Null => Handle(r).mtime # new.mtime
    BY <1>2 DEF Fstat, Handle, MtimesGrow, TypeOK, HasOpen
  <2>3. QED BY <2>1, <2>2 DEF MtimesGrow, CacheInv
<1>3. CASE (Parse(r) /\ UNCHANGED cache) \/ Fails(r) \/ Answer(r)
  <2>1. /\ UNCHANGED <<file, new, last, cache>>
        /\ \A q \in Readers : /\ old'[q] \in {old[q], Null}
                              /\ stamp'[q] \in {stamp[q], <<0, 0>>}
                              /\ pc'[q] = "read" => pc[q] = "read" /\ stamp'[q] = stamp[q]
    BY <1>3 DEF Parse, Fails, Answer, Return, Close, Goto, TypeOK
  <2>2. last \in Nat
    BY AllowlistAssumption DEF TypeOK
  <2>3. QED BY <2>1, <2>2 DEF MtimesGrow, CacheInv
<1>4. CASE Parse(r) /\ cache' = [data |-> got[r], stamp |-> stamp[r]] /\ got[r] \in Valid
  <2>1. /\ UNCHANGED <<file, new, last>>
        /\ \A q \in Readers : /\ old'[q] \in {old[q], Null}
                              /\ stamp'[q] \in {stamp[q], <<0, 0>>}
                              /\ pc'[q] = "read" => pc[q] = "read" /\ stamp'[q] = stamp[q]
    BY <1>4 DEF Parse, Return, Close, Goto, TypeOK
  <2>2. /\ pc[r] = "read" /\ Unread(got[r]) = {}
        /\ cache'.data = got[r] /\ cache'.stamp = stamp[r]
    BY <1>4 DEF Parse
  <2>3. CacheInv'
    BY <1>4, <2>1, <2>2, ParsedIsTheFile DEF CacheInv
  <2>4. last \in Nat
    BY AllowlistAssumption DEF TypeOK
  <2>5. stamp[r][1] <= last /\ (new # Null => stamp[r][1] # new.mtime)
    BY <2>2 DEF MtimesGrow
  <2>6. QED BY <2>1, <2>2, <2>3, <2>4, <2>5 DEF MtimesGrow
<1>5. QED BY <1>1, <1>2, <1>3, <1>4 DEF Reader, Parse

LEMMA OthersKeepReader ==
    ASSUME IInv, NEW r \in Readers, Load(r) \/ Lookup(r) \/ Reader(r) \/ Leave(r),
           NEW q \in Readers, q # r
    PROVE  OpenInv(q)' /\ AnswerInv(q)'
<1> USE DEF IInv, InLookup, HasOpen, Handle
<1>1. /\ Observe /\ file' = file
      /\ pc'[q] = pc[q] /\ old'[q] = old[q] /\ stamp'[q] = stamp[q] /\ got'[q] = got[q]
      /\ answer'[q] = answer[q]
  BY DEF Load, Lookup, Reader, Lock, Refresh, Open, Fstat, ReadBlock, Parse, Fails, Answer, Leave,
         Return, Close, Goto, TypeOK, fileVars
<1>2. pc[q] = "answer" => cache' = cache
  BY DEF Holder, Load, Lookup, Reader, Lock, Refresh, Open, Fstat, ReadBlock, Parse, Fails, Answer,
         Leave
<1>3. pc[q] # "idle" => seen[q] \subseteq seen'[q]
  BY <1>1, SeenForgetsNothing
<1>4. OpenInv(q)'
  BY <1>1, <1>3 DEF OpenInv, Unread
<1>5. InLookup(q)' /\ file' # Null => file'.data \in seen'[q]
  BY <1>1, SeenCountsThePresent
<1>6. AnswerInv(q)'
  BY <1>1, <1>2, <1>3, <1>5 DEF AnswerInv, TypeOK
<1>7. QED BY <1>4, <1>6

LEMMA ReaderKeepsItself ==
    ASSUME IInv, ~Coarse, NEW r \in Readers, Load(r) \/ Lookup(r) \/ Reader(r) \/ Leave(r), TypeOK'
    PROVE  OpenInv(r)' /\ AnswerInv(r)'
<1> USE DEF IInv, InLookup, HasOpen
<1>0. /\ Observe /\ file' = file
      /\ InLookup(r)' /\ file # Null => file.data \in seen'[r]
      /\ pc[r] # "idle" /\ pc'[r] # "idle" => seen[r] \subseteq seen'[r]
  <2>1. Observe /\ file' = file
    BY DEF Load, Lookup, Reader, Lock, Refresh, Open, Fstat, ReadBlock, Parse, Fails, Answer, Leave,
           fileVars
  <2>2. QED BY <2>1, SeenCountsThePresent, SeenForgetsNothing
<1>1. CASE Load(r) \/ Lookup(r) \/ Lock(r) \/ Open(r)
  <2>1. /\ UNCHANGED <<old, got, answer>>
        /\ pc'[r] \in {"lock", "stat", "open", "fstat"}
        /\ pc[r] \in {"idle", "lock", "open"}
    BY <1>1 DEF Load, Lookup, Lock, Open, Goto, TypeOK
  <2>2. old[r] = Null /\ got[r] = Nothing /\ answer[r] = Null
    BY <2>1 DEF OpenInv, AnswerInv
  <2>3. QED BY <1>0, <2>1, <2>2 DEF OpenInv, AnswerInv, Nothing
<1>2. CASE Refresh(r)
  <2>1. /\ UNCHANGED <<old, got, answer, cache>>
        /\ pc[r] = "stat" /\ file # Null /\ cache # Null
        /\ pc'[r] = IF StampOf(file) = cache.stamp THEN "answer" ELSE "open"
    BY <1>2 DEF Refresh, Goto, TypeOK
  <2>2. old[r] = Null /\ got[r] = Nothing /\ answer[r] = Null
    BY <2>1 DEF OpenInv, AnswerInv
  <2>3. pc'[r] = "answer" => cache.data = file.data
    BY <2>1, StampHasMtime DEF CacheInv
  <2>4. pc'[r] = "answer" => \A b \in Blocks : \E d \in seen'[r] : cache.data[b] = d[b]
    BY <1>0, <2>1, <2>3
  <2>5. QED BY <1>0, <2>1, <2>2, <2>4 DEF OpenInv, AnswerInv, Nothing
<1>3. CASE Fstat(r)
  <2>1. /\ UNCHANGED <<old, got, answer>>
        /\ pc[r] = "fstat" /\ pc'[r] = "read"
        /\ stamp'[r][1] = Handle(r).mtime
        /\ Handle(r)' = Handle(r)
    BY <1>0, <1>3, StampHasMtime DEF Fstat, Goto, TypeOK, Handle
  <2>2. got[r] = Nothing /\ answer[r] = Null /\ Blocks \ Unread(got[r]) = {}
    BY <2>1 DEF OpenInv, AnswerInv, Nothing, Unread
  <2>3. old[r] # Null => Handle(r) = old[r]
    BY DEF Handle
  <2>4. Unread(got[r])' = Unread(got[r])
    BY <2>1 DEF Unread
  <2>5. QED BY <1>0, <2>1, <2>2, <2>3, <2>4 DEF OpenInv, AnswerInv
<1>4. CASE ReadBlock(r)
  <2>1. PICK b \in Unread(got[r]) : got' = [got EXCEPT ![r][b] = Handle(r).data[b]]
    BY <1>4 DEF ReadBlock
  <2>2. /\ UNCHANGED <<pc, old, stamp, answer>> /\ Handle(r)' = Handle(r) /\ pc[r] = "read"
    BY <1>0, <1>4 DEF ReadBlock, Handle
  <2>3. \A c \in Blocks : got'[r][c] = IF c = b THEN Handle(r).data[b] ELSE got[r][c]
    BY <2>1 DEF TypeOK, Unread
  <2>4. \A c \in Blocks \ Unread(got[r])' : c = b \/ c \in Blocks \ Unread(got[r])
    BY <2>3 DEF Unread
  <2>5. Handle(r).data \in seen'[r]
    <3>1. CASE old[r] = Null
      BY <1>0, <2>2, <3>1 DEF Handle, TypeOK
    <3>2. CASE old[r] # Null
      BY <1>0, <2>2, <3>2 DEF Handle, OpenInv
    <3>3. QED BY <3>1, <3>2
  <2>6. \A c \in Blocks \ Unread(got[r])' : \E d \in seen'[r] : got'[r][c] = d[c]
    BY <1>0, <2>2, <2>3, <2>4, <2>5 DEF OpenInv
  <2>7. Handle(r).mtime = stamp[r][1] =>
          \A c \in Blocks \ Unread(got[r])' : got'[r][c] = Handle(r).data[c]
    BY <2>2, <2>3, <2>4 DEF OpenInv
  <2>8. OpenInv(r)'
    BY <1>0, <2>2, <2>6, <2>7 DEF OpenInv
  <2>9. QED BY <1>0, <2>2, <2>8 DEF AnswerInv
<1>5. CASE Parse(r)
  <2>1. /\ pc[r] = "read" /\ Unread(got[r]) = {}
        /\ old'[r] = Null /\ got'[r] = Nothing
        /\ \/ pc'[r] = "answer" /\ answer' = answer /\ cache'.data = got[r]
           \/ pc'[r] = "failed" /\ answer'[r] = Null
    BY <1>5 DEF Parse, Return, Close, Goto, TypeOK
  <2>2. OpenInv(r)'
    BY <2>1 DEF OpenInv
  <2>3. /\ answer[r] = Null
        /\ \A b \in Blocks : \E d \in seen'[r] : got[r][b] = d[b]
    BY <1>0, <2>1 DEF OpenInv, AnswerInv
  <2>4. AnswerInv(r)'
    BY <1>0, <2>1, <2>3 DEF AnswerInv
  <2>5. QED BY <2>2, <2>4
<1>6. CASE Fails(r) \/ Answer(r)
  <2>1. /\ old'[r] = Null /\ got'[r] = Nothing
        /\ \/ pc'[r] = "failed" /\ answer'[r] = Null
           \/ pc[r] = "answer" /\ pc'[r] = "done" /\ answer'[r] = cache.data
    BY <1>6 DEF Fails, Answer, Return, Close, Goto, TypeOK
  <2>2. OpenInv(r)'
    BY <2>1 DEF OpenInv
  <2>3. AnswerInv(r)'
    BY <1>0, <2>1 DEF AnswerInv
  <2>4. QED BY <2>2, <2>3
<1>7. CASE Leave(r)
  <2>1. /\ UNCHANGED <<old, got>> /\ pc[r] \in {"done", "failed"} /\ pc'[r] = "idle"
        /\ answer'[r] = Null
    BY <1>7 DEF Leave, Goto, TypeOK
  <2>2. QED BY <2>1 DEF OpenInv, AnswerInv
<1>8. QED BY <1>1, <1>2, <1>3, <1>4, <1>5, <1>6, <1>7 DEF Reader

-----------------------------------------------------------------------------
(* The theorems, for file systems that give no two writes the same mtime.  *)

LEMMA InitInv == Init => IInv
<1> SUFFICES ASSUME Init PROVE IInv
  OBVIOUS
<1>1. TypeOK
  BY InitType
<1>2. Holder
  BY AllowlistAssumption DEF Init, Holder
<1>3. MtimesGrow /\ CacheInv
  BY DEF Init, MtimesGrow, CacheInv
<1>4. ASSUME NEW r \in Readers
      PROVE  OpenInv(r) /\ AnswerInv(r)
  BY DEF Init, OpenInv, AnswerInv, InLookup, HasOpen
<1>5. QED BY <1>1, <1>2, <1>3, <1>4 DEF IInv

LEMMA NextInv == ASSUME ~Coarse, IInv, [Next]_vars PROVE IInv'
<1>1. TypeOK' /\ Holder'
  BY NextType, HolderStep DEF IInv
<1>2. ASSUME NEW r \in Readers, Load(r) \/ Lookup(r) \/ Reader(r) \/ Leave(r)
      PROVE  IInv'
  <2>1. MtimesGrow' /\ CacheInv'
    BY <1>1, <1>2, ReaderKeepsMtimes
  <2>2. ASSUME NEW q \in Readers
        PROVE  OpenInv(q)' /\ AnswerInv(q)'
    BY <1>1, <1>2, ReaderKeepsItself, OthersKeepReader
  <2>3. QED BY <1>1, <2>1, <2>2 DEF IInv
<1>3. CASE Writer
  BY <1>1, <1>3, WriterKeepsMtimes, WriterKeepsReaders DEF IInv
<1>4. CASE UNCHANGED vars
  BY <1>1, <1>4 DEF vars, fileVars, readerVars, IInv, MtimesGrow, CacheInv, OpenInv, AnswerInv,
                    HasOpen, InLookup, Handle, Unread
<1>5. QED BY <1>2, <1>3, <1>4 DEF Next

THEOREM Invariance == ASSUME ~Coarse PROVE Spec => []IInv
<1>1. IInv /\ [Next]_vars => IInv'
  BY NextInv
<1>2. QED BY <1>1, InitInv, PTL DEF Spec

(* The cache is the file whenever a stat takes it for the file, also when  *)
(* the file was being written or replaced while it was read.               *)
THEOREM CacheNeverStale == ASSUME ~Coarse PROVE Spec => []CacheIsCurrent
<1>1. IInv => CacheIsCurrent
  BY StampHasMtime DEF IInv, CacheInv, CacheIsCurrent
<1>2. QED BY <1>1, Invariance, PTL

(* Whatever Lookup answers from was in the file during the call.           *)
THEOREM AnswersAreFresh == ASSUME ~Coarse PROVE Spec => []AnswerIsFresh
<1>1. IInv => AnswerIsFresh
  BY DEF IInv, AnswerInv, AnswerIsFresh
<1>2. QED BY <1>1, Invariance, PTL

-----------------------------------------------------------------------------
(* Allowlist implements DeviceList where nobody writes in place.           *)

LEMMA InitRefines == Init => Abstract!Init
<1> SUFFICES ASSUME Init PROVE Abstract!Init
  OBVIOUS
<1>1. PICK d \in Content : file = [data |-> d, mtime |-> 0]
  BY DEF Init
<1>2. file # Null /\ file.data \in Content
  BY <1>1, AllowlistAssumption
<1>3. \A r \in Readers : CallOf(r) = "none" /\ ResultOf(r) = Null
  BY DEF Init, CallOf, ResultOf, HasOpen
<1>4. QED BY <1>2, <1>3 DEF Abstract!Init

LEMMA OthersLookTheSame ==
    ASSUME IInv, NEW r \in Readers, Load(r) \/ Lookup(r) \/ Reader(r) \/ Leave(r),
           NEW q \in Readers, q # r
    PROVE  CallOf(q)' = CallOf(q) /\ ResultOf(q)' = ResultOf(q)
<1>1. /\ file' = file /\ pc'[q] = pc[q] /\ old'[q] = old[q] /\ answer'[q] = answer[q]
  BY DEF IInv, Load, Lookup, Reader, Lock, Refresh, Open, Fstat, ReadBlock, Parse, Fails, Answer,
         Leave, Return, Close, Goto, TypeOK, fileVars
<1>2. pc[q] = "answer" => cache' = cache
  BY DEF IInv, Holder, Load, Lookup, Reader, Lock, Refresh, Open, Fstat, ReadBlock, Parse, Fails,
         Answer, Leave
<1>3. QED BY <1>1, <1>2 DEF CallOf, ResultOf, Handle, HasOpen

(* What a reader's step does to its own call, seen from DeviceList.        *)
LEMMA CallSteps ==
    ASSUME IInv, IInv', ~InPlace, NEW r \in Readers, Load(r) \/ Lookup(r) \/ Reader(r) \/ Leave(r)
    PROVE  \/ CallOf(r)' = CallOf(r) /\ ResultOf(r)' = ResultOf(r)
           \/ CallOf(r) = "none" /\ CallOf(r)' = "asked" /\ ResultOf(r)' = ResultOf(r)
           \/ /\ CallOf(r) = "asked" /\ CallOf(r)' = "decided"
              /\ file # Null /\ ResultOf(r)' = Judged(file.data)
           \/ CallOf(r) = "decided" /\ CallOf(r)' = "answered" /\ ResultOf(r)' = ResultOf(r)
           \/ CallOf(r) \in {"asked", "decided"} /\ CallOf(r)' = "answered" /\ ResultOf(r)' = Null
           \/ CallOf(r) = "answered" /\ CallOf(r)' = "none" /\ ResultOf(r)' = Null
<1> USE DEF IInv, CallOf, ResultOf, HasOpen
<1>0. file' = file
  BY DEF Load, Lookup, Reader, Lock, Refresh, Open, Fstat, ReadBlock, Parse, Fails, Answer, Leave,
         fileVars
<1>1. CASE Load(r) \/ Lookup(r)
  <2>1. pc[r] = "idle" /\ pc'[r] \in {"open", "lock"} /\ answer' = answer
    BY <1>1 DEF Load, Lookup, Goto, TypeOK
  <2>2. QED BY <2>1
<1>2. CASE Lock(r)
  <2>1. pc[r] = "lock" /\ pc'[r] = "stat" /\ answer' = answer
    BY <1>2 DEF Lock, Goto, TypeOK
  <2>2. QED BY <2>1
<1>3. CASE Refresh(r)
  <2>1. /\ pc[r] = "stat" /\ answer' = answer /\ cache' = cache /\ file # Null /\ cache # Null
        /\ pc'[r] = IF StampOf(file) = cache.stamp THEN "answer" ELSE "open"
    BY <1>3 DEF Refresh, Goto, TypeOK
  <2>2. pc'[r] = "answer" => cache.data = file.data /\ cache.data \in Valid
    BY <2>1, StampHasMtime DEF CacheInv, TypeOK
  <2>3. QED BY <2>1, <2>2 DEF Judged
<1>4. CASE Open(r)
  <2>1. pc[r] = "open" /\ pc'[r] = "fstat" /\ file # Null /\ old' = old /\ old[r] = Null
    BY <1>4 DEF Open, Goto, TypeOK, OpenInv
  <2>2. QED BY <1>0, <2>1 DEF Handle
<1>5. CASE Fstat(r) \/ ReadBlock(r)
  <2>1. pc[r] \in {"fstat", "read"} /\ pc'[r] = "read" /\ old' = old
    BY <1>5 DEF Fstat, ReadBlock, Goto, TypeOK
  <2>2. QED BY <1>0, <2>1 DEF Handle
<1>6. CASE Parse(r)
  <2>1. pc[r] = "read" /\ Unread(got[r]) = {}
    BY <1>6 DEF Parse
  <2>2. \A b \in Blocks : got[r][b] = Handle(r).data[b]
    BY <2>1 DEF OpenInv
  <2>3. Handle(r).data \in [Blocks -> Data]
    BY <2>1 DEF TypeOK, Handle, File, Content
  <2>4. got[r] \in [Blocks -> Data]
    BY <2>1 DEF TypeOK, Unread
  <2>5. got[r] = Handle(r).data
    BY <2>2, <2>3, <2>4
  <2>6. \/ got[r] \in Valid /\ pc'[r] = "answer" /\ cache'.data = got[r]
        \/ got[r] \notin Valid /\ pc'[r] = "failed" /\ answer'[r] = Null
    BY <1>6 DEF Parse, Return, Close, Goto, TypeOK
  <2>7. QED BY <2>1, <2>5, <2>6 DEF Judged
<1>7. CASE Fails(r)
  <2>1. pc[r] \in {"stat", "open", "fstat", "read"} /\ pc'[r] = "failed" /\ answer'[r] = Null
    BY <1>7 DEF Fails, Return, Goto, TypeOK
  <2>2. QED BY <2>1
<1>8. CASE Answer(r)
  <2>1. pc[r] = "answer" /\ pc'[r] = "done" /\ answer'[r] = cache.data
    BY <1>8 DEF Answer, Return, Goto, TypeOK
  <2>2. QED BY <2>1
<1>9. CASE Leave(r)
  <2>1. pc[r] \in {"done", "failed"} /\ pc'[r] = "idle" /\ answer'[r] = Null
    BY <1>9 DEF Leave, Goto, TypeOK
  <2>2. QED BY <2>1
<1>10. QED BY <1>1, <1>2, <1>3, <1>4, <1>5, <1>6, <1>7, <1>8, <1>9 DEF Reader

LEMMA WriterRefines ==
    ASSUME IInv, ~InPlace, Writer, TypeOK'
    PROVE  [Abstract!Next]_Abstract!vars
<1>1. /\ file' \in File \cup {Null}
      /\ UNCHANGED <<pc, cache, answer>>
      /\ \A r \in Readers : HasOpen(r) => Handle(r)' = Handle(r)
  BY DEF IInv, Writer, WriteInPlace, PrepareNew, RenameNew, Remove, LeaveOpen, Handle, HasOpen,
         TypeOK, readerVars
<1>2. \A r \in Readers : CallOf(r)' = CallOf(r) /\ ResultOf(r)' = ResultOf(r)
  BY <1>1 DEF CallOf, ResultOf, HasOpen
<1>3. (IF file = Null THEN Null ELSE file.data)' \in Content \cup {Null}
  BY <1>1 DEF File
<1>4. Abstract!Publish
  BY <1>2, <1>3 DEF Abstract!Publish
<1>5. QED BY <1>4 DEF Abstract!Next

LEMMA ReaderRefines ==
    ASSUME IInv, IInv', ~InPlace, NEW r \in Readers, Load(r) \/ Lookup(r) \/ Reader(r) \/ Leave(r)
    PROVE  [Abstract!Next]_Abstract!vars
<1> DEFINE list == IF file = Null THEN Null ELSE file.data
           call == [q \in Readers |-> CallOf(q)]
           result == [q \in Readers |-> ResultOf(q)]
<1>1. file' = file
  BY DEF Load, Lookup, Reader, Lock, Refresh, Open, Fstat, ReadBlock, Parse, Fails, Answer, Leave,
         fileVars
<1>2. /\ call' = [call EXCEPT ![r] = CallOf(r)']
      /\ result' = [result EXCEPT ![r] = ResultOf(r)']
      /\ call[r] = CallOf(r) /\ result[r] = ResultOf(r)
      /\ list' = list
  BY <1>1, OthersLookTheSame
<1>3. file # Null => list = file.data
  OBVIOUS
<1>4. \/ call' = call /\ result' = result
      \/ call[r] = "none" /\ call' = [call EXCEPT ![r] = "asked"] /\ result' = result
      \/ /\ call[r] = "asked" /\ call' = [call EXCEPT ![r] = "decided"]
         /\ result' = [result EXCEPT ![r] = IF list \in Valid THEN list ELSE Null]
      \/ call[r] = "decided" /\ call' = [call EXCEPT ![r] = "answered"] /\ result' = result
      \/ /\ call[r] \in {"asked", "decided"} /\ call' = [call EXCEPT ![r] = "answered"]
         /\ result' = [result EXCEPT ![r] = Null]
      \/ /\ call[r] = "answered" /\ call' = [call EXCEPT ![r] = "none"]
         /\ result' = [result EXCEPT ![r] = Null]
  <2> HIDE DEF list, call, result
  <2>1. /\ CallOf(r)' = call[r] => call' = call
        /\ ResultOf(r)' = result[r] => result' = result
    BY <1>2 DEF call, result
  <2>2. QED BY <1>2, <1>3, <2>1, CallSteps DEF Judged
<1>5. \/ UNCHANGED <<list, call, result>>
      \/ Abstract!Ask(r) \/ Abstract!Read(r) \/ Abstract!Reply(r) \/ Abstract!Fail(r)
      \/ Abstract!Forget(r)
  BY <1>2, <1>4 DEF Abstract!Ask, Abstract!Read, Abstract!Reply, Abstract!Fail, Abstract!Forget
<1>6. QED BY <1>5 DEF Abstract!Next, Abstract!vars

(* The caching, locking reader is the one-step reader Webhook is built on. *)
THEOREM Refinement == ASSUME ~Coarse, ~InPlace PROVE Spec => ImplementsDeviceList
<1>1. ASSUME IInv, IInv', [Next]_vars
      PROVE  [Abstract!Next]_Abstract!vars
  <2>1. CASE Next
    BY <1>1, <2>1, WriterRefines, ReaderRefines DEF Next, IInv
  <2>2. CASE UNCHANGED vars
    BY <2>2 DEF vars, fileVars, readerVars, Abstract!vars, CallOf, ResultOf, HasOpen, Handle
  <2>3. QED BY <1>1, <2>1, <2>2
<1>2. QED BY <1>1, InitRefines, Invariance, PTL DEF Spec, ImplementsDeviceList, Abstract!Spec
=============================================================================
