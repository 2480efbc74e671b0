--------------------------- MODULE KeyPairProofs ---------------------------
(***************************************************************************)
(* Proofs about KeyPair, for any number of handshakes, certificates and    *)
(* changes of the files.                                                   *)
(***************************************************************************)
EXTENDS KeyPair, TLAPS

-----------------------------------------------------------------------------
(* What the parts of a step come to.                                       *)

ReaderStep(r) ==
    Start(r) \/ ClientHello(r) \/ GetCertificate(r) \/ ReadError(r) \/ Leave(r)

LEMMA OneOfThem ==
    Next <=> \/ \E r \in Readers : ReaderStep(r)
             \/ Exit
             \/ \E f \in Parts : Remove(f) \/ \E d \in Items : Install(f, d)
BY DEF Next, ReaderStep

LEMMA PartsAreTwo == "crt" \in Parts /\ "key" \in Parts /\ \A f \in Parts : f \in {"crt", "key"}
BY DEF Parts

(* What is read under the mutex is a pair of files, and kept as such.      *)
LEMMA KeptIsTyped ==
    ASSUME IInv, NEW r \in Readers, ReadKey(r), PairRead(r) \in Fits
    PROVE  /\ cache' = [pair |-> PairRead(r), mod |-> stat[r],
                        from |-> [f \in Parts |-> FileRead(r, f).mtime]]
           /\ cache' \in [pair : Fits, mod : [Parts -> Mtimes], from : [Parts -> Mtimes]]
           /\ cache' # Null
<1>1. cache' = [pair |-> PairRead(r), mod |-> stat[r],
                from |-> [f \in Parts |-> FileRead(r, f).mtime]]
  BY DEF ReadKey, Keep
<1>2. stat[r] \in [Parts -> Mtimes]
  <2>1. stat[r] \in [Parts -> Mtimes \cup {Null}]
    BY DEF IInv, TypeOK
  <2>2. \A f \in Parts : stat[r][f] # Null
    BY PartsAreTwo DEF IInv, HandshakeInv, ReadKey
  <2>3. QED BY <2>1, <2>2
<1>3. \A f \in Parts : FileRead(r, f) \in File
  BY PartsAreTwo DEF IInv, TypeOK, HandshakeInv, ReadKey, FileRead
<1>4. [f \in Parts |-> FileRead(r, f).mtime] \in [Parts -> Mtimes]
  BY <1>3 DEF File
<1>5. cache' \in [pair : Fits, mod : [Parts -> Mtimes], from : [Parts -> Mtimes]]
  BY <1>1, <1>2, <1>4
<1>6. QED BY <1>1, <1>5, KeyPairAssumption DEF Mtimes

-----------------------------------------------------------------------------
(* The initial state.                                                      *)

LEMMA InitInv == Init => IInv
<1> SUFFICES ASSUME Init PROVE IInv
  OBVIOUS
<1>1. PICK p \in Fits : disk = [f \in Parts |-> [item |-> p[f], mtime |-> 0]]
  BY DEF Init
<1>2. \A f \in Parts : p[f] \in Items
  BY KeyPairAssumption
<1>3. TypeOK
  <2>1. disk \in [Parts -> File \cup {Null}]
    BY <1>1, <1>2, KeyPairAssumption DEF File, Mtimes
  <2>2. QED BY <2>1, KeyPairAssumption DEF Init, TypeOK, NoStat, Mtimes
<1>4. MtimesGrow
  BY <1>1 DEF Init, MtimesGrow
<1>5. \A r \in Readers : HandshakeInv(r) /\ QuietInv(r)
  BY PartsAreTwo DEF Init, HandshakeInv, QuietInv, NoStat
<1>6. Mutex
  BY KeyPairAssumption DEF Init, Mutex, Loading
<1>7. CacheInv /\ ServerInv
  BY DEF Init, CacheInv, ServerInv, InHandshake
<1>8. QED BY <1>3, <1>4, <1>5, <1>6, <1>7 DEF IInv

-----------------------------------------------------------------------------
(* Types.                                                                  *)

LEMMA ReturnType ==
    ASSUME TypeOK, NEW r \in Readers, NEW l \in {"served", "failed", "nofile"},
           NEW p \in Fits \cup {Null}, Return(r, l, p)
    PROVE  /\ server' \in {"down", "starting", "up"}
           /\ pc' \in [Readers -> {"idle", "statcrt", "statkey", "lock", "readcrt", "readkey",
                                   "served", "failed", "nofile"}]
           /\ stat' \in [Readers -> [Parts -> Mtimes \cup {Null}]]
           /\ read' \in [Readers -> File \cup {Null}]
           /\ answer' \in [Readers -> Fits \cup {Null}]
<1>1. NoStat \in [Parts -> Mtimes \cup {Null}]
  BY DEF NoStat
<1>2. QED BY <1>1 DEF TypeOK, Return, Goto

LEMMA TypeStep == ASSUME IInv, [Next]_vars PROVE TypeOK'
<1> USE KeyPairAssumption DEF TypeOK, fileVars, shared, own
<1>0. TypeOK
  BY DEF IInv
<1>1. ASSUME NEW r \in Readers, ReaderStep(r)
      PROVE  TypeOK'
  <2>1. CASE Start(r) \/ ClientHello(r) \/ Leave(r)
    BY <1>0, <2>1 DEF Start, ClientHello, Leave, Goto
  <2>2. CASE StatCert(r) \/ StatKey(r)
    <3>1. PICK f \in Parts, here \in {"statcrt", "statkey"}, next \in {"statkey", "lock"} :
            StatFile(r, f, here, next)
      BY <2>2, PartsAreTwo DEF StatCert, StatKey
    <3>2. disk[f].mtime \in Mtimes
      BY <1>0, <3>1 DEF StatFile, File
    <3>3. QED BY <1>0, <3>1, <3>2 DEF StatFile, Goto
  <2>3. CASE StatFails(r)
    <3>1. Return(r, "nofile", Null)
      BY <2>3 DEF StatFails
    <3>2. QED BY <1>0, <2>3, <3>1, ReturnType DEF StatFails
  <2>4. CASE Lock(r)
    <3>1. CASE Return(r, "served", cache.pair) /\ cache # Null
      <4>1. cache.pair \in Fits
        BY <1>0, <3>1
      <4>2. QED BY <1>0, <2>4, <3>1, <4>1, ReturnType DEF Lock
    <3>2. CASE lock' = r /\ Goto(r, "readcrt") /\ UNCHANGED <<server, stat, read, answer>>
      BY <1>0, <2>4, <3>2 DEF Lock, Goto
    <3>3. QED BY <2>4, <3>1, <3>2 DEF Lock, IsKnown
  <2>5. CASE ReadCert(r)
    BY <1>0, <2>5, PartsAreTwo DEF ReadCert, Goto
  <2>6. CASE KeepLastGood(r) /\ lock' = Null /\ quiet' \in [Readers -> BOOLEAN]
               /\ UNCHANGED fileVars
    <3>1. PICK l \in {"served", "failed"}, p \in Fits \cup {Null} : Return(r, l, p)
      BY <1>0, <2>6 DEF KeepLastGood
    <3>2. QED BY <1>0, <2>6, <3>1, ReturnType DEF KeepLastGood
  <2>7. CASE ReadKey(r) /\ PairRead(r) \in Fits
    <3>1. Return(r, "served", PairRead(r))
      BY <2>7 DEF ReadKey, Keep
    <3>2. QED BY <1>0, <2>7, <3>1, KeptIsTyped, ReturnType DEF ReadKey
  <2>8. CASE FileGone(r) \/ ReadError(r) \/ (ReadKey(r) /\ PairRead(r) \notin Fits)
    BY <1>0, <2>6, <2>8 DEF FileGone, ReadError, ReadKey
  <2>9. QED BY <1>1, <2>1, <2>2, <2>3, <2>4, <2>5, <2>7, <2>8 DEF ReaderStep, GetCertificate
<1>2. CASE Exit
  BY <1>0, <1>2 DEF Exit, NoStat
<1>3. ASSUME NEW f \in Parts, NEW d \in Items, Install(f, d)
      PROVE  TypeOK'
  <2>1. last[f] + 1 \in Mtimes
    BY <1>0, <1>3 DEF Install, Mtimes
  <2>2. QED BY <1>0, <1>3, <2>1 DEF Install, Change, File
<1>4. ASSUME NEW f \in Parts, Remove(f)
      PROVE  TypeOK'
  BY <1>0, <1>4 DEF Remove, Change
<1>5. CASE UNCHANGED vars
  BY <1>0, <1>5 DEF vars
<1>6. QED BY <1>1, <1>2, <1>3, <1>4, <1>5, OneOfThem

-----------------------------------------------------------------------------
(* What a step leaves alone.                                               *)

LEMMA LastIsNumber ==
    ASSUME TypeOK, NEW f \in Parts
    PROVE  last[f] \in Nat
BY KeyPairAssumption DEF TypeOK, Mtimes

LEMMA FilesAreTyped ==
    ASSUME TypeOK
    PROVE  /\ \A f \in Parts : disk[f] # Null => disk[f] \in File /\ disk[f].mtime \in Nat
           /\ \A r \in Readers : read[r] # Null => read[r] \in File /\ read[r].mtime \in Nat
BY KeyPairAssumption DEF TypeOK, File, Mtimes

LEMMA StatIsNumber ==
    ASSUME TypeOK, NEW r \in Readers, NEW f \in Parts, stat[r][f] # Null
    PROVE  stat[r][f] \in Nat
BY KeyPairAssumption DEF TypeOK, Mtimes

LEMMA CacheIsTyped ==
    ASSUME TypeOK, cache # Null
    PROVE  /\ cache.pair \in Fits
           /\ \A f \in Parts : cache.mod[f] \in Nat /\ cache.from[f] \in Nat
BY KeyPairAssumption DEF TypeOK, Mtimes

LEMMA OthersAreLeftAlone ==
    ASSUME IInv, NEW q \in Readers, ReaderStep(q), NEW r \in Readers \ {q}
    PROVE  /\ pc'[r] = pc[r] /\ stat'[r] = stat[r] /\ read'[r] = read[r]
           /\ answer'[r] = answer[r] /\ quiet'[r] = quiet[r]
<1> USE DEF Goto, Return, shared
<1>1. CASE Start(q) \/ ClientHello(q) \/ Leave(q)
  BY <1>1 DEF Start, ClientHello, Leave, IInv, TypeOK
<1>2. CASE StatCert(q) \/ StatKey(q)
  BY <1>2 DEF StatCert, StatKey, StatFile, IInv, TypeOK
<1>3. CASE StatFails(q) \/ Lock(q)
  BY <1>3 DEF StatFails, Lock, IInv, TypeOK
<1>4. CASE ReadCert(q) \/ ReadKey(q)
  BY <1>4 DEF ReadCert, ReadKey, Keep, KeepLastGood, IInv, TypeOK
<1>5. CASE FileGone(q) \/ ReadError(q)
  BY <1>5 DEF FileGone, ReadError, KeepLastGood, IInv, TypeOK
<1>6. QED BY <1>1, <1>2, <1>3, <1>4, <1>5 DEF ReaderStep, GetCertificate

LEMMA ReadersLeaveFiles ==
    ASSUME NEW q \in Readers, ReaderStep(q)
    PROVE  UNCHANGED fileVars
BY DEF ReaderStep, GetCertificate, Start, ClientHello, Leave, StatCert, StatKey, StatFile,
       StatFails, Lock, ReadCert, ReadKey, FileGone, ReadError

LEMMA OnlyLoadingFillsCache ==
    ASSUME NEW q \in Readers, ReaderStep(q)
    PROVE  UNCHANGED cache \/ (ReadKey(q) /\ PairRead(q) \in Fits)
BY DEF ReaderStep, GetCertificate, Start, ClientHello, Leave, StatCert, StatKey, StatFile,
       StatFails, Lock, ReadCert, ReadKey, FileGone, ReadError, KeepLastGood, shared

(* A change gives the file an mtime nobody has seen, or removes it.        *)
LEMMA ChangeIsNew ==
    ASSUME IInv, NEW f \in Parts, Remove(f) \/ \E d \in Items : Install(f, d)
    PROVE  /\ UNCHANGED <<shared, own>>
           /\ disk'[f] # Null => disk'[f].mtime = last'[f] /\ last'[f] = last[f] + 1
           /\ last'[f] \in {last[f], last[f] + 1}
           /\ \A g \in Parts \ {f} : disk'[g] = disk[g] /\ last'[g] = last[g]
           /\ \A r \in Readers : quiet'[r] => pc[r] = "idle"
<1> USE DEF IInv, TypeOK, Change
<1>1. CASE Remove(f)
  BY <1>1 DEF Remove
<1>2. ASSUME NEW d \in Items, Install(f, d)
      PROVE  /\ disk'[f].mtime = last'[f] /\ last'[f] = last[f] + 1
             /\ \A g \in Parts \ {f} : disk'[g] = disk[g] /\ last'[g] = last[g]
  BY <1>2 DEF Install
<1>3. QED BY <1>1, <1>2 DEF Install

LEMMA MtimesStep == ASSUME IInv, [Next]_vars PROVE MtimesGrow'
<1> USE DEF MtimesGrow
<1>1. ASSUME NEW r \in Readers, ReaderStep(r)
      PROVE  MtimesGrow'
  BY <1>1, ReadersLeaveFiles DEF IInv, fileVars
<1>2. CASE Exit \/ UNCHANGED vars
  BY <1>2 DEF Exit, IInv, vars, fileVars
<1>3. ASSUME NEW f \in Parts, Remove(f) \/ \E d \in Items : Install(f, d)
      PROVE  MtimesGrow'
  BY <1>3, ChangeIsNew DEF IInv
<1>4. QED BY <1>1, <1>2, <1>3, OneOfThem

LEMMA MutexStep == ASSUME IInv, [Next]_vars, TypeOK' PROVE Mutex'
<1> USE KeyPairAssumption DEF Mutex, Loading
<1>1. ASSUME NEW q \in Readers, ReaderStep(q), NEW r \in Readers
      PROVE  (Loading(r) <=> lock = r)'
  <2> USE DEF Goto, Return, shared
  <2>1. r # q => pc'[r] = pc[r]
    BY <1>1, OthersAreLeftAlone
  <2>2. CASE Start(q) \/ ClientHello(q) \/ Leave(q)
    BY <2>1, <2>2 DEF Start, ClientHello, Leave, IInv, TypeOK, Ended
  <2>3. CASE StatCert(q) \/ StatKey(q)
    BY <2>1, <2>3 DEF StatCert, StatKey, StatFile, IInv, TypeOK
  <2>4. CASE StatFails(q) \/ Lock(q)
    BY <2>1, <2>4 DEF StatFails, Lock, IInv, TypeOK
  <2>5. CASE ReadCert(q) \/ ReadKey(q)
    BY <2>1, <2>5 DEF ReadCert, ReadKey, Keep, KeepLastGood, IInv, TypeOK
  <2>6. CASE FileGone(q) \/ ReadError(q)
    BY <2>1, <2>6 DEF FileGone, ReadError, KeepLastGood, IInv, TypeOK
  <2>7. QED BY <1>1, <2>2, <2>3, <2>4, <2>5, <2>6 DEF ReaderStep, GetCertificate
<1>2. CASE Exit
  BY <1>2 DEF Exit
<1>3. ASSUME NEW f \in Parts, Remove(f) \/ \E d \in Items : Install(f, d)
      PROVE  Mutex'
  BY <1>3, ChangeIsNew DEF IInv, shared, own
<1>4. CASE UNCHANGED vars
  BY <1>4 DEF IInv, vars, shared, own
<1>5. QED BY <1>1, <1>2, <1>3, <1>4, OneOfThem

-----------------------------------------------------------------------------
(* Each part of the invariant.                                             *)

(* The holder of the mutex reads what is there now, which is no older than *)
(* what it saw before and than what is kept.                               *)
LEMMA OwnHandshake ==
    ASSUME IInv, NEW r \in Readers, ReaderStep(r)
    PROVE  HandshakeInv(r)'
<1> USE PartsAreTwo DEF Goto, Return, NoStat, HandshakeInv, Unchanged
<1>0. /\ TypeOK
      /\ HandshakeInv(r)
      /\ pc \in [Readers -> {"idle", "statcrt", "statkey", "lock", "readcrt", "readkey",
                             "served", "failed", "nofile"}]
      /\ stat \in [Readers -> [Parts -> Mtimes \cup {Null}]]
      /\ read \in [Readers -> File \cup {Null}]
      /\ UNCHANGED <<disk, last>>
  BY ReadersLeaveFiles DEF IInv, TypeOK, fileVars
<1>1. CASE Start(r) \/ ClientHello(r) \/ Leave(r)
  <2>1. /\ pc[r] \in {"idle", "served", "failed", "nofile"}
        /\ pc'[r] \in {"idle", "statcrt"}
        /\ UNCHANGED <<stat[r], read[r], cache>>
    BY <1>0, <1>1 DEF Start, ClientHello, Leave, Ended, shared
  <2>2. QED BY <1>0, <2>1
<1>2. CASE StatCert(r)
  <2>1. disk["crt"].mtime = last["crt"] /\ last["crt"] \in Nat /\ Null \notin Nat
    <3>1. disk["crt"] # Null
      BY <1>2 DEF StatCert, StatFile
    <3>2. QED BY <1>0, <3>1, LastIsNumber, KeyPairAssumption DEF IInv, MtimesGrow
  <2>2. /\ pc[r] = "statcrt" /\ pc'[r] = "statkey"
        /\ stat'[r]["crt"] = last["crt"] /\ stat'[r]["key"] = stat[r]["key"]
        /\ UNCHANGED <<read[r], cache>>
    BY <1>0, <1>2, <2>1 DEF StatCert, StatFile, shared
  <2>3. QED BY <1>0, <2>1, <2>2
<1>3. CASE StatKey(r)
  <2>1. disk["key"].mtime = last["key"] /\ last["key"] \in Nat /\ Null \notin Nat
    <3>1. disk["key"] # Null
      BY <1>3 DEF StatKey, StatFile
    <3>2. QED BY <1>0, <3>1, LastIsNumber, KeyPairAssumption DEF IInv, MtimesGrow
  <2>2. /\ pc[r] = "statkey" /\ pc'[r] = "lock"
        /\ stat'[r]["key"] = last["key"] /\ stat'[r]["crt"] = stat[r]["crt"]
        /\ UNCHANGED <<read[r], cache>>
    BY <1>0, <1>3, <2>1 DEF StatKey, StatFile, shared
  <2>3. QED BY <1>0, <2>1, <2>2
<1>4. CASE \E l \in {"served", "failed", "nofile"}, p \in Fits \cup {Null} : Return(r, l, p)
  BY <1>0, <1>4
<1>5. CASE StatFails(r)
  BY <1>4, <1>5 DEF StatFails
<1>6. CASE Lock(r)
  <2>1. CASE IsKnown(r) /\ Return(r, "served", cache.pair)
    BY <1>0, <1>4, <2>1, CacheIsTyped DEF IsKnown
  <2>2. CASE Goto(r, "readcrt") /\ UNCHANGED <<server, stat, read, answer>>
    BY <1>0, <1>6, <2>2 DEF Lock
  <2>3. QED BY <1>6, <2>1, <2>2 DEF Lock
<1>7. CASE ReadCert(r)
  <2>1. /\ disk["crt"].mtime = last["crt"] /\ last["crt"] \in Nat
        /\ cache # Null => cache.from["crt"] <= last["crt"]
    BY <1>0, <1>7, LastIsNumber DEF ReadCert, IInv, MtimesGrow, CacheInv
  <2>2. /\ pc[r] = "readcrt" /\ pc'[r] = "readkey"
        /\ read'[r] = disk["crt"] /\ disk["crt"] # Null
        /\ UNCHANGED <<stat[r], cache>>
    BY <1>0, <1>7 DEF ReadCert, shared
  <2>3. QED BY <1>0, <2>1, <2>2
<1>8. CASE KeepLastGood(r)
  <2>1. cache # Null => cache.pair \in Fits
    BY <1>0, CacheIsTyped
  <2>2. QED BY <1>4, <1>8, <2>1 DEF KeepLastGood
<1>9. CASE ReadKey(r)
  <2>1. CASE PairRead(r) \in Fits /\ Keep(r, stat[r])
    BY <1>4, <2>1 DEF Keep
  <2>2. QED BY <1>8, <1>9, <2>1 DEF ReadKey
<1>10. QED BY <1>1, <1>2, <1>3, <1>5, <1>6, <1>7, <1>8, <1>9
           DEF ReaderStep, GetCertificate, FileGone, ReadError

LEMMA HandshakeStep ==
    ASSUME IInv, [Next]_vars, NEW r \in Readers
    PROVE  HandshakeInv(r)'
<1>0. TypeOK /\ HandshakeInv(r)
  BY DEF IInv
<1>1. ASSUME NEW q \in Readers \ {r}, ReaderStep(q)
      PROVE  HandshakeInv(r)'
  <2>1. /\ UNCHANGED <<pc[r], stat[r], read[r], disk, last>>
    BY <1>1, OthersAreLeftAlone, ReadersLeaveFiles DEF fileVars
  <2>2. CASE UNCHANGED cache
    BY <1>0, <2>1, <2>2 DEF HandshakeInv, Unchanged
  <2>3. CASE ReadKey(q)
    <3>1. lock = q /\ lock # r
      BY <1>1, <2>3 DEF ReadKey, IInv, Mutex, Loading
    <3>2. read[r] = Null
      BY <1>0, <3>1 DEF HandshakeInv, IInv, Mutex, Loading
    <3>3. QED BY <1>0, <2>1, <3>2 DEF HandshakeInv, Unchanged
  <2>4. QED BY <1>1, <2>2, <2>3, OnlyLoadingFillsCache
<1>2. CASE Exit
  BY <1>2, PartsAreTwo DEF Exit, HandshakeInv, NoStat, IInv, TypeOK
<1>3. ASSUME NEW f \in Parts, Remove(f) \/ \E d \in Items : Install(f, d)
      PROVE  HandshakeInv(r)'
  <2>1. UNCHANGED <<cache, pc, stat, read>>
    BY <1>3, ChangeIsNew DEF shared, own
  <2>2. \A g \in Parts : last[g] \in Nat /\ last'[g] \in Nat /\ last[g] <= last'[g]
    BY <1>0, <1>3, ChangeIsNew, LastIsNumber
  <2>3. \A g \in Parts : stat[r][g] # Null => stat[r][g] \in Nat /\ stat[r][g] <= last[g]
    BY <1>0, StatIsNumber DEF HandshakeInv
  <2>4. read[r] # Null =>
          /\ read[r].mtime \in Nat /\ read[r].mtime <= last["crt"]
          /\ Unchanged(read[r], "crt")
    BY <1>0, FilesAreTyped DEF HandshakeInv
  <2>5. read[r] # Null => Unchanged(read[r], "crt")'
    BY <1>3, <2>1, <2>2, <2>4, PartsAreTwo, ChangeIsNew DEF Unchanged
  <2>6. \A g \in Parts : stat[r][g] # Null => stat[r][g] <= last'[g]
    BY <2>2, <2>3
  <2>7. read[r] # Null => read[r].mtime <= last'["crt"]
    BY <2>2, <2>4, PartsAreTwo
  <2>8. QED BY <1>0, <2>1, <2>5, <2>6, <2>7 DEF HandshakeInv
<1>4. CASE UNCHANGED vars
  BY <1>0, <1>4 DEF vars, fileVars, shared, own, HandshakeInv, Unchanged
<1>5. QED BY <1>1, <1>2, <1>3, <1>4, OwnHandshake, OneOfThem

(* What is kept was read after it was stat'ed.                             *)
LEMMA CacheStep == ASSUME IInv, [Next]_vars PROVE CacheInv'
<1>0. TypeOK /\ CacheInv
  BY DEF IInv
<1>1. ASSUME NEW q \in Readers, ReadKey(q), PairRead(q) \in Fits
      PROVE  CacheInv'
  <2>1. /\ cache' = [pair |-> PairRead(q), mod |-> stat[q],
                     from |-> [f \in Parts |-> FileRead(q, f).mtime]]
        /\ UNCHANGED <<disk, last>>
    BY <1>1, KeptIsTyped DEF IInv, ReadKey, fileVars
  <2>2. /\ disk["key"] # Null /\ disk["key"].mtime = last["key"]
        /\ stat[q]["key"] <= last["key"] /\ last["key"] \in Nat
    BY <1>0, <1>1, PartsAreTwo, LastIsNumber DEF ReadKey, IInv, MtimesGrow, HandshakeInv
  <2>3. /\ read[q] # Null /\ stat[q]["crt"] <= read[q].mtime /\ read[q].mtime <= last["crt"]
        /\ Unchanged(read[q], "crt")
    BY <1>0, <1>1 DEF ReadKey, IInv, HandshakeInv
  <2>4. disk["key"] \in File /\ read[q] \in File
    BY <1>0, <2>2, <2>3, PartsAreTwo, FilesAreTyped
  <2>5. \A f \in Parts :
          /\ stat[q][f] <= FileRead(q, f).mtime /\ FileRead(q, f).mtime <= last[f]
          /\ Unchanged(FileRead(q, f), f)
          /\ FileRead(q, f) = [item |-> FileRead(q, f).item, mtime |-> FileRead(q, f).mtime]
    BY <2>2, <2>3, <2>4, PartsAreTwo DEF FileRead, Unchanged, File
  <2>6. QED BY <2>1, <2>5 DEF CacheInv, Unchanged, PairRead
<1>2. CASE UNCHANGED <<cache, disk, last>>
  BY <1>0, <1>2 DEF CacheInv, Unchanged
<1>3. CASE Exit
  BY <1>3 DEF Exit, CacheInv
<1>4. ASSUME NEW f \in Parts, Remove(f) \/ \E d \in Items : Install(f, d)
      PROVE  CacheInv'
  <2>1. UNCHANGED cache
    BY <1>4, ChangeIsNew DEF shared
  <2>2. ASSUME NEW g \in Parts, cache # Null
        PROVE  /\ cache.from[g] <= last'[g]
               /\ Unchanged([item |-> cache.pair[g], mtime |-> cache.from[g]], g)'
    <3>1. cache.from[g] \in Nat /\ last[g] \in Nat /\ cache.from[g] <= last[g]
      BY <1>0, <2>2, LastIsNumber, CacheIsTyped DEF CacheInv
    <3>2. CASE g = f
      BY <1>4, <2>1, <3>1, <3>2, ChangeIsNew DEF Unchanged
    <3>3. CASE g # f
      BY <1>0, <1>4, <2>1, <2>2, <3>1, <3>3, ChangeIsNew DEF CacheInv, Unchanged
    <3>4. QED BY <3>2, <3>3
  <2>3. QED BY <1>0, <2>1, <2>2 DEF CacheInv
<1>5. ASSUME NEW q \in Readers, ReaderStep(q)
      PROVE  CacheInv'
  BY <1>1, <1>2, <1>5, ReadersLeaveFiles, OnlyLoadingFillsCache DEF fileVars
<1>6. CASE UNCHANGED vars
  BY <1>2, <1>6 DEF vars, fileVars, shared
<1>7. QED BY <1>3, <1>4, <1>5, <1>6, OneOfThem

(* A pair under its own mtimes is the pair read, unless a file has another *)
(* mtime by now.                                                           *)
LEMMA KnownFromInv == IInv => KnownIsCurrent
<1> SUFFICES ASSUME IInv, cache # Null, OnDisk, cache.mod = DiskMtimes
             PROVE  cache.from = DiskMtimes /\ cache.pair = DiskPair
  BY DEF KnownIsCurrent
<1>1. TypeOK /\ CacheInv /\ MtimesGrow
  BY DEF IInv
<1>2. ASSUME NEW f \in Parts
      PROVE  cache.from[f] = disk[f].mtime /\ cache.pair[f] = disk[f].item
  <2>1. disk[f] # Null /\ disk[f].mtime = last[f] /\ cache.mod[f] = last[f]
    BY <1>1 DEF OnDisk, MtimesGrow, DiskMtimes
  <2>2. cache.from[f] = last[f]
    <3>1. last[f] \in Nat /\ cache.from[f] \in Nat
      BY <1>1, LastIsNumber, CacheIsTyped
    <3>2. cache.mod[f] <= cache.from[f] /\ cache.from[f] <= last[f]
      BY <1>1 DEF CacheInv
    <3>3. QED BY <2>1, <3>1, <3>2
  <2>3. disk[f] = [item |-> cache.pair[f], mtime |-> cache.from[f]]
    BY <1>1, <2>1, <2>2 DEF CacheInv, Unchanged
  <2>4. QED BY <2>3
<1>3. cache.from \in [Parts -> Mtimes] /\ cache.pair \in [Parts -> Items]
  BY <1>1, KeyPairAssumption DEF TypeOK
<1>4. QED BY <1>2, <1>3 DEF DiskMtimes, DiskPair

LEMMA OwnQuiet ==
    ASSUME IInv, NEW r \in Readers, ReaderStep(r)
    PROVE  QuietInv(r)'
<1> USE PartsAreTwo
<1> SUFFICES ASSUME quiet'[r], pc'[r] # "idle"
             PROVE  /\ \A f \in Parts :
                          stat'[r][f] # Null => disk[f] # Null /\ stat'[r][f] = disk[f].mtime
                    /\ read'[r] # Null => read'[r] = disk["crt"]
                    /\ Ended(r)' /\ OnDisk => (DiskPair \in Fits => answer'[r] = DiskPair)
  BY ReadersLeaveFiles DEF QuietInv, fileVars, OnDisk, DiskPair
<1>0. /\ TypeOK
      /\ HandshakeInv(r)
      /\ QuietInv(r)
  BY DEF IInv
<1>1. CASE Start(r) \/ ClientHello(r)
  <2>1. pc[r] = "idle" /\ pc'[r] = "statcrt" /\ UNCHANGED <<stat[r], read[r]>>
    BY <1>0, <1>1 DEF Start, ClientHello, Goto, TypeOK
  <2>2. QED BY <1>0, <2>1 DEF HandshakeInv, Ended
<1>2. CASE Leave(r)
  BY <1>0, <1>2 DEF Leave, Goto, TypeOK
<1>3. CASE StatCert(r) \/ StatKey(r)
  <2>1. PICK f \in Parts, here \in {"statcrt", "statkey"}, next \in {"statkey", "lock"} :
          StatFile(r, f, here, next)
    BY <1>3 DEF StatCert, StatKey
  <2>2. /\ pc[r] # "idle" /\ pc'[r] = next /\ quiet[r]
        /\ UNCHANGED read[r]
        /\ disk[f] # Null /\ stat'[r][f] = disk[f].mtime
        /\ \A g \in Parts \ {f} : stat'[r][g] = stat[r][g]
    BY <1>0, <2>1 DEF StatFile, Goto, TypeOK
  <2>3. QED BY <1>0, <2>2 DEF QuietInv, Ended
<1>4. ASSUME NEW l \in {"served", "failed", "nofile"}, NEW p, Return(r, l, p),
             OnDisk => (DiskPair \in Fits => p = DiskPair)
      PROVE  QuietInv(r)'
  <2>1. stat'[r] = NoStat /\ read'[r] = Null /\ answer'[r] = p
    BY <1>0, <1>4 DEF Return, TypeOK
  <2>2. UNCHANGED disk
    BY ReadersLeaveFiles DEF fileVars
  <2>3. QED BY <1>4, <2>1, <2>2 DEF QuietInv, NoStat, OnDisk, DiskPair
<1>5. CASE StatFails(r)
  <2>1. ~OnDisk
    BY <1>5 DEF StatFails, OnDisk
  <2>2. QuietInv(r)'
    BY <1>4, <1>5, <2>1 DEF StatFails
  <2>3. QED BY <2>2, ReadersLeaveFiles DEF QuietInv, fileVars, OnDisk, DiskPair
<1>6. CASE Lock(r)
  <2>1. quiet[r] /\ pc[r] = "lock"
    BY <1>6 DEF Lock
  <2>2. CASE IsKnown(r) /\ Return(r, "served", cache.pair)
    <3>1. ASSUME OnDisk
          PROVE  cache.pair = DiskPair
      <4>1. stat[r] = DiskMtimes
        <5>1. \A f \in Parts : stat[r][f] = disk[f].mtime
          BY <1>0, <2>1 DEF HandshakeInv, QuietInv
        <5>2. stat[r] \in [Parts -> Mtimes \cup {Null}]
          BY <1>0 DEF TypeOK
        <5>3. QED BY <5>1, <5>2 DEF DiskMtimes
      <4>2. QED BY <2>2, <3>1, <4>1, KnownFromInv DEF IsKnown, KnownIsCurrent
    <3>2. QuietInv(r)'
      BY <1>4, <2>2, <3>1
    <3>3. QED BY <3>2, ReadersLeaveFiles DEF QuietInv, fileVars, OnDisk, DiskPair
  <2>3. CASE Goto(r, "readcrt") /\ UNCHANGED <<server, stat, read, answer>>
    <3>1. pc'[r] = "readcrt" /\ UNCHANGED <<stat[r], read[r]>>
      BY <1>0, <2>3 DEF Goto, TypeOK
    <3>2. QED BY <1>0, <2>1, <3>1 DEF QuietInv, Ended
  <2>4. QED BY <1>6, <2>2, <2>3 DEF Lock
<1>7. CASE ReadCert(r)
  <2>1. /\ pc[r] = "readcrt" /\ pc'[r] = "readkey" /\ quiet[r]
        /\ read'[r] = disk["crt"]
        /\ UNCHANGED stat[r]
    BY <1>0, <1>7 DEF ReadCert, Goto, TypeOK
  <2>2. QED BY <1>0, <2>1 DEF QuietInv, Ended
<1>8. CASE ReadKey(r)
  <2>1. PairRead(r) = DiskPair
    <3>1. read[r] = disk["crt"] /\ quiet[r]
      BY <1>0, <1>8 DEF ReadKey, HandshakeInv, QuietInv
    <3>2. QED BY <3>1 DEF PairRead, FileRead, DiskPair, Parts
  <2>2. CASE PairRead(r) \in Fits
    <3>1. QuietInv(r)'
      BY <1>4, <1>8, <2>1, <2>2 DEF ReadKey, Keep
    <3>2. QED BY <3>1, ReadersLeaveFiles DEF QuietInv, fileVars, OnDisk, DiskPair
  <2>3. CASE PairRead(r) \notin Fits
    <3>1. QuietInv(r)'
      BY <1>4, <1>8, <2>1, <2>3 DEF ReadKey, KeepLastGood
    <3>2. QED BY <3>1, ReadersLeaveFiles DEF QuietInv, fileVars, OnDisk, DiskPair
  <2>4. QED BY <2>2, <2>3
<1>9. CASE FileGone(r)
  <2>1. ~OnDisk
    BY <1>9 DEF FileGone, OnDisk
  <2>2. QuietInv(r)'
    BY <1>4, <1>9, <2>1 DEF FileGone, KeepLastGood
  <2>3. QED BY <2>2, ReadersLeaveFiles DEF QuietInv, fileVars, OnDisk, DiskPair
<1>10. CASE ReadError(r)
  BY <1>0, <1>10 DEF ReadError, TypeOK
<1>11. QED BY <1>1, <1>2, <1>3, <1>5, <1>6, <1>7, <1>8, <1>9, <1>10
           DEF ReaderStep, GetCertificate

LEMMA QuietStep ==
    ASSUME IInv, [Next]_vars, NEW r \in Readers
    PROVE  QuietInv(r)'
<1>0. TypeOK /\ QuietInv(r)
  BY DEF IInv
<1>1. ASSUME NEW q \in Readers \ {r}, ReaderStep(q)
      PROVE  QuietInv(r)'
  <2>1. UNCHANGED <<pc[r], stat[r], read[r], answer[r], quiet[r], disk>>
    BY <1>1, OthersAreLeftAlone, ReadersLeaveFiles DEF fileVars
  <2>2. QED BY <1>0, <2>1 DEF QuietInv, Ended, OnDisk, DiskPair
<1>2. CASE Exit
  BY <1>2 DEF Exit, QuietInv
<1>3. ASSUME NEW f \in Parts, Remove(f) \/ \E d \in Items : Install(f, d)
      PROVE  QuietInv(r)'
  <2>1. UNCHANGED pc /\ (quiet'[r] => pc[r] = "idle")
    BY <1>3, ChangeIsNew DEF own
  <2>2. QED BY <2>1 DEF QuietInv
<1>4. CASE UNCHANGED vars
  BY <1>0, <1>4 DEF vars, fileVars, own, QuietInv, Ended, OnDisk, DiskPair
<1>5. QED BY <1>1, <1>2, <1>3, <1>4, OwnQuiet, OneOfThem

LEMMA ServerStep == ASSUME IInv, [Next]_vars PROVE ServerInv'
<1>0. /\ TypeOK
      /\ ServerInv
      /\ pc \in [Readers -> {"idle", "statcrt", "statkey", "lock", "readcrt", "readkey",
                             "served", "failed", "nofile"}]
  BY DEF IInv, TypeOK
<1>1. ASSUME NEW q \in Readers, ReaderStep(q)
      PROVE  ServerInv'
  <2>0. \A r \in Readers \ {q} : pc'[r] = pc[r]
    BY <1>1, OthersAreLeftAlone
  <2>1. CASE Start(q)
    BY <1>0, <2>1 DEF Start, Goto, ServerInv, InHandshake, Ended
  <2>2. CASE ClientHello(q) \/ Leave(q)
    BY <1>0, <2>2 DEF ClientHello, Leave, Goto, ServerInv, InHandshake, Ended, shared
  <2>3. CASE InHandshake(q) /\ InHandshake(q)' /\ UNCHANGED <<server, cache>>
    <3>1. pc'[q] # "failed"
      BY <2>3 DEF InHandshake, Ended
    <3>2. \A r \in Readers : InHandshake(r)' <=> InHandshake(r)
      BY <2>0, <2>3 DEF InHandshake, Ended
    <3>3. QED BY <1>0, <2>0, <2>3, <3>1, <3>2 DEF ServerInv, InHandshake
  <2>4. ASSUME InHandshake(q),
               NEW l \in {"served", "failed", "nofile"}, NEW p, Return(q, l, p),
               UNCHANGED cache \/ (cache' # Null /\ p # Null),
               p # Null => cache' # Null,
               l = "failed" => cache = Null /\ p = Null
        PROVE  ServerInv'
    <3>1. pc'[q] = l /\ ~InHandshake(q)'
      BY <1>0, <2>4 DEF Return, Goto, InHandshake, Ended
    <3>2. server # "down"
      BY <1>0, <2>4 DEF ServerInv
    <3>3. CASE server = "up"
      BY <1>0, <2>0, <2>4, <3>1, <3>3 DEF Return, ServerInv
    <3>4. CASE server = "starting"
      <4>1. \A r \in Readers \ {q} : pc'[r] = "idle"
        BY <1>0, <2>0, <2>4, <3>4 DEF ServerInv, InHandshake
      <4>2. cache = Null
        BY <1>0, <3>4 DEF ServerInv
      <4>3. CASE p = Null
        BY <2>4, <3>1, <3>4, <4>1, <4>2, <4>3 DEF Return, ServerInv, InHandshake
      <4>4. CASE p # Null
        BY <2>4, <3>1, <3>4, <4>1, <4>4 DEF Return, ServerInv
      <4>5. QED BY <4>3, <4>4
    <3>5. QED BY <1>0, <3>2, <3>3, <3>4 DEF TypeOK
  <2>5. CASE StatCert(q) \/ StatKey(q) \/ ReadCert(q)
    BY <1>0, <2>3, <2>5 DEF StatCert, StatKey, StatFile, ReadCert, Goto, shared, InHandshake, Ended
  <2>6. CASE StatFails(q)
    BY <2>4, <2>6 DEF StatFails, InHandshake, Ended
  <2>7. CASE Lock(q)
    <3>1. InHandshake(q)
      BY <2>7 DEF Lock, InHandshake, Ended
    <3>2. CASE IsKnown(q) /\ Return(q, "served", cache.pair)
      <4>1. cache # Null /\ UNCHANGED cache
        BY <2>7, <3>2 DEF Lock, IsKnown
      <4>2. QED BY <2>4, <3>1, <3>2, <4>1
    <3>3. CASE Goto(q, "readcrt") /\ UNCHANGED <<server, stat, read, answer>>
      BY <1>0, <2>3, <2>7, <3>1, <3>3 DEF Lock, Goto, InHandshake, Ended
    <3>4. QED BY <2>7, <3>2, <3>3 DEF Lock
  <2>8. CASE KeepLastGood(q) /\ InHandshake(q)
    <3>1. cache # Null => cache.pair # Null
      BY <1>0, CacheIsTyped, KeyPairAssumption
    <3>2. CASE cache = Null
      BY <2>4, <2>8, <3>2 DEF KeepLastGood
    <3>3. CASE cache # Null
      BY <2>4, <2>8, <3>1, <3>3 DEF KeepLastGood
    <3>4. QED BY <3>2, <3>3
  <2>9. CASE ReadKey(q) /\ PairRead(q) \in Fits
    <3>1. cache' # Null /\ PairRead(q) # Null /\ InHandshake(q)
      BY <2>9, KeptIsTyped, KeyPairAssumption DEF ReadKey, InHandshake, Ended
    <3>2. Return(q, "served", PairRead(q))
      BY <2>9 DEF ReadKey, Keep
    <3>3. QED BY <2>4, <3>1, <3>2
  <2>10. CASE FileGone(q) \/ ReadError(q) \/ (ReadKey(q) /\ PairRead(q) \notin Fits)
    BY <2>8, <2>10 DEF FileGone, ReadError, ReadKey, Loading, InHandshake, Ended
  <2>11. QED BY <1>1, <2>1, <2>2, <2>5, <2>6, <2>7, <2>9, <2>10 DEF ReaderStep, GetCertificate
<1>2. CASE Exit
  BY <1>2 DEF Exit, ServerInv, InHandshake
<1>3. ASSUME NEW f \in Parts, Remove(f) \/ \E d \in Items : Install(f, d)
      PROVE  ServerInv'
  BY <1>0, <1>3, ChangeIsNew DEF ServerInv, InHandshake, Ended, shared, own
<1>4. CASE UNCHANGED vars
  BY <1>0, <1>4 DEF vars, shared, own, ServerInv, InHandshake, Ended
<1>5. QED BY <1>1, <1>2, <1>3, <1>4, OneOfThem

-----------------------------------------------------------------------------
(* The theorems.                                                           *)

LEMMA NextInv == IInv /\ [Next]_vars => IInv'
BY TypeStep, MtimesStep, MutexStep, CacheStep, ServerStep, HandshakeStep, QuietStep DEF IInv

(* The invariant behind the rest holds of every reachable state: mtimes    *)
(* grow, the mutex has one holder, what is kept is at least as new as what *)
(* it is known by.                                                         *)
THEOREM Invariance == Spec => []IInv
<1>1. QED BY InitInv, NextInv, PTL DEF Spec

(* Every variable keeps its type; only pairs that fit are kept and served. *)
THEOREM TypeCorrect == Spec => []TypeOK
<1>1. IInv => TypeOK
  BY DEF IInv
<1>2. QED BY <1>1, Invariance, PTL

(* A pair whose mtimes a stat finds again is the one on disk.              *)
THEOREM KnownPairIsCurrent == Spec => []KnownIsCurrent
<1>1. QED BY KnownFromInv, Invariance, PTL

(* An undisturbed handshake is given the pair on disk.                     *)
THEOREM UndisturbedIsCurrent == Spec => []QuietHandshakeIsCurrent
<1>1. IInv => QuietHandshakeIsCurrent
  BY DEF IInv, QuietInv, QuietHandshakeIsCurrent, Ended
<1>2. QED BY <1>1, Invariance, PTL

(* Once up, the server always has a pair to serve.                         *)
THEOREM AlwaysServes == Spec => []LastGoodIsKept
<1>1. IInv => LastGoodIsKept
  BY DEF IInv, ServerInv, LastGoodIsKept
<1>2. QED BY <1>1, Invariance, PTL

(* Neither file of the pair kept is ever replaced by an older one.         *)
THEOREM NeverBack == Spec => NeverBackToOldPair
<1>1. ASSUME IInv, [Next]_vars, cache # Null, cache' # Null, NEW f \in Parts
      PROVE  cache.from[f] <= cache'.from[f]
  <2>1. cache.from[f] \in Nat /\ last[f] \in Nat /\ cache.from[f] <= last[f]
    BY <1>1, LastIsNumber, CacheIsTyped DEF IInv, CacheInv
  <2>2. CASE UNCHANGED cache
    BY <2>1, <2>2
  <2>3. ASSUME NEW r \in Readers, ReadKey(r), PairRead(r) \in Fits
        PROVE  cache.from[f] <= cache'.from[f]
    <3>1. cache'.from[f] = FileRead(r, f).mtime
      BY <1>1, <2>3, KeptIsTyped
    <3>2. CASE f = "crt"
      BY <1>1, <2>3, <3>1, <3>2 DEF IInv, HandshakeInv, ReadKey, FileRead
    <3>3. CASE f = "key"
      BY <1>1, <2>1, <2>3, <3>1, <3>3 DEF IInv, MtimesGrow, ReadKey, FileRead
    <3>4. QED BY <3>2, <3>3, PartsAreTwo
  <2>4. CASE Exit
    BY <1>1, <2>4 DEF Exit
  <2>5. ASSUME NEW g \in Parts, Remove(g) \/ \E d \in Items : Install(g, d)
        PROVE  UNCHANGED cache
    BY <1>1, <2>5, ChangeIsNew DEF shared
  <2>6. QED BY <1>1, <2>2, <2>3, <2>4, <2>5, OneOfThem, OnlyLoadingFillsCache DEF vars, shared
<1>2. IInv /\ [Next]_vars =>
        [cache # Null /\ cache' # Null =>
           \A f \in Parts : cache.from[f] <= cache'.from[f]]_vars
  BY <1>1
<1>3. QED BY <1>2, Invariance, PTL DEF Spec, NeverBackToOldPair
=============================================================================
