-------------------------- MODULE FileStoreProofs ---------------------------
(***************************************************************************)
(* The file store for every set of shortcodes, entries and server keys:    *)
(* its entries stay readable through crashes, failed writes and a key kept *)
(* elsewhere, and it implements the map of DurableMap.tla.                 *)
(***************************************************************************)
EXTENDS FileStore, TLAPS

LEMMA InitInv == Init => IInv
<1> SUFFICES ASSUME Init PROVE IInv
  OBVIOUS
<1>1. /\ ~HasEntryFiles /\ server.pc = "down"
      /\ keyFile = None /\ away = None /\ served = FALSE
  BY DEF Init, HasEntryFiles, Stopped
<1>2. TypeOK  BY DEF Init, TypeOK, Stopped
<1>3. OneServerKey  BY <1>1 DEF OneServerKey, HasEntryFiles
<1>4. KeyStays /\ NothingWithoutDirectory  BY <1>1 DEF KeyStays, NothingWithoutDirectory
<1>5. NewKeyIsFirst /\ KeyInMemory /\ PutUnderWay
  BY <1>1 DEF NewKeyIsFirst, KeyInMemory, PutUnderWay, At, Serving
<1>q. QED  BY <1>2, <1>3, <1>4, <1>5 DEF IInv

\* The steps of a start that write nothing.
LEMMA LookInv ==
    ASSUME IInv,
           Start \/ UseEmpty \/ RefuseInconsistent \/ FindKey \/ RefuseKey \/ GiveUp \/ Crash
    PROVE  IInv'
<1> USE FileStoreAssumption
    DEF IInv, Start, UseEmpty, RefuseInconsistent, FindKey, RefuseKey, GiveUp, Crash,
        disk, At, Goto, Stopped, NotYet, Serving
<1>1. TypeOK'  BY DEF TypeOK
<1>2. OneServerKey'  BY DEF OneServerKey
<1>3. KeyStays'  BY DEF KeyStays
<1>4. NothingWithoutDirectory'  BY DEF NothingWithoutDirectory, HasEntryFiles
<1>5. NewKeyIsFirst'  BY DEF NewKeyIsFirst, HasEntryFiles, TypeOK
<1>6. KeyInMemory'  BY DEF KeyInMemory, TypeOK
<1>7. PutUnderWay'  BY DEF PutUnderWay, TypeOK
<1>q. QED  BY <1>1, <1>2, <1>3, <1>4, <1>5, <1>6, <1>7

LEMMA MakeDirectoryInv == ASSUME IInv, MakeDirectory PROVE IInv'
<1> USE FileStoreAssumption DEF IInv, MakeDirectory, At, Goto, NotYet, Serving
<1>1. TypeOK'  BY DEF TypeOK
<1>2. OneServerKey' /\ KeyStays'  BY DEF OneServerKey, KeyStays
<1>3. NothingWithoutDirectory'  BY DEF NothingWithoutDirectory
<1>4. NewKeyIsFirst'  BY DEF NewKeyIsFirst, NothingWithoutDirectory, HasEntryFiles, TypeOK
<1>5. KeyInMemory' /\ PutUnderWay'  BY DEF KeyInMemory, PutUnderWay, TypeOK
<1>q. QED  BY <1>1, <1>2, <1>3, <1>4, <1>5

LEMMA LoadServerKeyInv == ASSUME IInv, LoadServerKey PROVE IInv'
<1> USE FileStoreAssumption DEF IInv, LoadServerKey, disk, At, NotYet, Serving
<1>1. TypeOK'  BY DEF TypeOK
<1>2. OneServerKey' /\ KeyStays'  BY DEF OneServerKey, KeyStays
<1>3. NothingWithoutDirectory'  BY DEF NothingWithoutDirectory, HasEntryFiles
<1>4. NewKeyIsFirst' /\ PutUnderWay'  BY DEF NewKeyIsFirst, PutUnderWay, TypeOK
<1>5. KeyInMemory'  BY DEF KeyInMemory, TypeOK
<1>q. QED  BY <1>1, <1>2, <1>3, <1>4, <1>5

LEMMA OpenKeyFileInv == ASSUME IInv, OpenKeyFile PROVE IInv'
<1> USE FileStoreAssumption DEF IInv, OpenKeyFile, At, NotYet, Serving
<1>1. keyFile = None /\ ~HasEntryFiles /\ ~HasEntryFiles'
  BY DEF NewKeyIsFirst, HasEntryFiles
<1>2. TypeOK'  BY DEF TypeOK
<1>3. OneServerKey'  BY <1>1 DEF OneServerKey, HasEntryFiles
<1>4. KeyStays'  BY <1>1 DEF KeyStays
<1>5. dir
  BY DEF NewKeyIsFirst, TypeOK
<1>6. NothingWithoutDirectory'  BY <1>5 DEF NothingWithoutDirectory
<1>7. NewKeyIsFirst' /\ KeyInMemory' /\ PutUnderWay'
  BY <1>1 DEF NewKeyIsFirst, KeyInMemory, PutUnderWay, TypeOK
<1>q. QED  BY <1>2, <1>3, <1>4, <1>6, <1>7

LEMMA WriteKeyFileInv == ASSUME IInv, WriteKeyFile PROVE IInv'
<1> USE FileStoreAssumption DEF IInv, WriteKeyFile, At, Goto, NotYet, Serving
<1>1. /\ server.serverKey \in ServerKeys
      /\ keyFile = Cut /\ ~HasEntryFiles /\ ~HasEntryFiles'
  BY DEF NewKeyIsFirst, HasEntryFiles
<1>2. TypeOK'  BY <1>1 DEF TypeOK
<1>3. OneServerKey' /\ KeyStays'  BY <1>1 DEF OneServerKey, KeyStays, HasEntryFiles
<1>4. NothingWithoutDirectory'  BY <1>1 DEF NothingWithoutDirectory
<1>5. NewKeyIsFirst' /\ PutUnderWay'  BY DEF NewKeyIsFirst, PutUnderWay, TypeOK
<1>6. KeyInMemory'  BY <1>1 DEF KeyInMemory, TypeOK
<1>q. QED  BY <1>2, <1>3, <1>4, <1>5, <1>6

LEMMA OpenTempInv ==
    ASSUME IInv, NEW k \in Keys, NEW e \in Values, OpenTemp(k, e)
    PROVE  IInv'
<1> USE FileStoreAssumption DEF IInv, OpenTemp, At, NotYet, Serving
<1>1. TypeOK'  BY DEF TypeOK
<1>2. OneServerKey' /\ KeyStays'  BY DEF OneServerKey, KeyStays
<1>3. NothingWithoutDirectory'  BY DEF NothingWithoutDirectory, HasEntryFiles
<1>4. NewKeyIsFirst' /\ KeyInMemory'  BY DEF NewKeyIsFirst, KeyInMemory, TypeOK
<1>5. PutUnderWay'  BY DEF PutUnderWay, TypeOK
<1>q. QED  BY <1>1, <1>2, <1>3, <1>4, <1>5

LEMMA WriteTempInv == ASSUME IInv, WriteTemp PROVE IInv'
<1> USE FileStoreAssumption DEF encryptBytes, IInv, WriteTemp, At, Goto, NotYet, Serving
<1>1. /\ server.key \in Keys /\ server.entry \in Values
      /\ server.serverKey \in ServerKeys
  BY DEF PutUnderWay, KeyInMemory
<1>2. TypeOK'  BY <1>1 DEF TypeOK, Sealed
<1>3. OneServerKey' /\ KeyStays'  BY DEF OneServerKey, KeyStays
<1>4. NothingWithoutDirectory'  BY DEF NothingWithoutDirectory, HasEntryFiles
<1>5. NewKeyIsFirst' /\ KeyInMemory'  BY DEF NewKeyIsFirst, KeyInMemory, TypeOK
<1>6. PutUnderWay'  BY <1>1 DEF PutUnderWay, TypeOK
<1>q. QED  BY <1>2, <1>3, <1>4, <1>5, <1>6

LEMMA RenameInv == ASSUME IInv, Rename PROVE IInv'
<1> USE FileStoreAssumption DEF IInv, Rename, Return, At, NotYet, Serving
<1>1. /\ server.key \in Keys /\ server.entry \in Values
      /\ server.serverKey \in ServerKeys
      /\ server.serverKey = IF keyFile # None THEN keyFile ELSE away
      /\ temps[server.key] = [by |-> server.serverKey, entry |-> server.entry]
  BY DEF encryptBytes, PutUnderWay, KeyInMemory
<1>2. TypeOK'  BY <1>1 DEF TypeOK, Sealed
<1>3. OneServerKey'  BY <1>1 DEF OneServerKey, TypeOK
<1>4. KeyStays'  BY DEF KeyStays
<1>5. dir
  <2>1. ~(keyFile = None /\ away = None)
    BY <1>1
  <2>q. QED
    BY <2>1 DEF NothingWithoutDirectory
<1>6. NothingWithoutDirectory'  BY <1>5 DEF NothingWithoutDirectory
<1>7. NewKeyIsFirst' /\ KeyInMemory' /\ PutUnderWay'
  BY DEF NewKeyIsFirst, KeyInMemory, PutUnderWay, TypeOK
<1>q. QED  BY <1>2, <1>3, <1>4, <1>6, <1>7

LEMMA PutFailsInv == ASSUME IInv, PutFails PROVE IInv'
<1> USE FileStoreAssumption DEF IInv, PutFails, Return, disk, At, NotYet, Serving
<1>1. TypeOK'  BY DEF TypeOK
<1>2. OneServerKey' /\ KeyStays'  BY DEF OneServerKey, KeyStays
<1>3. NothingWithoutDirectory'  BY DEF NothingWithoutDirectory, HasEntryFiles
<1>4. NewKeyIsFirst' /\ KeyInMemory' /\ PutUnderWay'
  BY DEF NewKeyIsFirst, KeyInMemory, PutUnderWay, TypeOK
<1>q. QED  BY <1>1, <1>2, <1>3, <1>4

LEMMA GetInv == ASSUME IInv, NEW k \in Keys, Get(k) PROVE IInv'
<1> USE FileStoreAssumption DEF IInv, Get, decryptBytes, disk, At
<1>1. TypeOK'  BY DEF TypeOK, Sealed
<1>2. OneServerKey' /\ KeyStays'  BY DEF OneServerKey, KeyStays
<1>3. NothingWithoutDirectory'  BY DEF NothingWithoutDirectory, HasEntryFiles
<1>4. NewKeyIsFirst' /\ KeyInMemory' /\ PutUnderWay'
  BY DEF NewKeyIsFirst, HasEntryFiles, KeyInMemory, PutUnderWay
<1>q. QED  BY <1>1, <1>2, <1>3, <1>4

\* The operator's moves.
LEMMA MoveKeyInv == ASSUME IInv, MoveKeyAway \/ BringKeyBack PROVE IInv'
<1> USE FileStoreAssumption DEF IInv, MoveKeyAway, BringKeyBack, At, NotYet, Serving
<1>1. TypeOK'  BY DEF TypeOK
<1>2. OneServerKey' /\ KeyStays'  BY DEF OneServerKey, KeyStays, TypeOK
<1>3. NothingWithoutDirectory'
  BY DEF NothingWithoutDirectory, HasEntryFiles, TypeOK
<1>4. NewKeyIsFirst' /\ PutUnderWay'  BY DEF NewKeyIsFirst, PutUnderWay
<1>5. KeyInMemory'  BY DEF KeyInMemory, TypeOK
<1>q. QED  BY <1>1, <1>2, <1>3, <1>4, <1>5

-----------------------------------------------------------------------------
LEMMA NextInv == ASSUME IInv, [Next]_vars PROVE IInv'
<1>1. CASE Start \/ UseEmpty \/ RefuseInconsistent \/ FindKey \/ RefuseKey \/ GiveUp \/ Crash
  BY <1>1, LookInv
<1>2. CASE MakeDirectory  BY <1>2, MakeDirectoryInv
<1>3. CASE LoadServerKey  BY <1>3, LoadServerKeyInv
<1>4. CASE OpenKeyFile  BY <1>4, OpenKeyFileInv
<1>5. CASE WriteKeyFile  BY <1>5, WriteKeyFileInv
<1>6. CASE \E k \in Keys : Get(k) \/ \E e \in Values : OpenTemp(k, e)
  BY <1>6, GetInv, OpenTempInv
<1>7. CASE WriteTemp  BY <1>7, WriteTempInv
<1>8. CASE Rename  BY <1>8, RenameInv
<1>9. CASE PutFails  BY <1>9, PutFailsInv
<1>10. CASE MoveKeyAway \/ BringKeyBack  BY <1>10, MoveKeyInv
<1>11. CASE UNCHANGED vars
  BY <1>11
  DEF vars, disk, IInv, TypeOK, OneServerKey, KeyStays, NothingWithoutDirectory,
      NewKeyIsFirst, KeyInMemory, PutUnderWay, HasEntryFiles, At
<1>q. QED
  BY <1>1, <1>2, <1>3, <1>4, <1>5, <1>6, <1>7, <1>8, <1>9, <1>10, <1>11 DEF Next

\* The invariant behind all that follows holds in every reachable state.
THEOREM Invariance == Spec => []IInv
<1>1. Init => IInv  BY InitInv
<1>2. IInv /\ [Next]_vars => IInv'  BY NextInv
<1>q. QED  BY <1>1, <1>2, PTL DEF Spec

\* The store's variables, the files among them, keep their types: no file of
\* an entry is ever cut short.
THEOREM TypeCorrect == Spec => []TypeOK
BY Invariance, PTL DEF IInv

\* All entries are encrypted with the one key that is on disk or with the
\* operator (NewFileStore, Put).
THEOREM OneServerKeyCorrect == Spec => []OneServerKey
BY Invariance, PTL DEF IInv

\* A server that has been up finds its key again (generateServerKey).
THEOREM KeyStaysCorrect == Spec => []KeyStays
BY Invariance, PTL DEF IInv

-----------------------------------------------------------------------------
(* The map of DurableMap.tla *)

map == [k \in Keys |-> IF files[k] = None THEN None ELSE files[k].entry]

LEMMA RefineRename == ASSUME IInv, Rename PROVE [DM!Next]_(DM!vars)
<1>1. PICK k \in Keys, e \in Values :
        /\ temps[k] = [by |-> server.serverKey, entry |-> e]
        /\ server.serverKey \in ServerKeys
        /\ files' = [files EXCEPT ![k] = temps[k]]
        /\ UNCHANGED answer
  <2>1. At("rename") /\ server.key \in Keys /\ server.entry \in Values
    BY DEF Rename, IInv, PutUnderWay, At, encryptBytes
  <2>2. server.serverKey \in ServerKeys
    BY <2>1 DEF IInv, KeyInMemory, Serving, At
  <2>3. temps[server.key] = [by |-> server.serverKey, entry |-> server.entry]
    BY <2>1 DEF IInv, PutUnderWay, encryptBytes
  <2>q. QED
    BY <2>1, <2>2, <2>3 DEF Rename
<1>2. DOMAIN files = Keys
  BY DEF IInv, TypeOK
<1>3. temps[k] # None /\ temps[k].entry = e
  BY <1>1, FileStoreAssumption DEF Sealed
<1>4. map' = [map EXCEPT ![k] = e]
  BY <1>1, <1>2, <1>3 DEF map
<1>5. DM!Put(k, e)
  BY <1>1, <1>4 DEF DM!Put, map
<1>6. DM!Next
  BY <1>5 DEF DM!Next
<1>q. QED
  BY <1>6

\* Every entry on disk can be decrypted with the key in memory.
LEMMA RefineGet == ASSUME IInv, NEW k \in Keys, Get(k) PROVE [DM!Next]_(DM!vars)
<1>1. files[k] # None => files[k].by = server.serverKey
  BY DEF Get, decryptBytes, At, IInv, OneServerKey, KeyInMemory, Serving
<1>2. answer' = map[k] /\ UNCHANGED files
  BY <1>1 DEF Get, decryptBytes, map, disk
<1>3. DM!Get(k)
  BY <1>2 DEF DM!Get, map
<1>q. QED
  BY <1>3 DEF DM!Next

LEMMA RefineStutter ==
    ASSUME UNCHANGED <<files, answer>> PROVE [DM!Next]_(DM!vars)
BY DEF DM!vars

\* The file store implements a map that survives every crash and every failed
\* write: only a rename changes it, and Get returns what it holds.
THEOREM Refinement == Spec => ImplementsDurableMap
<1>1. Init => DM!Init
  BY DEF Init, DM!Init
<1>2. IInv /\ [Next]_vars => [DM!Next]_(DM!vars)
  <2> SUFFICES ASSUME IInv, [Next]_vars PROVE [DM!Next]_(DM!vars)
    OBVIOUS
  <2>1. CASE Rename  BY <2>1, RefineRename
  <2>2. CASE \E k \in Keys : Get(k)  BY <2>2, RefineGet
  <2>3. CASE UNCHANGED <<files, answer>>  BY <2>3, RefineStutter
  <2>q. QED
    BY <2>1, <2>2, <2>3
    DEF Next, vars, disk, Start, MakeDirectory, UseEmpty, RefuseInconsistent, FindKey,
        LoadServerKey, RefuseKey, OpenKeyFile, WriteKeyFile, GiveUp, OpenTemp, WriteTemp,
        PutFails, Crash, MoveKeyAway, BringKeyBack
<1>q. QED
  BY <1>1, <1>2, Invariance, PTL DEF Spec, ImplementsDurableMap, DM!Spec
=============================================================================
