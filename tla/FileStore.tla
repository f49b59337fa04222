----------------------------- MODULE FileStore ------------------------------
(***************************************************************************)
(* The FileStore of filestore.go: a data directory with one encrypted file *)
(* per entry and the server key they are encrypted with, and the server    *)
(* that uses it, which may stop between any two file operations.           *)
(*                                                                         *)
(* Put holds fs.mu from its first to its last line, and so does Get: one   *)
(* operation is under way at a time, and only a crash comes between the    *)
(* steps of a Put.  A file operation of the os package is one step, but    *)
(* os.WriteFile is two: it truncates the file, then writes it.             *)
(*                                                                         *)
(* Left out: a read of an existing file that fails, a second server on the *)
(* same directory, and the loss of written data with the machine's power.  *)
(***************************************************************************)
CONSTANTS
    Keys,           \* shortcodes
    Values,         \* entries
    ServerKeys,     \* what generateServerKey can draw; bounds how often it does
    None,           \* no file, no entry, no key
    Cut             \* a file that was truncated and not written

\* An entry as Put stores it: encrypted with a server key.
Sealed == [by : ServerKeys, entry : Values]

ASSUME FileStoreAssumption ==
    /\ {None, Cut} \cap (Values \cup ServerKeys \cup Sealed) = {}
    /\ None # Cut

VARIABLES
    dir,        \* the data directory exists
    keyFile,    \* what .server_key holds
    away,       \* the server key, while the operator keeps it elsewhere
    files,      \* key.json
    temps,      \* key.json.tmp
    server,     \* what the process is doing, and its s.serverKey
    drawn,      \* history: the server keys drawn so far
    served,     \* history: the server has been up
    answer      \* what the latest Get returned

disk == <<dir, keyFile, away, files, temps>>
vars == <<disk, server, drawn, served, answer>>

NotYet == {"start", "load", "newkey", "writekey"}
Serving == {"up", "temp", "rename"}

TypeOK ==
    /\ dir \in BOOLEAN
    /\ keyFile \in ServerKeys \cup {None, Cut}
    /\ away \in ServerKeys \cup {None}
    /\ files \in [Keys -> Sealed \cup {None}]
    /\ temps \in [Keys -> Sealed \cup {None, Cut}]
    /\ server \in [pc : {"down", "refused"} \cup NotYet \cup Serving,
                   serverKey : ServerKeys \cup {None},
                   key : Keys \cup {None},
                   entry : Values \cup {None}]
    /\ drawn \in SUBSET ServerKeys
    /\ served \in BOOLEAN
    /\ answer \in Values \cup {None}

Stopped(pc) == [pc |-> pc, serverKey |-> None, key |-> None, entry |-> None]

Init ==
    /\ dir = FALSE
    /\ keyFile = None
    /\ away = None
    /\ files = [k \in Keys |-> None]
    /\ temps = [k \in Keys |-> None]
    /\ server = Stopped("down")
    /\ drawn = {}
    /\ served = FALSE
    /\ answer = None

At(pc) == server.pc = pc
Goto(pc) == server' = [server EXCEPT !.pc = pc]

\* AES-GCM with the server key: another key fails to decrypt.
encryptBytes(e, key) == [by |-> key, entry |-> e]
decryptBytes(f, key) == IF f # None /\ f.by = key THEN f.entry ELSE None

\* hasEntryFiles: .json files.  The extension of a temporary file is .tmp.
HasEntryFiles == \E k \in Keys : files[k] # None

-----------------------------------------------------------------------------
(* NewFileStore *)

\* The server is started, by hand or by systemd, which does so again and again.
Start ==
    /\ At("down") \/ At("refused")
    /\ server' = Stopped("start")
    /\ UNCHANGED <<disk, drawn, served, answer>>

\* No directory yet: make it.
MakeDirectory ==
    /\ At("start")
    /\ ~dir
    /\ dir' = TRUE
    /\ Goto("newkey")
    /\ UNCHANGED <<keyFile, away, files, temps, drawn, served, answer>>

\* Mutant of UseEmpty: does not look for entries.
UseAny ==
    /\ At("start")
    /\ dir /\ keyFile = None
    /\ Goto("newkey")
    /\ UNCHANGED <<disk, drawn, served, answer>>

\* No server key, and no entry that would need one.
UseEmpty ==
    /\ At("start")
    /\ dir /\ keyFile = None
    /\ ~HasEntryFiles
    /\ Goto("newkey")
    /\ UNCHANGED <<disk, drawn, served, answer>>

\* "data directory has entries but .server_key is missing"
RefuseInconsistent ==
    /\ At("start")
    /\ dir /\ keyFile = None
    /\ HasEntryFiles
    /\ server' = Stopped("refused")
    /\ UNCHANGED <<disk, drawn, served, answer>>

FindKey ==
    /\ At("start")
    /\ dir /\ keyFile # None
    /\ Goto("load")
    /\ UNCHANGED <<disk, drawn, served, answer>>

\* loadServerKey: the file must hold 32 bytes.
LoadServerKey ==
    /\ At("load")
    /\ keyFile \in ServerKeys
    /\ server' = [server EXCEPT !.pc = "up", !.serverKey = keyFile]
    /\ served' = TRUE
    /\ UNCHANGED <<disk, drawn, answer>>

RefuseKey ==
    /\ At("load")
    /\ keyFile \notin ServerKeys
    /\ server' = Stopped("refused")
    /\ UNCHANGED <<disk, drawn, served, answer>>

\* generateServerKey: 32 random bytes, never drawn before.
OpenKeyFile ==
    /\ At("newkey")
    /\ \E s \in ServerKeys \ drawn :
          /\ server' = [server EXCEPT !.pc = "writekey", !.serverKey = s]
          /\ drawn' = drawn \cup {s}
    /\ keyFile' = Cut
    /\ UNCHANGED <<dir, away, files, temps, served, answer>>

WriteKeyFile ==
    /\ At("writekey")
    /\ keyFile' = server.serverKey
    /\ Goto("up")
    /\ served' = TRUE
    /\ UNCHANGED <<dir, away, files, temps, drawn, answer>>

\* Mutant of GiveUp: a key that could not be written is used all the same.
GiveUpNever ==
    /\ server.pc \in NotYet
    /\ IF At("writekey") THEN Goto("up") /\ served' = TRUE
                         ELSE server' = Stopped("refused") /\ UNCHANGED served
    /\ UNCHANGED <<disk, drawn, answer>>

\* A file operation of NewFileStore fails: main exits.
GiveUp ==
    /\ server.pc \in NotYet
    /\ server' = Stopped("refused")
    /\ UNCHANGED <<disk, drawn, served, answer>>

-----------------------------------------------------------------------------
(* Put and Get *)

\* Mutant of OpenTemp: writes the file in place.
OpenTempInPlace(k, e) ==
    /\ At("up")
    /\ server' = [server EXCEPT !.pc = "temp", !.key = k, !.entry = e]
    /\ files' = [files EXCEPT ![k] = None]
    /\ temps' = [temps EXCEPT ![k] = Cut]
    /\ UNCHANGED <<dir, keyFile, away, drawn, served, answer>>

\* Put(k, e): encrypt, and truncate or create the temporary file.
OpenTemp(k, e) ==
    /\ At("up")
    /\ server' = [server EXCEPT !.pc = "temp", !.key = k, !.entry = e]
    /\ temps' = [temps EXCEPT ![k] = Cut]
    /\ UNCHANGED <<dir, keyFile, away, files, drawn, served, answer>>

WriteTemp ==
    /\ At("temp")
    /\ temps' = [temps EXCEPT ![server.key] =
           encryptBytes(server.entry, server.serverKey)]
    /\ Goto("rename")
    /\ UNCHANGED <<dir, keyFile, away, files, drawn, served, answer>>

\* Where Put is done, and where it gives up.
Return == [server EXCEPT !.pc = "up", !.key = None, !.entry = None]

Rename ==
    /\ At("rename")
    /\ files' = [files EXCEPT ![server.key] = temps[server.key]]
    /\ temps' = [temps EXCEPT ![server.key] = None]
    /\ server' = Return
    /\ UNCHANGED <<dir, keyFile, away, drawn, served, answer>>

\* Mutant of PutFails: the file is renamed though it could not be written.
PutFailsRenamed ==
    /\ At("temp") \/ At("rename")
    /\ files' = [files EXCEPT ![server.key] = temps[server.key]]
    /\ server' = Return
    /\ UNCHANGED <<dir, keyFile, away, temps, drawn, served, answer>>

\* A file operation of Put fails, and Put says nothing.  (If the first one
\* does, nothing has happened at all.)
PutFails ==
    /\ At("temp") \/ At("rename")
    /\ server' = Return
    /\ UNCHANGED <<disk, drawn, served, answer>>

\* Get(k): nil for no file, and for one it cannot decrypt.
Get(k) ==
    /\ At("up")
    /\ answer' = decryptBytes(files[k], server.serverKey)
    /\ UNCHANGED <<disk, server, drawn, served>>

-----------------------------------------------------------------------------
(* The world outside *)

\* The process is killed, or stopped; the files stay as they are.
Crash ==
    /\ server.pc \in NotYet \cup Serving
    /\ server' = Stopped("down")
    /\ UNCHANGED <<disk, drawn, served, answer>>

\* The operator keeps the key elsewhere (README.md, "storing `.server_key`
\* separately") and brings it back, but not while the server looks for it.
MoveKeyAway ==
    /\ server.pc \notin NotYet
    /\ keyFile \in ServerKeys
    /\ away' = keyFile
    /\ keyFile' = None
    /\ UNCHANGED <<dir, files, temps, server, drawn, served, answer>>

BringKeyBack ==
    /\ server.pc \notin NotYet
    /\ keyFile = None
    /\ away # None
    /\ keyFile' = away
    /\ away' = None
    /\ UNCHANGED <<dir, files, temps, server, drawn, served, answer>>

Next ==
    \/ Start \/ MakeDirectory \/ UseEmpty \/ RefuseInconsistent
    \/ FindKey \/ LoadServerKey \/ RefuseKey \/ OpenKeyFile \/ WriteKeyFile
    \/ GiveUp
    \/ \E k \in Keys : Get(k) \/ \E e \in Values : OpenTemp(k, e)
    \/ WriteTemp \/ Rename \/ PutFails
    \/ Crash \/ MoveKeyAway \/ BringKeyBack

Spec == Init /\ [][Next]_vars

-----------------------------------------------------------------------------
(* Properties *)

\* Every entry on disk is encrypted with the key that the key file holds, or
\* that the operator keeps: no start draws a new key while there are entries
\* (NewFileStore), so every entry stays readable.
OneServerKey ==
    \A k \in Keys : files[k] # None =>
        files[k].by = IF keyFile # None THEN keyFile ELSE away

\* A server that has been up once can load its key at every later start,
\* unless the operator holds the key (generateServerKey, loadServerKey).
KeyStays == served /\ away = None => keyFile \in ServerKeys

\* To its users the directory is a map that survives every crash and every
\* failed write: a Put happens at its rename or not at all, and Get, with the
\* key in memory, returns what was put last.
DM == INSTANCE DurableMap WITH
    map <- [k \in Keys |-> IF files[k] = None THEN None ELSE files[k].entry]
ImplementsDurableMap == DM!Spec

-----------------------------------------------------------------------------
(* What the proofs need beside the properties above *)

\* Nothing is in a directory that does not exist.
NothingWithoutDirectory == ~dir => keyFile = None /\ away = None /\ ~HasEntryFiles

\* A key is generated only where there is none, and no entry.
NewKeyIsFirst ==
    /\ At("newkey") => dir /\ keyFile = None /\ ~HasEntryFiles
    /\ At("writekey") => /\ server.serverKey \in ServerKeys
                         /\ keyFile = Cut /\ ~HasEntryFiles

\* The key in memory is the one in the file, or the one the operator holds.
KeyInMemory ==
    server.pc \in Serving =>
        /\ server.serverKey \in ServerKeys
        /\ server.serverKey = IF keyFile # None THEN keyFile ELSE away

\* A Put knows what it stores, and its temporary file is whole when renamed.
PutUnderWay ==
    /\ server.pc \in {"temp", "rename"} => server.key \in Keys /\ server.entry \in Values
    /\ At("rename") =>
           temps[server.key] = encryptBytes(server.entry, server.serverKey)

IInv ==
    /\ TypeOK
    /\ OneServerKey
    /\ KeyStays
    /\ NothingWithoutDirectory
    /\ NewKeyIsFirst
    /\ KeyInMemory
    /\ PutUnderWay
=============================================================================
