-------------------------- MODULE EntryOwnersProofs -------------------------
(***************************************************************************)
(* What holds of the entries for any number of requests at the same time.  *)
(* Of any requests whatever: an entry stays once those who found its key   *)
(* empty are done.  When those that create entries want different keys     *)
(* (CreatorsApart): nobody is shown a text without the credential that it  *)
(* was saved under.  When those that edit want different keys too: what    *)
(* was acknowledged stays what its credential opens, and whoever presents  *)
(* it gets in, unless another edit has changed the entry since its salt    *)
(* was read.  Last: when those that generate different                     *)
(* notes want different keys and nobody edits them (NotesMenus), a note    *)
(* has one key, and what was acknowledged is kept also where requests      *)
(* generate the same note.                                                 *)
(***************************************************************************)
EXTENDS EntryStoreProofs

-----------------------------------------------------------------------------
(* The inductive invariants *)

\* Requests that create entries at the same time want different keys, or draw
\* them at random where a draw does not repeat another.
CreatorsApart ==
    \A v, w \in Workers : v # w =>
        \A q \in Menu[v], r \in Menu[w] :
            Creates(q) /\ Creates(r) =>
                \/ CreatedKeys(q) \cap CreatedKeys(r) = {}
                \/ q.op = "setup" /\ r.op = "setup" /\ ~RandomRepeats

\* Then a key found empty stays so until it is used, and whoever holds an entry
\* holds the one of its key, or a copy that asks for the same.
CreatorsAlone ==
    /\ \A w \in Workers : worker[w].pc \in {"create", "put"} => stored[worker[w].key] = None
    /\ ~RandomRepeats => \A v, w \in Workers :
           v # w /\ At(v, "put") /\ At(w, "put") => worker[v].key # worker[w].key
    /\ \A w \in Workers : worker[w].pc \in HasKey =>
           /\ Held(w).password = heap[Target(w)].password
           /\ Held(w).totp = heap[Target(w)].totp
    /\ \A w \in Workers : worker[w].pc \in {"write", "reread"} => CodeFits(w)
    /\ \A w \in Workers : worker[w].pc \in Sealing \cup Clearing => PasswordFits(w)

\* Every text of an entry was saved by someone who chose, or knew, the
\* credential that opens it.
Vouched(t, c) == \E r \in Saves(t) : SavedUnder(r) = c
TextsVouched ==
    \A id \in Ids : heap[id] # None =>
        LET e == heap[id]
        IN  /\ e.enc # None => Vouched(e.enc.text, e.enc.key.password)
            /\ e.text \in Texts =>
                   /\ e.totp # None => Vouched(e.text, e.totp)
                   /\ e.password # None => Vouched(e.text, e.password)
                   /\ ~e.protected => Vouched(e.text, None)

\* Nobody generates an entry under a password that bcrypt refuses to hash.
NoLongPasswords ==
    \A r \in Requests : r.op = "generate" => r.password \notin LongPasswords

\* An entry that nobody edits opens with its own password, or is open to all.
BeingEdited(id) ==
    \E w \in Workers : worker[w].entry = id /\ worker[w].pc \in HalfDone
Sound(e) ==
    e.enc # None =>
        e.password # None /\ e.enc.key.password = e.password /\ e.enc.key.salt = e.salt
Locked(e) == e.protected => e.password # None \/ e.totp # None
EntriesSound ==
    /\ \A id \in Ids : heap[id] # None /\ ~BeingEdited(id) => Sound(heap[id])
    /\ \A id \in Ids : heap[id] # None => Locked(heap[id])
    /\ \A w \in Workers : worker[w].pc \in Sealing => Held(w).salt = worker[w].salt

\* What was promised of a key fits the entry that it leads to.
Credential(e) == IF e.totp # None THEN e.totp ELSE e.password
PromisesFit ==
    /\ \A k \in Keys : promise[k] # None =>
           stored[k] # None /\ promise[k].cred = Credential(heap[stored[k]])
    /\ \A w \in Workers : worker[w].pc \in {"same", "unseal"} =>
           /\ Held(w).password = heap[stored[Try(w)]].password
           /\ Held(w).totp = heap[stored[Try(w)]].totp
           /\ At(w, "unseal") => Held(w).password = Req(w).password

\* In memory, who holds an entry holds the one of its key.
HoldsStored ==
    \A w \in Workers :
        /\ worker[w].pc \in HasKey => worker[w].entry = Target(w)
        /\ worker[w].pc \in {"same", "unseal"} => worker[w].entry = stored[Try(w)]

\* None of the credentials of r is that of the entry of its key.
AsksForOther(r) ==
    /\ stored[r.key] # None
    /\ Credential(heap[stored[r.key]]) \notin {r.password, r.code} \ {None}

-----------------------------------------------------------------------------
(* Keys found empty, and entries that stay *)

StoredStays == \A k \in Keys : stored[k] # None => stored'[k] = stored[k]

\* What a step of w owes to this invariant.
LEMMA AloneStep ==
    ASSUME CreatorsApart, IInv, CreatorsAlone, NEW w \in Workers, GoesOn(w), StoredStays,
           \A k \in Keys : stored'[k] # stored[k] =>
               worker[w].pc \in {"create", "put"} /\ k = worker[w].key,
           worker'[w].pc \in {"create", "put"} => stored'[worker'[w].key] = None,
           worker'[w].pc = "put" /\ ~RandomRepeats =>
               \A v \in Workers \ {w} : At(v, "put") => worker[v].key # worker'[w].key,
           worker'[w].pc \in HasKey =>
               /\ Held(w)'.password = heap'[Target(w)'].password
               /\ Held(w)'.totp = heap'[Target(w)'].totp,
           worker'[w].pc \in {"write", "reread"} => CodeFits(w)',
           worker'[w].pc \in Sealing \cup Clearing => PasswordFits(w)'
    PROVE  CreatorsAlone'
<1>1. ASSUME NEW v \in Workers \ {w}
      PROVE  worker'[v] = worker[v]
  BY DEF GoesOn
<1>2. ASSUME NEW v \in Workers \ {w}, worker[v].pc \in {"create", "put"}
      PROVE  stored'[worker[v].key] = None
  <2>1. stored[worker[v].key] = None /\ worker[v].key \in Keys
    BY <1>2, CreatorKeys DEF CreatorsAlone
  <2>2. ASSUME stored'[worker[v].key] # None
        PROVE  FALSE
    <3>1. worker[w].pc \in {"create", "put"} /\ worker[w].key = worker[v].key
      BY <2>1, <2>2
    <3>2. /\ worker[v].key \in CreatedKeys(Req(v)) /\ worker[v].key \in CreatedKeys(Req(w))
          /\ Creates(Req(v)) /\ Creates(Req(w)) /\ Req(v) \in Menu[v] /\ Req(w) \in Menu[w]
      BY <1>2, <3>1, CreatorKeys
    <3>3. Req(v).op = "setup" /\ Req(w).op = "setup" /\ ~RandomRepeats
      BY <3>2 DEF CreatorsApart
    <3>4. At(v, "put") /\ At(w, "put")
      BY <1>2, <3>1, <3>3, CreatorKeys
    <3> QED
      BY <3>1, <3>3, <3>4 DEF CreatorsAlone
  <2> QED
    BY <2>2
<1>3. ASSUME NEW v \in Workers \ {w}, worker[v].pc \in HasKey
      PROVE  /\ Held(v)'.password = Held(v).password /\ Held(v)'.totp = Held(v).totp
             /\ Held(v)'.password = heap'[Target(v)'].password
             /\ Held(v)'.totp = heap'[Target(v)'].totp
  <2>1. /\ worker[v].key \in Keys /\ worker[v].entry # None /\ stored[worker[v].key] # None
    BY <1>3, Opening
  <2>2. /\ worker[v].entry \in Ids /\ worker[v].entry \in InUse /\ heap[worker[v].entry] # None
        /\ Target(v) \in Ids /\ Target(v) \in InUse /\ heap[Target(v)] # None
    BY <2>1, HeldEntry, StoredEntry DEF Held, Target
  <2>3. /\ SameKind(heap'[worker[v].entry], heap[worker[v].entry])
        /\ SameKind(heap'[Target(v)], heap[Target(v)])
    BY <2>2, InUseStays DEF GoesOn
  <2>4. Target(v)' = Target(v) /\ worker'[v] = worker[v]
    BY <1>1, <2>1 DEF Target, StoredStays
  <2> QED
    BY <1>3, <2>3, <2>4 DEF CreatorsAlone, Held, SameKind
<1>4. ASSUME NEW v \in Workers \ {w},
             worker[v].pc \in {"write", "reread"} \cup Sealing \cup Clearing
      PROVE  (CodeFits(v) => CodeFits(v)') /\ (PasswordFits(v) => PasswordFits(v)')
  <2>1. Held(v)'.password = Held(v).password /\ Held(v)'.totp = Held(v).totp
    BY <1>3, <1>4 DEF HasKey, HalfDone, Sealing, Clearing
  <2> QED
    BY <1>1, <2>1 DEF CodeFits, PasswordFits, Req
<1>5. ASSUME NEW v \in Workers
      PROVE  worker'[v].pc \in {"create", "put"} => stored'[worker'[v].key] = None
  BY <1>1, <1>2
<1>6. ASSUME NEW v \in Workers
      PROVE  worker'[v].pc \in HasKey =>
               /\ Held(v)'.password = heap'[Target(v)'].password
               /\ Held(v)'.totp = heap'[Target(v)'].totp
  BY <1>1, <1>3
<1>7. ASSUME NEW v \in Workers
      PROVE  /\ worker'[v].pc \in {"write", "reread"} => CodeFits(v)'
             /\ worker'[v].pc \in Sealing \cup Clearing => PasswordFits(v)'
  BY <1>1, <1>4 DEF CreatorsAlone, At
<1>8. ASSUME ~RandomRepeats, NEW u \in Workers, NEW v \in Workers, u # v,
             At(u, "put")', At(v, "put")'
      PROVE  worker'[u].key # worker'[v].key
  BY <1>1, <1>8 DEF CreatorsAlone, At
<1> QED
  BY <1>5, <1>6, <1>7, <1>8 DEF CreatorsAlone, At

\* Steps after which a request neither creates nor holds anything.
LEMMA NothingHeld ==
    ASSUME CreatorsApart, IInv, CreatorsAlone, NEW w \in Workers, GoesOn(w), UNCHANGED stored,
           worker'[w].pc \notin {"create", "put"} \cup HasKey
    PROVE  CreatorsAlone'
<1>1. worker'[w].pc \notin {"write", "reread"} \cup Sealing \cup Clearing
  BY DEF HasKey, HalfDone, Sealing, Clearing
<1> QED
  BY <1>1, AloneStep DEF StoredStays

LEMMA NextTryPc ==
    ASSUME IInv, NEW w \in Workers, NextTry(w)
    PROVE  worker'[w].pc = "probe"
<1>1. worker'[w] = [Rest(Req(w)) EXCEPT !.pc = "probe", !.i = worker[w].i + 1]
  BY TypeParts DEF NextTry
<1> QED
  BY <1>1 DEF Rest

\* Steps that keep the entry they hold, and change none.
LEMMA HeldStays ==
    ASSUME CreatorsApart, IInv, CreatorsAlone, NEW w \in Workers, GoesOn(w),
           UNCHANGED <<stored, heap>>, worker[w].pc \in HasKey,
           worker'[w].entry = worker[w].entry, worker'[w].key = worker[w].key,
           worker'[w].pc \in {"decrypt", "update"}
    PROVE  CreatorsAlone'
<1>1. Held(w)' = Held(w) /\ Target(w)' = Target(w)
  BY DEF Held, Target
<1>2. /\ Held(w)'.password = heap'[Target(w)'].password
      /\ Held(w)'.totp = heap'[Target(w)'].totp
  BY <1>1 DEF CreatorsAlone
<1> QED
  BY <1>2, AloneStep DEF StoredStays, Sealing, Clearing

LEMMA QuietAlone ==
    ASSUME CreatorsApart, IInv, CreatorsAlone, NEW w \in Workers, GoesOn(w), QuietStep(w)
    PROVE  CreatorsAlone'
<1>1. UNCHANGED <<stored, heap>> /\ worker \in Locals
  BY QuietSteps, LocalsType
<1>2. ASSUME NEW a, Finish(w, a)
      PROVE  CreatorsAlone'
  BY <1>1, <1>2, FinishedPc, NothingHeld DEF HasKey, HalfDone
<1>3. ASSUME NextTry(w)
      PROVE  CreatorsAlone'
  BY <1>1, <1>3, NextTryPc, NothingHeld DEF HasKey, HalfDone
<1>4. ASSUME Goto(w, "update"), worker[w].pc \in HasKey
      PROVE  CreatorsAlone'
  <2>1. /\ worker'[w].pc = "update" /\ worker'[w].entry = worker[w].entry
        /\ worker'[w].key = worker[w].key
    BY <1>1, <1>4 DEF Goto, Locals
  <2> QED
    BY <1>1, <1>4, <2>1, HeldStays
<1>5. ASSUME NEW r \in Menu[w], Accept(w, r)
      PROVE  CreatorsAlone'
  <2>1. worker'[w].pc \in {"probe", "setup", "lookup"}
    BY <1>1, <1>5 DEF Accept, Rest, Locals
  <2> QED
    BY <1>1, <2>1, NothingHeld DEF HasKey, HalfDone
<1>6. CASE ProbeEmpty(w)
  <2>1. worker'[w].pc = "create" /\ worker'[w].key = Try(w) /\ stored[Try(w)] = None
    BY <1>1, <1>6 DEF ProbeEmpty, Locals
  <2> QED
    BY <1>1, <2>1, AloneStep DEF HasKey, StoredStays, HalfDone, Sealing, Clearing
<1>7. CASE CompareSealed(w)
  <2>1. worker'[w].pc = "unseal"
    BY <1>1, <1>7 DEF CompareSealed, Locals
  <2> QED
    BY <1>1, <2>1, NothingHeld DEF HasKey, HalfDone
<1>8. CASE SetupVerified(w)
  <2>1. worker'[w].pc = "pick"
    BY <1>1, <1>8 DEF SetupVerified, Goto, Locals
  <2> QED
    BY <1>1, <2>1, NothingHeld DEF HasKey, HalfDone
<1>9. CASE PickKey(w)
  <2>1. PICK k \in RandomKeys[worker[w].i] :
            /\ RandomRepeats \/ k \notin Drawn(w)
            /\ worker' = IF stored[k] = None
                         THEN [worker EXCEPT ![w].key = k, ![w].pc = "put"]
                         ELSE [worker EXCEPT ![w].i = worker[w].i + 1]
    BY <1>9 DEF PickKey
  <2>2. worker[w].pc = "pick"
    BY <1>9 DEF PickKey, At
  <2>3. CASE stored[k] = None
    <3>1. worker'[w].pc = "put" /\ worker'[w].key = k
      BY <1>1, <2>1, <2>3 DEF Locals
    <3>2. ~RandomRepeats => \A v \in Workers \ {w} : At(v, "put") => worker[v].key # k
      BY <2>1 DEF Drawn
    <3> QED
      BY <1>1, <2>3, <3>1, <3>2, AloneStep DEF HasKey, StoredStays, HalfDone, Sealing, Clearing
  <2>4. CASE stored[k] # None
    <3>1. worker'[w].pc = "pick"
      BY <1>1, <2>1, <2>2, <2>4 DEF Locals
    <3> QED
      BY <1>1, <3>1, NothingHeld DEF HasKey, HalfDone
  <2> QED
    BY <2>3, <2>4
<1>10. CASE ReadSalt(w)
  <2>1. /\ worker'[w].pc = "decrypt" /\ worker'[w].entry = worker[w].entry
        /\ worker'[w].key = worker[w].key /\ worker[w].pc \in HasKey
    BY <1>1, <1>10 DEF ReadSalt, Presents, At, HasKey, Locals, HalfDone
  <2> QED
    BY <1>1, <2>1, HeldStays
<1>11. CASE CompareDecrypted(w) \/ ComparePlain(w) \/ CompareOther(w)
  <2>1. FoundSame(w) \/ NextTry(w)
    BY <1>11 DEF CompareDecrypted, ComparePlain, CompareOther
  <2> QED
    BY <1>2, <1>3, <2>1 DEF FoundSame
<1>12. CASE SetupRefused(w) \/ LookupNothing(w) \/ ShowOrLock(w) \/ WrongCredential(w) \/ Reread(w)
  BY <1>2, <1>12 DEF SetupRefused, LookupNothing, ShowOrLock, WrongCredential, Reread
<1>13. CASE ShowTOTP(w) \/ ShowUnsealed(w) \/ Decrypt(w)
  <2>1. worker[w].pc \in HasKey
    BY <1>13 DEF ShowTOTP, ShowUnsealed, Decrypt, Presents, At, HasKey, HalfDone
  <2> QED
    BY <1>2, <1>4, <1>13, <2>1 DEF ShowTOTP, ShowUnsealed, Decrypt, ShowOrUpdate
<1> QED
  BY <1>5, <1>6, <1>7, <1>8, <1>9, <1>10, <1>11, <1>12, <1>13 DEF QuietStep

\* The crux: a key found empty is still empty when it is used.
LEMMA PutAlone ==
    ASSUME CreatorsApart, IInv, CreatorsAlone, NEW w \in Workers, GoesOn(w),
           Create(w) \/ PutTOTP(w)
    PROVE  CreatorsAlone' /\ StoredStays
<1> DEFINE k == worker[w].key
<1>1. worker[w].pc \in {"create", "put"} /\ stored[k] = None /\ k \in Keys
  BY CreatorKeys DEF Create, PutTOTP, At, CreatorsAlone
<1>2. \A j \in Keys : stored'[j] # stored[j] => j = k
  BY TypeParts DEF Create, PutTOTP, Put
<1>3. StoredStays
  BY <1>1, <1>2 DEF StoredStays
<1>4. worker'[w].pc = "idle"
  BY FinishedPc DEF Create, PutTOTP
<1> QED
  BY <1>1, <1>2, <1>3, <1>4, AloneStep DEF HasKey, HalfDone, Sealing, Clearing

LEMMA LookupAlone ==
    ASSUME CreatorsApart, IInv, CreatorsAlone, NEW w \in Workers, GoesOn(w), Lookup(w)
    PROVE  CreatorsAlone'
<1> DEFINE k == worker[w].key
<1>1. k \in Keys /\ stored[k] # None /\ UNCHANGED stored /\ "view" \in Pcs
  BY Opening DEF Lookup, At, Pcs, HalfDone
<1>2. PICK id \in Ids : GetsInto(w, k, id, "view")
  BY DEF Lookup
<1>3. /\ heap'[id] = heap[stored[k]]
      /\ (id = stored[k] \/ id \notin InUse)
      /\ \A j \in Ids \ {id} : heap'[j] = heap[j]
  BY <1>1, <1>2, GetGoesOn
<1>4. stored[k] \in Ids /\ stored[k] \in InUse
  BY <1>1, StoredEntry
<1>5. heap'[stored[k]] = heap[stored[k]]
  BY <1>3, <1>4
<1>6. worker'[w].pc = "view" /\ worker'[w].entry = id /\ worker'[w].key = k
  BY <1>2, LocalsType DEF GetsInto, Locals
<1>7. Held(w)' = heap'[Target(w)']
  BY <1>1, <1>3, <1>5, <1>6 DEF Held, Target
<1> QED
  BY <1>1, <1>6, <1>7, AloneStep DEF StoredStays, Sealing, Clearing

LEMMA ProbeTakenAlone ==
    ASSUME CreatorsApart, IInv, CreatorsAlone, NEW w \in Workers, GoesOn(w), ProbeTaken(w)
    PROVE  CreatorsAlone'
<1>1. PICK id \in Ids : GetsInto(w, Try(w), id, "same")
  BY DEF ProbeTaken
<1>2. worker'[w].pc = "same" /\ UNCHANGED stored
  BY <1>1, LocalsType DEF ProbeTaken, GetsInto, Locals
<1> QED
  BY <1>2, NothingHeld DEF HasKey, HalfDone

\* updateEntry writes to the entry of the key, or to a copy of it.
LEMMA EditAlone ==
    ASSUME CreatorsApart, IInv, CreatorsAlone, NEW w \in Workers, GoesOn(w), At(w, "update"),
           NEW e \in Entries, SameKind(e, heap[Target(w)]), GoodKind(e),
           NEW pc \in {"reseal", "clear", "write"}, NEW salt \in Salts \cup {None},
           EditsInto(w, e, pc, salt), UNCHANGED stored,
           pc = "write" => CodeFits(w), pc # "write" => PasswordFits(w)
    PROVE  CreatorsAlone'
<1>1. /\ worker[w].key \in Keys /\ stored[worker[w].key] # None /\ pc \in Pcs
      /\ Target(w) \in Ids /\ heap[Target(w)] # None
  BY Updating DEF Pcs, HalfDone
<1>2. EditedInto(w, e, pc, salt)
  BY <1>1, EditGoesOn
<1>3. PICK id \in Ids :
          /\ (id = Target(w) \/ id \notin InUse)
          /\ heap' = [heap EXCEPT ![id] = e] /\ heap'[id] = e
          /\ worker' = [worker EXCEPT ![w] =
                 [worker[w] EXCEPT !.entry = id, !.pc = pc, !.salt = salt]]
  BY <1>2 DEF EditedInto
<1>4. /\ worker'[w].entry = id /\ worker'[w].pc = pc /\ worker'[w].key = worker[w].key
      /\ worker'[w].req = worker[w].req
  BY <1>3, LocalsType DEF Locals
<1>5. Target(w)' = Target(w) /\ Held(w)' = e
  BY <1>3, <1>4 DEF Target, Held
<1>6. /\ Held(w).password = heap[Target(w)].password /\ Held(w).totp = heap[Target(w)].totp
  BY DEF CreatorsAlone, At, HasKey, HalfDone
<1>7. Held(w)'.password = Held(w).password /\ Held(w)'.totp = Held(w).totp
  BY <1>5, <1>6 DEF SameKind
<1>8. heap'[Target(w)].password = e.password /\ heap'[Target(w)].totp = e.totp
  <2>1. Target(w) \in InUse
    BY <1>1 DEF Target, InUse
  <2>2. SameKind(heap'[Target(w)], heap[Target(w)])
    BY <1>1, <2>1, InUseStays DEF GoesOn
  <2> QED
    BY <2>2 DEF SameKind
<1>9. (CodeFits(w) => CodeFits(w)') /\ (PasswordFits(w) => PasswordFits(w)')
  BY <1>4, <1>7 DEF CodeFits, PasswordFits, Req
<1>10. /\ Held(w)'.password = heap'[Target(w)'].password
       /\ Held(w)'.totp = heap'[Target(w)'].totp
  BY <1>5, <1>8
<1>11. \A k \in Keys : stored'[k] = stored[k]
  OBVIOUS
<1>12. /\ worker'[w].pc \in {"write", "reread"} => CodeFits(w)'
       /\ worker'[w].pc \in Sealing \cup Clearing => PasswordFits(w)'
       /\ worker'[w].pc \notin {"create", "put"}
  BY <1>4, <1>9 DEF Sealing, Clearing
<1> QED
  BY <1>10, <1>11, <1>12, AloneStep DEF StoredStays

LEMMA UpdateSaltAlone ==
    ASSUME CreatorsApart, IInv, CreatorsAlone, NEW w \in Workers, GoesOn(w), UpdateSalt(w)
    PROVE  CreatorsAlone'
<1> DEFINE s == NewSalt(Target(w))
           e == [heap[Target(w)] EXCEPT !.salt = s]
<1>1. At(w, "update") /\ Sealed(w) /\ EditsInto(w, e, "reseal", s) /\ UNCHANGED stored
  BY DEF UpdateSalt
<1>2. Target(w) \in Ids /\ heap[Target(w)] \in Entries /\ GoodKind(heap[Target(w)])
  BY <1>1, Updating
<1>3. s \in Salts
  BY <1>2, NewSaltIsNew
<1>4. PasswordFits(w)
  <2>1. Held(w).totp = None
    BY <1>1 DEF Sealed, EditPassword
  <2> QED
    BY <1>1, <2>1 DEF IInv, CredentialFits, CodeFits, HalfDone, Sealing, Clearing
<1> HIDE DEF s
<1>5. e \in Entries /\ SameKind(e, heap[Target(w)]) /\ GoodKind(e)
  BY <1>2, <1>3 DEF Entries, SameKind, GoodKind
<1> HIDE DEF e
<1> QED
  BY <1>1, <1>3, <1>4, <1>5, EditAlone

LEMMA UpdateUnsealedAlone ==
    ASSUME CreatorsApart, IInv, CreatorsAlone, NEW w \in Workers, GoesOn(w), UpdateUnsealed(w)
    PROVE  CreatorsAlone'
<1> DEFINE e == WithText(heap[Target(w)], Req(w).text)
<1>1. At(w, "update") /\ Sealed(w) /\ EditsInto(w, e, "clear", None) /\ UNCHANGED stored
  BY DEF UpdateUnsealed
<1>2. heap[Target(w)] \in Entries /\ GoodKind(heap[Target(w)]) /\ Req(w).text \in Texts
  BY <1>1, Updating
<1>3. PasswordFits(w)
  <2>1. Held(w).totp = None
    BY <1>1 DEF Sealed, EditPassword
  <2> QED
    BY <1>1, <2>1 DEF IInv, CredentialFits, CodeFits
<1>4. e \in Entries /\ SameKind(e, heap[Target(w)]) /\ GoodKind(e)
  BY <1>2 DEF WithText, Entries, SameKind, GoodKind
<1> HIDE DEF e
<1> QED
  BY <1>1, <1>3, <1>4, EditAlone

\* A field that is written leaves what the entry asks for as it is.
LEMMA FieldAlone ==
    ASSUME CreatorsApart, IInv, CreatorsAlone, NEW w \in Workers, GoesOn(w), FieldStep(w)
    PROVE  CreatorsAlone'
<1>1. UNCHANGED stored /\ worker[w].pc \in Sealing \cup Clearing
  BY FieldMoves, FieldWritten
<1>2. CASE worker'[w].pc = "idle"
  BY <1>1, <1>2, NothingHeld DEF HasKey, HalfDone
<1>3. CASE /\ worker'[w].pc \in {"seal", "clear", "unsalt"}
           /\ worker'[w].entry = worker[w].entry /\ worker'[w].key = worker[w].key
           /\ worker'[w].req = worker[w].req
  <2>1. /\ worker[w].entry \in Ids /\ worker[w].entry \in InUse /\ Held(w) # None
        /\ Held(w) = heap[worker[w].entry] /\ worker[w].key \in Keys
        /\ worker[w].pc \in HasKey
    BY <1>1, HalfWritten DEF HasKey, HalfDone, Sealing, Clearing
  <2>2. /\ Target(w) \in Ids /\ Target(w) \in InUse /\ heap[Target(w)] # None
    BY <2>1, Opening, StoredEntry DEF Target
  <2>3. SameKind(heap'[worker[w].entry], Held(w)) /\ SameKind(heap'[Target(w)], heap[Target(w)])
    BY <2>1, <2>2, InUseStays DEF GoesOn
  <2>4. Held(w)' = heap'[worker[w].entry] /\ Target(w)' = Target(w) /\ Req(w)' = Req(w)
    BY <1>1, <1>3 DEF Held, Target, Req
  <2>5. /\ Held(w).password = heap[Target(w)].password /\ Held(w).totp = heap[Target(w)].totp
        /\ PasswordFits(w)
    BY <1>1, <2>1 DEF CreatorsAlone
  <2>6. /\ Held(w)'.password = heap'[Target(w)'].password
        /\ Held(w)'.totp = heap'[Target(w)'].totp
        /\ PasswordFits(w)'
    BY <2>3, <2>4, <2>5 DEF SameKind, PasswordFits
  <2>7. \A k \in Keys : stored'[k] = stored[k]
    BY <1>1
  <2>8. worker'[w].pc \notin {"create", "put", "write", "reread"}
    BY <1>3
  <2> QED
    BY <2>6, <2>7, <2>8, AloneStep DEF StoredStays
<1> QED
  BY <1>2, <1>3, FieldMoves

\* Who edits in clear has given a code: what his password fits is sealed.
LEMMA WritesByCode ==
    ASSUME IInv, CreatorsAlone, NEW w \in Workers, At(w, "update"), ~Sealed(w)
    PROVE  CodeFits(w)
<1>1. Held(w).password = heap[Target(w)].password
  BY DEF CreatorsAlone, At, HasKey, HalfDone
<1>2. ASSUME PasswordFits(w)
      PROVE  FALSE
  BY <1>1, <1>2 DEF PasswordFits, verifyPassword, Sealed, EditPassword
<1> QED
  BY <1>2 DEF IInv, CredentialFits, HalfDone, Sealing, Clearing

LEMMA WriteTextAlone ==
    ASSUME CreatorsApart, IInv, CreatorsAlone, NEW w \in Workers, GoesOn(w), WriteText(w)
    PROVE  CreatorsAlone'
<1> DEFINE e == [heap[Target(w)] EXCEPT !.text = Torn, !.begun = Req(w).text]
<1>1. At(w, "update") /\ ~Sealed(w) /\ EditsInto(w, e, "write", None) /\ UNCHANGED stored
  BY DEF WriteText
<1>2. heap[Target(w)] \in Entries /\ GoodKind(heap[Target(w)]) /\ Req(w).text \in Texts
  BY <1>1, Updating
<1>3. e \in Entries /\ SameKind(e, heap[Target(w)]) /\ GoodKind(e)
  BY <1>2 DEF Entries, SameKind, GoodKind
<1>4. CodeFits(w)
  BY <1>1, WritesByCode
<1> HIDE DEF e
<1> QED
  BY <1>1, <1>3, <1>4, EditAlone

LEMMA WriteRestAlone ==
    ASSUME CreatorsApart, IInv, CreatorsAlone, NEW w \in Workers, GoesOn(w), WriteRest(w)
    PROVE  CreatorsAlone'
<1>1. At(w, "write") /\ UNCHANGED stored /\ worker \in Locals
  BY LocalsType DEF WriteRest
<1>2. CASE Req(w).code # None
  <2>1. /\ worker'[w].pc = "reread" /\ worker'[w].entry = worker[w].entry
        /\ worker'[w].key = worker[w].key /\ worker'[w].req = worker[w].req
    BY <1>1, <1>2 DEF WriteRest, Goto, Locals
  <2>2. /\ Held(w).password = heap[Target(w)].password /\ Held(w).totp = heap[Target(w)].totp
        /\ CodeFits(w) /\ worker[w].pc \in HasKey
    BY <1>1 DEF CreatorsAlone, At, HasKey, HalfDone
  <2>3. /\ worker[w].key \in Keys /\ worker[w].entry # None /\ stored[worker[w].key] # None
    BY <2>2, Opening
  <2>4. /\ worker[w].entry \in Ids /\ worker[w].entry \in InUse /\ heap[worker[w].entry] # None
        /\ Target(w) \in Ids /\ Target(w) \in InUse /\ heap[Target(w)] # None
    BY <2>3, HeldEntry, StoredEntry DEF Held, Target
  <2>5. /\ SameKind(heap'[worker[w].entry], heap[worker[w].entry])
        /\ SameKind(heap'[Target(w)], heap[Target(w)])
    BY <2>4, InUseStays DEF GoesOn
  <2>6. /\ Held(w)'.password = Held(w).password /\ Held(w)'.totp = Held(w).totp
        /\ Held(w)'.password = heap'[Target(w)'].password
        /\ Held(w)'.totp = heap'[Target(w)'].totp
    BY <1>1, <2>1, <2>2, <2>5 DEF Held, Target, SameKind
  <2>7. CodeFits(w)'
    BY <2>1, <2>2, <2>6 DEF CodeFits, Req
  <2> QED
    BY <1>1, <2>1, <2>6, <2>7, AloneStep DEF StoredStays, Sealing, Clearing
<1>3. CASE Req(w).code = None
  <2>1. worker'[w].pc = "idle"
    BY <1>3, FinishedPc DEF WriteRest
  <2> QED
    BY <1>1, <2>1, NothingHeld DEF HasKey, HalfDone
<1> QED
  BY <1>2, <1>3

LEMMA StepAlone ==
    ASSUME CreatorsApart, IInv, CreatorsAlone, NEW w \in Workers,
           Step(w) \/ \E r \in Menu[w] : Accept(w, r)
    PROVE  CreatorsAlone' /\ StoredStays
<1>1. GoesOn(w)
  BY StepGoesOn, AcceptInv
<1>2. CASE QuietStep(w)
  BY <1>1, <1>2, QuietAlone, QuietSteps DEF StoredStays
<1>3. CASE Create(w) \/ PutTOTP(w)
  BY <1>1, <1>3, PutAlone
<1>4. CASE FieldStep(w)
  BY <1>1, <1>4, FieldAlone, FieldMoves DEF StoredStays
<1>5. CASE Lookup(w) \/ ProbeTaken(w) \/ UpdateSalt(w) \/ UpdateUnsealed(w) \/ WriteText(w)
           \/ WriteRest(w)
  <2>1. UNCHANGED stored
    BY <1>5 DEF Lookup, ProbeTaken, UpdateSalt, UpdateUnsealed, WriteText, WriteRest
  <2> QED
    BY <1>1, <1>5, <2>1, LookupAlone, ProbeTakenAlone, UpdateSaltAlone, UpdateUnsealedAlone,
       WriteTextAlone, WriteRestAlone DEF StoredStays
<1> QED
  BY <1>2, <1>3, <1>4, <1>5 DEF Step, QuietStep, FieldStep

LEMMA InitAlone == Init => CreatorsAlone
<1> SUFFICES ASSUME Init PROVE CreatorsAlone
  OBVIOUS
<1>1. \A w \in Workers : worker[w].pc = "idle"
  BY DEF Init, Rest
<1> QED
  BY <1>1 DEF CreatorsAlone, HasKey, At, HalfDone, Sealing, Clearing

LEMMA NextAlone ==
    ASSUME CreatorsApart, IInv, CreatorsAlone, [Next]_vars
    PROVE  CreatorsAlone' /\ StoredStays
<1>1. CASE Next
  <2>1. PICK w \in Workers : Step(w) \/ \E r \in Menu[w] : Accept(w, r)
    BY <1>1 DEF Next
  <2> QED
    BY <2>1, StepAlone
<1>2. CASE UNCHANGED vars
  BY <1>2 DEF vars, CreatorsAlone, StoredStays, At, Held, Target, CodeFits, PasswordFits, Req
<1> QED
  BY <1>1, <1>2

LEMMA AloneInvariance ==
    ASSUME CreatorsApart
    PROVE  Spec => [](IInv /\ CreatorsAlone)
<1>1. IInv /\ CreatorsAlone /\ [Next]_vars => (IInv /\ CreatorsAlone)'
  BY NextInv, NextAlone
<1> QED
  BY <1>1, InitInv, InitAlone, PTL DEF Spec

-----------------------------------------------------------------------------
(* Texts, and who is shown them *)

EntryVouched(e) ==
    /\ e.enc # None => Vouched(e.enc.text, e.enc.key.password)
    /\ e.text \in Texts =>
           /\ e.totp # None => Vouched(e.text, e.totp)
           /\ e.password # None => Vouched(e.text, e.password)
           /\ ~e.protected => Vouched(e.text, None)

GoodAnswer(r, a) ==
    a.page = "shown" /\ a.text \in Texts =>
        \E q \in Saves(a.text) : SavedUnder(q) \in {None, r.password, r.code}

Authorised == TextsVouched /\ ShownIsAuthorised

LEMMA VouchedEntry ==
    ASSUME Authorised, NEW id \in Ids, heap[id] # None
    PROVE  EntryVouched(heap[id])
BY DEF Authorised, TextsVouched, EntryVouched

NewEntriesVouched ==
    \A id \in Ids : heap'[id] # None /\ heap'[id] # heap[id] => EntryVouched(heap'[id])

\* What a step of w owes to this invariant.
LEMMA VouchedStep ==
    ASSUME Authorised, NEW w \in Workers, GoesOn(w), NewEntriesVouched,
           \A v \in Workers \ {w} : answer'[v] = answer[v],
           GoodAnswer(worker'[w].req, answer'[w])
    PROVE  Authorised'
<1>1. \A id \in Ids : heap'[id] # None => EntryVouched(heap'[id])
  BY VouchedEntry DEF NewEntriesVouched
<1>2. TextsVouched'
  BY <1>1 DEF TextsVouched, EntryVouched, Vouched, Saves, TextOnly, SavedUnder, Presented
<1>3. \A v \in Workers : GoodAnswer(worker'[v].req, answer'[v])
  BY DEF GoesOn, Authorised, ShownIsAuthorised, GoodAnswer, Req
<1>4. ShownIsAuthorised'
  BY <1>3 DEF ShownIsAuthorised, GoodAnswer, Req, Saves, TextOnly, SavedUnder, Presented
<1> QED
  BY <1>2, <1>4 DEF Authorised

\* A step that answers, and one that does not yet.
LEMMA FinishVouched ==
    ASSUME IInv, Authorised, NEW w \in Workers, GoesOn(w), NewEntriesVouched,
           NEW a, Finish(w, a), GoodAnswer(Req(w), a)
    PROVE  Authorised'
<1>1. answer'[w] = a /\ \A v \in Workers \ {w} : answer'[v] = answer[v]
  BY TypeParts DEF Finish
<1>2. worker'[w].req = Req(w)
  BY TypeParts DEF Finish, Rest
<1> QED
  BY <1>1, <1>2, VouchedStep

LEMMA GoOnVouched ==
    ASSUME IInv, Authorised, NEW w \in Workers, GoesOn(w), NewEntriesVouched,
           UNCHANGED answer, worker'[w].req = worker[w].req
    PROVE  Authorised'
<1>1. GoodAnswer(worker[w].req, answer[w])
  BY DEF Authorised, ShownIsAuthorised, GoodAnswer, Req
<1> QED
  BY <1>1, VouchedStep

\* Pages that show no text.
LEMMA PageIsGood ==
    /\ \A r, p : p # "shown" => GoodAnswer(r, Page(p))
    /\ \A r, k : GoodAnswer(r, Redirect(k))
    /\ \A r : GoodAnswer(r, NoAnswer)
BY DEF GoodAnswer, Page, Redirect, NoAnswer

LEMMA ShownIsGood ==
    ASSUME NEW r, NEW t, NEW u,
           t \in Texts => \E c \in {None, r.password, r.code} : Vouched(t, c)
    PROVE  GoodAnswer(r, Shown(t, u))
<1>1. Shown(t, u).text = t
  BY DEF Shown, NoAnswer
<1> QED
  BY <1>1 DEF GoodAnswer, Vouched

LEMMA SameHeapVouched ==
    ASSUME UNCHANGED heap
    PROVE  NewEntriesVouched
BY DEF NewEntriesVouched

\* The text of a request is saved under what it presents.
LEMMA OwnText ==
    ASSUME IInv, NEW w \in Workers, worker[w].pc \in Edits
    PROVE  /\ Req(w).password # None => Vouched(Req(w).text, Req(w).password)
           /\ Req(w).code # None => Vouched(Req(w).text, Req(w).code)
<1>1. /\ Req(w) \in Menu[w] /\ Req(w).op = "post" /\ worker[w].pc \in HasKey
  BY Opening, EditingText DEF Edits, HasKey, HalfDone
<1>2. Req(w) \in Requests /\ None \in {Req(w).password, Req(w).code}
  BY <1>1, MenuType DEF WellFormed
<1>3. Req(w).password # None \/ Req(w).code # None => Req(w) \in Saves(Req(w).text)
  BY <1>2 DEF Saves, TextOnly
<1> QED
  BY <1>1, <1>2, <1>3 DEF Vouched, SavedUnder, Presented

LEMMA HeldVouched ==
    ASSUME IInv, Authorised, NEW w \in Workers, worker[w].pc \in HasKey
    PROVE  EntryVouched(Held(w)) /\ GoodKind(Held(w)) /\ Held(w) \in Entries /\ Held(w) # None
BY Opening, HeldEntry, VouchedEntry DEF Held

\* What the pages of a credential show.
LEMMA ShowVouched ==
    ASSUME IInv, Authorised, NEW w \in Workers, GoesOn(w),
           ShowOrLock(w) \/ ShowTOTP(w) \/ ShowUnsealed(w) \/ Decrypt(w)
    PROVE  Authorised'
<1>1. worker[w].pc \in HasKey /\ UNCHANGED heap
  BY DEF ShowOrLock, ShowTOTP, ShowUnsealed, Decrypt, Presents, At, HasKey, HalfDone
<1>2. NewEntriesVouched /\ EntryVouched(Held(w)) /\ Held(w) \in Entries
  BY <1>1, SameHeapVouched, HeldVouched
<1>3. ASSUME NEW text, ShowOrUpdate(w, text),
             text \in Texts => \E c \in {None, Req(w).password, Req(w).code} : Vouched(text, c)
      PROVE  Authorised'
  <2>1. CASE Req(w).text = None
    BY <1>2, <1>3, <2>1, ShownIsGood, FinishVouched DEF ShowOrUpdate
  <2>2. CASE Req(w).text # None
    <3>1. UNCHANGED answer /\ worker'[w].req = worker[w].req
      BY <1>3, <2>2, LocalsType DEF ShowOrUpdate, Goto, Locals
    <3> QED
      BY <1>2, <3>1, GoOnVouched
  <2> QED
    BY <2>1, <2>2
<1>4. CASE ShowOrLock(w)
  <2>1. CASE Held(w).protected
    BY <1>2, <1>4, <2>1, PageIsGood, FinishVouched DEF ShowOrLock
  <2>2. CASE ~Held(w).protected
    <3>1. Held(w).text \in Texts => Vouched(Held(w).text, None)
      BY <1>2, <2>2 DEF EntryVouched
    <3>2. GoodAnswer(Req(w), Shown(Held(w).text, FALSE))
      BY <3>1, ShownIsGood
    <3> QED
      BY <1>2, <1>4, <2>2, <3>2, FinishVouched DEF ShowOrLock
  <2> QED
    BY <2>1, <2>2
<1>5. CASE ShowTOTP(w)
  <2>1. Held(w).text \in Texts => Vouched(Held(w).text, Req(w).code)
    BY <1>2, <1>5 DEF ShowTOTP, CodeFits, ValidateTOTP, EntryVouched
  <2> QED
    BY <1>3, <1>5, <2>1 DEF ShowTOTP, ShowOrUpdate
<1>6. CASE ShowUnsealed(w)
  <2>1. Held(w).text \in Texts => Vouched(Held(w).text, Req(w).password)
    BY <1>2, <1>6 DEF ShowUnsealed, PasswordFits, verifyPassword, EntryVouched
  <2> QED
    BY <1>3, <1>6, <2>1 DEF ShowUnsealed
<1>7. CASE Decrypt(w)
  <2> DEFINE text == Unseal(Held(w).enc, worker[w].salt, Req(w).password)
  <2>1. CASE text = Failed
    BY <1>2, <1>7, <2>1, PageIsGood, FinishVouched DEF Decrypt
  <2>2. CASE text # Failed
    <3>1. /\ Held(w).enc # None /\ Held(w).enc.key = deriveKey(Req(w).password, worker[w].salt)
          /\ text = Held(w).enc.text
      BY <2>2 DEF Unseal, decrypt
    <3>2. Held(w).enc.key.password = Req(w).password
      BY <3>1 DEF deriveKey
    <3>3. Vouched(text, Req(w).password)
      BY <1>2, <3>1, <3>2 DEF EntryVouched
    <3>4. ShowOrUpdate(w, text)
      BY <1>7, <2>2 DEF Decrypt
    <3> HIDE DEF text
    <3> QED
      BY <1>3, <3>3, <3>4
  <2> QED
    BY <2>1, <2>2
<1> QED
  BY <1>4, <1>5, <1>6, <1>7

\* The page after an edit by code: the entry that is read again asks for that
\* code, whoever wrote its text.
LEMMA RereadVouched ==
    ASSUME IInv, CreatorsAlone, Authorised, NEW w \in Workers, GoesOn(w), Reread(w)
    PROVE  Authorised'
<1> DEFINE e == heap[Target(w)]
<1>1. At(w, "reread") /\ worker[w].pc \in HasKey
  BY DEF Reread, At, HasKey, HalfDone
<1>2. CodeFits(w) /\ Held(w).totp = e.totp
  BY <1>1 DEF CreatorsAlone, At
<1>3. Target(w) \in Ids /\ e # None
  BY <1>1, Opening, StoredEntry DEF Target
<1>4. EntryVouched(e) /\ e.totp # None /\ e.totp = Req(w).code
  BY <1>2, <1>3, VouchedEntry DEF CodeFits, ValidateTOTP
<1>5. GoodAnswer(Req(w), Shown(e.text, TRUE))
  BY <1>4, ShownIsGood DEF EntryVouched
<1> HIDE DEF e
<1>6. Finish(w, Shown(e.text, TRUE)) /\ NewEntriesVouched
  BY SameHeapVouched DEF Reread, e
<1> QED
  BY <1>5, <1>6, FinishVouched

\* Steps that neither show nor write a text.
LEMMA QuietVouched ==
    ASSUME IInv, CreatorsAlone, Authorised, NEW w \in Workers, GoesOn(w), QuietStep(w)
    PROVE  Authorised'
<1>1. NewEntriesVouched /\ worker \in Locals
  BY QuietSteps, SameHeapVouched, LocalsType
<1>2. ASSUME NEW p \in {"wrong", "home"}, Finish(w, Page(p))
      PROVE  Authorised'
  BY <1>1, <1>2, PageIsGood, FinishVouched
<1>3. ASSUME NEW k, Finish(w, Redirect(k))
      PROVE  Authorised'
  BY <1>1, <1>3, PageIsGood, FinishVouched
<1>4. ASSUME NextTry(w)
      PROVE  Authorised'
  <2>1. worker'[w] = [Rest(Req(w)) EXCEPT !.pc = "probe", !.i = worker[w].i + 1]
    BY <1>4, TypeParts DEF NextTry
  <2>2. worker'[w].req = worker[w].req /\ UNCHANGED answer
    BY <1>4, <2>1 DEF Rest, Req, NextTry
  <2> QED
    BY <1>1, <2>2, GoOnVouched
<1>5. ASSUME NEW r \in Menu[w], Accept(w, r)
      PROVE  Authorised'
  <2>1. answer'[w] = NoAnswer /\ \A v \in Workers \ {w} : answer'[v] = answer[v]
    BY <1>5, TypeParts DEF Accept
  <2> QED
    BY <1>1, <2>1, PageIsGood, VouchedStep
<1>6. CASE ProbeEmpty(w) \/ CompareSealed(w) \/ SetupVerified(w) \/ ReadSalt(w)
  <2>1. worker'[w].req = worker[w].req /\ UNCHANGED answer
    BY <1>1, <1>6 DEF ProbeEmpty, CompareSealed, SetupVerified, Goto, ReadSalt, Locals
  <2> QED
    BY <1>1, <2>1, GoOnVouched
<1>7. CASE PickKey(w)
  <2>1. PICK k \in RandomKeys[worker[w].i] :
            worker' = IF stored[k] = None
                      THEN [worker EXCEPT ![w].key = k, ![w].pc = "put"]
                      ELSE [worker EXCEPT ![w].i = worker[w].i + 1]
    BY <1>7 DEF PickKey
  <2>2. worker'[w].req = worker[w].req /\ UNCHANGED answer
    <3>1. CASE stored[k] = None
      BY <1>1, <1>7, <2>1, <3>1 DEF PickKey, Locals
    <3>2. CASE stored[k] # None
      BY <1>1, <1>7, <2>1, <3>2 DEF PickKey, Locals
    <3> QED
      BY <3>1, <3>2
  <2> QED
    BY <1>1, <2>2, GoOnVouched
<1>8. CASE CompareDecrypted(w) \/ ComparePlain(w) \/ CompareOther(w)
  <2>1. FoundSame(w) \/ NextTry(w)
    BY <1>8 DEF CompareDecrypted, ComparePlain, CompareOther
  <2> QED
    BY <1>3, <1>4, <2>1 DEF FoundSame
<1>9. CASE SetupRefused(w) \/ LookupNothing(w) \/ WrongCredential(w)
  BY <1>2, <1>9 DEF SetupRefused, LookupNothing, WrongCredential
<1> QED
  BY <1>5, <1>6, <1>7, <1>8, <1>9, ShowVouched, RereadVouched DEF QuietStep

\* A copy is vouched for as what it is a copy of.
LEMMA GetVouched ==
    ASSUME IInv, Authorised, NEW w \in Workers, GoesOn(w), Lookup(w) \/ ProbeTaken(w)
    PROVE  Authorised'
<1>1. PICK k \in Keys : /\ stored[k] # None /\ UNCHANGED <<stored, answer>>
                        /\ \E id \in Ids, pc \in Pcs : GetsInto(w, k, id, pc)
  <2>1. CASE Lookup(w)
    BY <2>1, Opening DEF Lookup, At, Pcs, HalfDone
  <2>2. CASE ProbeTaken(w)
    BY <2>2, Generating DEF ProbeTaken, Probing, At, Pcs, HalfDone
  <2> QED
    BY <2>1, <2>2
<1>2. PICK id \in Ids, pc \in Pcs : GetsInto(w, k, id, pc)
  BY <1>1
<1>3. heap'[id] = heap[stored[k]] /\ \A j \in Ids \ {id} : heap'[j] = heap[j]
  BY <1>1, <1>2, GetGoesOn
<1>4. stored[k] \in Ids /\ EntryVouched(heap[stored[k]])
  BY <1>1, StoredEntry, VouchedEntry
<1>5. NewEntriesVouched
  BY <1>3, <1>4 DEF NewEntriesVouched
<1>6. worker'[w].req = worker[w].req
  BY <1>2, LocalsType DEF GetsInto, Locals
<1> QED
  BY <1>1, <1>5, <1>6, GoOnVouched

\* createEntry: a text is saved under the password it came with, or openly.
LEMMA CreateVouched ==
    ASSUME IInv, Authorised, NEW w \in Workers, GoesOn(w), Create(w)
    PROVE  Authorised'
<1> DEFINE t == Req(w).text
           p == Req(w).password
<1>1. /\ Req(w) \in Menu[w] /\ Req(w).op = "generate" /\ t \in Texts
      /\ p \in Passwords \cup {None} /\ worker[w].key \in Keys
  BY Generating, CreatorKeys DEF Create, At
<1>2. Vouched(t, p)
  <2>1. Req(w).code = None /\ Req(w) \in Requests
    BY <1>1, MenuType DEF WellFormed
  <2> QED
    BY <1>1, <2>1 DEF Vouched, Saves, TextOnly, SavedUnder, Presented
<1>3. /\ p = None => EntryVouched(PublicEntry(t))
      /\ p # None => /\ EntryVouched(PasswordEntry(t, p, FirstSalt))
                     /\ EntryVouched(UnsealedEntry(t, p))
  <2>1. p = None => EntryVouched(PublicEntry(t))
    BY <1>2 DEF EntryVouched, PublicEntry
  <2>2. hashPassword(p) \in {p, None} /\ None \notin Texts
    BY EntryAssumption DEF hashPassword
  <2>3. EntryVouched(UnsealedEntry(t, p))
    BY <1>2, <2>2 DEF EntryVouched, UnsealedEntry, PublicEntry
  <2>4. EntryVouched(PasswordEntry(t, p, FirstSalt))
    BY <1>2, <2>2 DEF EntryVouched, PasswordEntry, PublicEntry, encrypt, deriveKey
  <2> QED
    BY <2>1, <2>3, <2>4
<1> HIDE DEF t, p
<1>4. PICK e : Put(worker[w].key, e) /\ EntryVouched(e)
  BY <1>3 DEF Create, t, p
<1>5. NewEntriesVouched
  BY <1>1, <1>4, NewIdIsFree, TypeParts DEF Put, NewEntriesVouched
<1> QED
  BY <1>5, PageIsGood, FinishVouched DEF Create

LEMMA PutTOTPVouched ==
    ASSUME IInv, Authorised, NEW w \in Workers, GoesOn(w), PutTOTP(w)
    PROVE  Authorised'
<1> DEFINE t == Req(w).text
           s == Req(w).secret
<1>1. /\ Req(w) \in Menu[w] /\ Req(w).op = "setup" /\ t \in Texts /\ worker[w].key \in Keys
  BY SettingUp, CreatorKeys DEF PutTOTP, At
<1>2. Vouched(t, s)
  <2>1. Req(w) \in Requests
    BY <1>1, MenuType
  <2> QED
    BY <1>1, <2>1 DEF Vouched, Saves, TextOnly, SavedUnder
<1>3. EntryVouched(TotpEntry(t, s))
  BY <1>2 DEF EntryVouched, TotpEntry, PublicEntry
<1>4. Put(worker[w].key, TotpEntry(t, s))
  BY DEF PutTOTP
<1> HIDE DEF t, s
<1>5. NewEntriesVouched
  BY <1>1, <1>3, <1>4, NewIdIsFree, TypeParts DEF Put, NewEntriesVouched
<1> QED
  BY <1>5, PageIsGood, FinishVouched DEF PutTOTP

\* updateEntry's first step writes no text: what the key asks for stays.
LEMMA EditVouched ==
    ASSUME IInv, Authorised, NEW w \in Workers, GoesOn(w), At(w, "update"),
           NEW e \in Entries, SameKind(e, heap[Target(w)]), GoodKind(e), EntryVouched(e),
           NEW pc \in Pcs, NEW salt \in Salts \cup {None},
           EditsInto(w, e, pc, salt), UNCHANGED <<stored, answer>>
    PROVE  Authorised'
<1>1. worker[w].key \in Keys /\ stored[worker[w].key] # None
  BY Updating
<1>2. EditedInto(w, e, pc, salt)
  BY <1>1, EditGoesOn
<1>3. PICK id \in Ids :
          /\ heap' = [heap EXCEPT ![id] = e]
          /\ worker' = [worker EXCEPT ![w] =
                 [worker[w] EXCEPT !.entry = id, !.pc = pc, !.salt = salt]]
  BY <1>2 DEF EditedInto
<1>4. NewEntriesVouched
  BY <1>3, TypeParts DEF NewEntriesVouched
<1>5. worker'[w].req = worker[w].req
  BY <1>3, LocalsType DEF Locals
<1> QED
  BY <1>4, <1>5, GoOnVouched

LEMMA UpdateSaltVouched ==
    ASSUME IInv, Authorised, NEW w \in Workers, GoesOn(w), UpdateSalt(w)
    PROVE  Authorised'
<1> DEFINE s == NewSalt(Target(w))
           e == [heap[Target(w)] EXCEPT !.salt = s]
<1>1. At(w, "update") /\ EditsInto(w, e, "reseal", s) /\ UNCHANGED <<stored, answer>>
  BY DEF UpdateSalt
<1>2. /\ Target(w) \in Ids /\ heap[Target(w)] # None /\ heap[Target(w)] \in Entries
      /\ GoodKind(heap[Target(w)])
  BY <1>1, Updating
<1>3. s \in Salts /\ EntryVouched(heap[Target(w)])
  BY <1>2, NewSaltIsNew, VouchedEntry
<1> HIDE DEF s
<1>4. e \in Entries /\ SameKind(e, heap[Target(w)]) /\ GoodKind(e) /\ EntryVouched(e)
  BY <1>2, <1>3 DEF Entries, SameKind, GoodKind, EntryVouched
<1> HIDE DEF e
<1> QED
  BY <1>1, <1>3, <1>4, EditVouched DEF Pcs, HalfDone

LEMMA WriteTextVouched ==
    ASSUME IInv, Authorised, NEW w \in Workers, GoesOn(w), WriteText(w)
    PROVE  Authorised'
<1> DEFINE e == [heap[Target(w)] EXCEPT !.text = Torn, !.begun = Req(w).text]
<1>1. At(w, "update") /\ EditsInto(w, e, "write", None) /\ UNCHANGED <<stored, answer>>
  BY DEF WriteText
<1>2. /\ Target(w) \in Ids /\ heap[Target(w)] # None /\ heap[Target(w)] \in Entries
      /\ GoodKind(heap[Target(w)]) /\ Req(w).text \in Texts
  BY <1>1, Updating
<1>3. EntryVouched(heap[Target(w)]) /\ Torn \notin Texts
  BY <1>2, VouchedEntry, EntryAssumption
<1>4. e \in Entries /\ SameKind(e, heap[Target(w)]) /\ GoodKind(e) /\ EntryVouched(e)
  BY <1>2, <1>3 DEF Entries, SameKind, GoodKind, EntryVouched
<1> HIDE DEF e
<1> QED
  BY <1>1, <1>4, EditVouched DEF Pcs, HalfDone

LEMMA UpdateUnsealedVouched ==
    ASSUME IInv, CreatorsAlone, Authorised, NEW w \in Workers, GoesOn(w), UpdateUnsealed(w)
    PROVE  Authorised'
<1> DEFINE e == WithText(heap[Target(w)], Req(w).text)
<1>1. /\ At(w, "update") /\ Sealed(w) /\ worker[w].pc \in Edits
      /\ EditsInto(w, e, "clear", None) /\ UNCHANGED <<stored, answer>>
  BY DEF UpdateUnsealed, At, Edits
<1>2. /\ Target(w) \in Ids /\ heap[Target(w)] # None /\ heap[Target(w)] \in Entries
      /\ GoodKind(heap[Target(w)]) /\ Req(w).text \in Texts
  BY <1>1, Updating
<1>3. PasswordFits(w) /\ Held(w).password = heap[Target(w)].password
  <2>1. Held(w).totp = None
    BY <1>1 DEF Sealed, EditPassword
  <2> QED
    BY <1>1, <2>1 DEF IInv, CredentialFits, CodeFits, CreatorsAlone, At, HasKey
<1>4. heap[Target(w)].password # None /\ heap[Target(w)].password = Req(w).password
  BY <1>3 DEF PasswordFits, verifyPassword
<1>5. EntryVouched(heap[Target(w)]) /\ Vouched(Req(w).text, Req(w).password)
  BY <1>1, <1>2, <1>4, VouchedEntry, OwnText
<1>6. heap[Target(w)].totp = None /\ heap[Target(w)].protected
  BY <1>2, <1>4 DEF GoodKind
<1>7. e \in Entries /\ SameKind(e, heap[Target(w)]) /\ GoodKind(e)
  BY <1>2 DEF WithText, Entries, SameKind, GoodKind
<1>8. EntryVouched(e)
  BY <1>2, <1>4, <1>5, <1>6 DEF EntryVouched, WithText, Entries
<1> HIDE DEF e
<1> QED
  BY <1>1, <1>7, <1>8, EditVouched DEF Pcs, HalfDone

\* A field that is written is the text that goes with the password of the entry,
\* or leaves the entry with less than it had.
LEMMA FieldVouched ==
    ASSUME IInv, CreatorsAlone, Authorised, NEW w \in Workers, GoesOn(w), FieldStep(w)
    PROVE  Authorised'
<1> DEFINE id == worker[w].entry
<1>1. worker[w].pc \in Sealing \cup Clearing /\ worker[w].pc \in HasKey /\ worker[w].pc \in Edits
  BY FieldWritten DEF Sealing, Clearing, HasKey, Edits, HalfDone
<1>2. /\ id \in Ids /\ Held(w) = heap[id] /\ Held(w).totp = None /\ EntryVouched(Held(w))
      /\ Req(w).text \in Texts /\ GoodKind(Held(w)) /\ Held(w).password # None
  BY <1>1, HalfWritten, HeldVouched
<1>3. Held(w).password = Req(w).password /\ Vouched(Req(w).text, Req(w).password)
  BY <1>1, <1>2, OwnText DEF CreatorsAlone, PasswordFits, verifyPassword
<1>4. PICK e \in Entries :
          /\ Field(w, e)
          /\ \/ \E pc \in {"seal", "clear", "unsalt"} : FieldNext(w, e, pc)
             \/ LastWrite(w, e)
  BY FieldWritten
<1>5. /\ e.totp = None /\ e.password = Req(w).password /\ e.protected
      /\ e.text \in {None, Req(w).text, Held(w).text}
      /\ e.enc \in {None, Held(w).enc, NewCipher(w)}
  BY <1>2, <1>3, <1>4 DEF Field, SameKind, GoodKind
<1>6. NewCipher(w).text = Req(w).text /\ NewCipher(w).key.password = Req(w).password
  BY DEF NewCipher, encrypt, deriveKey
<1>7. e.enc # None => Vouched(e.enc.text, e.enc.key.password)
  <2>1. CASE e.enc = Held(w).enc
    BY <1>2, <2>1 DEF EntryVouched
  <2>2. CASE e.enc = NewCipher(w)
    BY <1>3, <1>6, <2>2
  <2> QED
    BY <1>5, <2>1, <2>2
<1>8. e.text \in Texts => Vouched(e.text, e.password)
  <2>1. CASE e.text = Held(w).text
    BY <1>2, <1>3, <1>5, <2>1 DEF EntryVouched
  <2>2. CASE e.text # Held(w).text
    BY <1>3, <1>5, <2>2, EntryAssumption
  <2> QED
    BY <2>1, <2>2
<1>9. EntryVouched(e)
  BY <1>5, <1>7, <1>8 DEF EntryVouched
<1>10. NewEntriesVouched
  BY <1>2, <1>4, <1>9, TypeParts
     DEF NewEntriesVouched, FieldNext, GoesOnWriting, LastWrite, Writes
<1>11. CASE \E pc \in {"seal", "clear", "unsalt"} : FieldNext(w, e, pc)
  <2>1. \E pc \in {"seal", "clear", "unsalt"} : Goto(w, pc)
    BY <1>11 DEF FieldNext, GoesOnWriting
  <2>2. UNCHANGED answer /\ worker'[w].req = worker[w].req
    BY <1>11, <2>1, LocalsType DEF FieldNext, GoesOnWriting, Goto, Locals
  <2> QED
    BY <1>10, <2>2, GoOnVouched
<1>12. CASE LastWrite(w, e)
  BY <1>3, <1>10, <1>12, ShownIsGood, FinishVouched DEF LastWrite
<1> QED
  BY <1>4, <1>11, <1>12

\* Who writes a text in clear has given the code of the entry he writes to.
LEMMA WriteRestVouched ==
    ASSUME IInv, CreatorsAlone, Authorised, NEW w \in Workers, GoesOn(w), WriteRest(w)
    PROVE  Authorised'
<1> DEFINE id == worker[w].entry
<1>1. At(w, "write") /\ worker[w].pc \in HasKey /\ worker[w].pc \in Edits
  BY DEF WriteRest, At, HasKey, Edits, HalfDone
<1>2. /\ id \in Ids /\ Held(w) = heap[id] /\ Held(w) \in Entries /\ GoodKind(Held(w))
      /\ EntryVouched(Held(w))
  BY <1>1, Opening, HeldEntry, HeldVouched DEF Held
<1>3. CodeFits(w)
  BY <1>1 DEF CreatorsAlone, At
<1>4. /\ Held(w).totp # None /\ Held(w).totp = Req(w).code /\ Req(w).code # None
      /\ Held(w).password = None /\ Held(w).protected
  BY <1>2, <1>3 DEF CodeFits, ValidateTOTP, GoodKind
<1>5. Vouched(Req(w).text, Req(w).code) /\ Torn \notin Texts
  BY <1>1, <1>4, OwnText, EntryAssumption
<1>6. PICK t \in {Req(w).text, Torn} : heap' = [heap EXCEPT ![id].text = t]
  BY DEF WriteRest
<1> DEFINE e == [Held(w) EXCEPT !.text = t]
<1>7. heap' = [heap EXCEPT ![id] = e]
  BY <1>2, <1>6, TypeParts
<1>8. EntryVouched(e)
  BY <1>2, <1>4, <1>5 DEF EntryVouched, Entries
<1> HIDE DEF e
<1>9. NewEntriesVouched
  BY <1>2, <1>7, <1>8, TypeParts DEF NewEntriesVouched
<1>10. Goto(w, "reread") /\ UNCHANGED answer
  BY <1>4 DEF WriteRest
<1>11. worker'[w].req = worker[w].req
  BY <1>10, LocalsType DEF Goto, Locals
<1> QED
  BY <1>9, <1>10, <1>11, GoOnVouched

LEMMA NextVouched ==
    ASSUME IInv, CreatorsAlone, Authorised, [Next]_vars
    PROVE  Authorised'
<1>1. ASSUME NEW w \in Workers, Step(w) \/ \E r \in Menu[w] : Accept(w, r)
      PROVE  Authorised'
  <2>1. GoesOn(w)
    BY <1>1, StepGoesOn, AcceptInv
  <2>2. CASE QuietStep(w)
    BY <2>1, <2>2, QuietVouched
  <2> QED
    BY <1>1, <2>1, <2>2, CreateVouched, PutTOTPVouched, GetVouched, UpdateSaltVouched,
       UpdateUnsealedVouched, FieldVouched, WriteTextVouched, WriteRestVouched
       DEF Step, QuietStep, FieldStep
<1>2. CASE UNCHANGED vars
  BY <1>2 DEF vars, Authorised, TextsVouched, ShownIsAuthorised, Vouched, Saves, TextOnly,
              SavedUnder, Presented, Req
<1> QED
  BY <1>1, <1>2 DEF Next

\* handleView shows a text only to who presents the password or the code under
\* which some request saved it, or if some request saved it openly: however many
\* requests create, open and edit entries at the same time and whether
\* encryption fails, provided those that create entries want different keys.
THEOREM TextsAreForTheirOwners ==
    ASSUME CreatorsApart
    PROVE  Spec => []ShownIsAuthorised
<1>1. Init => Authorised
  BY DEF Init, Authorised, TextsVouched, ShownIsAuthorised, NoAnswer
<1>2. IInv /\ CreatorsAlone /\ Authorised /\ [Next]_vars => Authorised'
  BY NextVouched
<1>3. Authorised => ShownIsAuthorised
  BY DEF Authorised
<1> QED
  BY <1>1, <1>2, <1>3, AloneInvariance, PTL DEF Spec

-----------------------------------------------------------------------------
(* Texts that one request has begun to write *)

\* Whoever writes a text finds what it has written of it.
Begun(w) ==
    /\ At(w, "write") => Held(w).begun = Req(w).text
    /\ worker[w].pc \in Clearing => Held(w).text = Req(w).text
TextsBegun == \A w \in Workers : Begun(w)

\* What updateEntry's first step leaves.
LEMMA EditHeld ==
    ASSUME IInv, NEW w \in Workers, At(w, "update"),
           NEW e \in Entries, SameKind(e, heap[Target(w)]), GoodKind(e),
           NEW pc \in HalfDone, NEW salt \in Salts \cup {None},
           EditsInto(w, e, pc, salt), UNCHANGED stored
    PROVE  /\ Held(w)' = e /\ Req(w)' = Req(w)
           /\ worker'[w].pc = pc /\ worker'[w].salt = salt
           /\ \A id \in Ids : heap'[id] # heap[id] => id = worker'[w].entry
<1>1. worker[w].key \in Keys /\ stored[worker[w].key] # None /\ pc \in Pcs
  BY Updating DEF Pcs
<1>2. EditedInto(w, e, pc, salt)
  BY <1>1, EditGoesOn
<1>3. PICK id \in Ids :
          /\ heap' = [heap EXCEPT ![id] = e] /\ heap'[id] = e
          /\ worker' = [worker EXCEPT ![w] =
                 [worker[w] EXCEPT !.entry = id, !.pc = pc, !.salt = salt]]
  BY <1>2 DEF EditedInto
<1>4. /\ worker'[w].entry = id /\ worker'[w].req = worker[w].req /\ worker'[w].pc = pc
      /\ worker'[w].salt = salt
  BY <1>3, LocalsType DEF Locals
<1> QED
  BY <1>3, <1>4, TypeParts DEF Held, Req

LEMMA WriteTextBegun ==
    ASSUME IInv, NEW w \in Workers, WriteText(w) \/ UpdateUnsealed(w)
    PROVE  Begun(w)'
<1> DEFINE torn == [heap[Target(w)] EXCEPT !.text = Torn, !.begun = Req(w).text]
           open == WithText(heap[Target(w)], Req(w).text)
<1>1. /\ At(w, "update") /\ UNCHANGED stored
      /\ EditsInto(w, torn, "write", None) \/ EditsInto(w, open, "clear", None)
  BY DEF WriteText, UpdateUnsealed
<1>2. Req(w).text \in Texts /\ heap[Target(w)] \in Entries /\ GoodKind(heap[Target(w)])
  BY <1>1, Updating
<1>3. /\ torn \in Entries /\ SameKind(torn, heap[Target(w)]) /\ GoodKind(torn)
      /\ open \in Entries /\ SameKind(open, heap[Target(w)]) /\ GoodKind(open)
      /\ torn.begun = Req(w).text /\ open.text = Req(w).text
  BY <1>2 DEF WithText, Entries, SameKind, GoodKind
<1> HIDE DEF torn, open
<1>4. CASE EditsInto(w, torn, "write", None)
  BY <1>1, <1>3, <1>4, EditHeld DEF Begun, At, HalfDone, Clearing
<1>5. CASE EditsInto(w, open, "clear", None)
  BY <1>1, <1>3, <1>5, EditHeld DEF Begun, At, HalfDone
<1> QED
  BY <1>1, <1>4, <1>5

LEMMA FieldBegun ==
    ASSUME IInv, TextsBegun, NEW w \in Workers, FieldStep(w)
    PROVE  Begun(w)'
<1>1. worker[w].entry \in Ids /\ Held(w) = heap[worker[w].entry]
  BY FieldWritten, HalfWritten
<1>2. PICK e \in Entries :
          /\ Field(w, e)
          /\ \/ \E pc \in {"seal", "clear", "unsalt"} : FieldNext(w, e, pc)
             \/ LastWrite(w, e)
  BY FieldWritten
<1>3. CASE \E pc \in {"seal", "clear", "unsalt"} : FieldNext(w, e, pc)
  <2>1. PICK pc \in {"seal", "clear", "unsalt"} : FieldNext(w, e, pc)
    BY <1>3
  <2>2. worker'[w].pc = pc /\ Req(w)' = Req(w) /\ Held(w)' = e
    BY <1>1, <2>1, LocalsType, TypeParts
       DEF FieldNext, GoesOnWriting, Goto, Writes, Locals, Req, Held
  <2>3. pc \in Clearing => e.text = Req(w).text
    BY <1>2, <2>1 DEF FieldNext, Field, TextsBegun, Begun, Clearing, At
  <2> QED
    BY <2>2, <2>3 DEF Begun, At
<1>4. CASE LastWrite(w, e)
  BY <1>4, FinishedPc DEF LastWrite, Begun, At, Clearing
<1> QED
  BY <1>2, <1>3, <1>4

\* There is no other way to get there.
LEMMA OnlyWriteText ==
    ASSUME IInv, NEW w \in Workers, Step(w) \/ \E r \in Menu[w] : Accept(w, r),
           worker'[w].pc \in HalfDone
    PROVE  /\ worker'[w].pc = "write" => WriteText(w)
           /\ WriteText(w) \/ UpdateSalt(w) \/ UpdateUnsealed(w) \/ FieldStep(w)
           /\ UpdateSalt(w) => worker'[w].pc = "reseal"
<1>1. worker \in Locals
  BY LocalsType
<1>2. ~QuietStep(w)
  BY QuietPcs
<1>3. ~Create(w) /\ ~PutTOTP(w)
  BY FinishedPc DEF Create, PutTOTP, HalfDone
<1>4. ~Lookup(w) /\ ~ProbeTaken(w)
  BY <1>1 DEF Lookup, ProbeTaken, GetsInto, Locals, HalfDone
<1>5. /\ UpdateSalt(w) => worker'[w].pc = "reseal"
      /\ UpdateUnsealed(w) => worker'[w].pc = "clear"
  BY <1>1 DEF UpdateSalt, UpdateUnsealed, EditsInto, Locals
<1>6. ~WriteRest(w) /\ (FieldStep(w) => worker'[w].pc # "write")
  BY WriteRestMoves, FieldPcs DEF HalfDone
<1> QED
  BY <1>2, <1>3, <1>4, <1>5, <1>6 DEF Step, QuietStep, FieldStep

\* If nobody else edits the key, that text stays.
LEMMA BegunStep ==
    ASSUME EditorsApart, IInv, TextsBegun, NEW w \in Workers, GoesOn(w),
           Step(w) \/ \E r \in Menu[w] : Accept(w, r),
           \A v \in Workers : worker[v].pc \in Edits => IsEdit(Req(v))
    PROVE  TextsBegun'
<1>1. ASSUME NEW v \in Workers \ {w}, worker[v].pc \in HalfDone
      PROVE  Begun(v)'
  <2>1. /\ worker[v].pc \in Edits /\ worker[v].pc \in HasKey /\ Req(v) \in Menu[v]
        /\ Req(v).key = worker[v].key /\ worker[v].entry # None
        /\ worker[v].entry[1] = worker[v].key
    BY <1>1, Opening DEF Edits, HasKey
  <2>2. worker[v].entry \in Ids /\ worker[v].entry \in InUse
    BY <2>1, HeldEntry DEF InUse
  <2>3. ASSUME worker[w].pc \in Edits
        PROVE  worker[v].key # worker[w].key
    <3>1. Req(w) \in Menu[w] /\ Req(w).key = worker[w].key
      BY <2>3, Opening DEF Edits, HasKey
    <3> QED
      BY <2>1, <2>3, <3>1 DEF EditorsApart
  <2>4. heap'[worker[v].entry] = heap[worker[v].entry]
    BY <2>1, <2>2, <2>3, StepTouches DEF Touches
  <2>5. worker'[v] = worker[v]
    BY DEF GoesOn
  <2> QED
    BY <2>4, <2>5 DEF TextsBegun, Begun, Held, Req, At
<1>2. ASSUME worker'[w].pc \in {"write"} \cup Clearing
      PROVE  Begun(w)'
  BY <1>2, OnlyWriteText, WriteTextBegun, FieldBegun DEF HalfDone, Clearing
<1>3. \A v \in Workers \ {w} : worker'[v] = worker[v]
  BY DEF GoesOn
<1> QED
  BY <1>1, <1>2, <1>3 DEF TextsBegun, Begun, At, HalfDone, Clearing

LEMMA InitBegun == Init => TextsBegun
BY DEF Init, TextsBegun, Begun, Rest, At, Clearing

-----------------------------------------------------------------------------
(* Promises that are kept *)

MenusApart == RandomApart /\ CreatorsApart /\ EditorsApart /\ NoLongPasswords

Base == IInv /\ CodesApart /\ ClearInv /\ CreatorsAlone /\ TextsBegun

\* A step of a handler, or the arrival of a request, with what is known of it.
StepOf(w) ==
    /\ Step(w) \/ \E r \in Menu[w] : Accept(w, r)
    /\ GoesOn(w) /\ StoredStays /\ Base'

LEMMA BaseInit == Init => Base
BY InitInv, InitApart, InitClear, InitAlone, InitBegun DEF Base

\* A request that is editing is one to edit, and nobody else edits its key.
LEMMA EditingRequest ==
    ASSUME Base, NEW w \in Workers, worker[w].pc \in Edits
    PROVE  /\ Req(w) \in Menu[w] /\ IsEdit(Req(w)) /\ Req(w).key = worker[w].key
           /\ worker[w].pc \in HasKey /\ worker[w].entry # None
           /\ worker[w].entry \in Ids /\ worker[w].entry[1] = worker[w].key
<1>1. worker[w].pc \in HasKey /\ Req(w) \in Menu[w] /\ Req(w).key = worker[w].key
  BY Opening DEF Base, Edits, HasKey, HalfDone
<1>2. /\ worker[w].entry # None /\ worker[w].entry[1] = worker[w].key
      /\ worker[w].entry \in Ids
  BY <1>1, Opening, HeldEntry DEF Base
<1>3. Req(w).op = "post" /\ Req(w).text \in Texts /\ Req(w).text # None
  BY EditingText, EntryAssumption DEF Base
<1>4. Req(w).password # None \/ Req(w).code # None
  <2>1. CodeFits(w) \/ Req(w).password # None
    BY DEF Base, IInv, CredentialFits, CreatorsAlone, PasswordFits, Edits, At, HalfDone, Sealing,
           Clearing
  <2> QED
    BY <2>1 DEF CodeFits
<1> QED
  BY <1>1, <1>2, <1>3, <1>4 DEF IsEdit, TextOnly

LEMMA BaseStep ==
    ASSUME MenusApart, Base, NEW w \in Workers, Step(w) \/ \E r \in Menu[w] : Accept(w, r)
    PROVE  StepOf(w)
<1>1. GoesOn(w) /\ IInv'
  BY StepGoesOn, AcceptInv DEF Base, GoesOn
<1>2. CreatorsAlone' /\ StoredStays
  BY StepAlone DEF MenusApart, Base
<1>3. CodesApart'
  BY <1>1, StepApart, QuietApart DEF MenusApart, Base, QuietStep
<1>4. ClearInv'
  BY StepClear DEF MenusApart, Base, FailsAlone
<1>5. TextsBegun'
  BY <1>1, EditingRequest, BegunStep DEF MenusApart, Base, Edits, HalfDone
<1> QED
  BY <1>1, <1>2, <1>3, <1>4, <1>5 DEF StepOf, Base

LEMMA OneEditor ==
    ASSUME MenusApart, Base, NEW v \in Workers, NEW w \in Workers, v # w,
           worker[v].pc \in Edits, worker[w].pc \in Edits
    PROVE  worker[v].key # worker[w].key
BY EditingRequest DEF MenusApart, EditorsApart

-----------------------------------------------------------------------------
(* What others leave alone *)

\* So what somebody else edits, or opens while nobody edits it, stays as it is.
LEMMA OthersUntouched ==
    ASSUME Base, NEW w \in Workers, StepOf(w), NEW id \in Ids, id \in InUse,
           worker[w].pc \notin Edits \/ id[1] # worker[w].key
    PROVE  heap'[id] = heap[id]
BY StepTouches DEF Touches, Base, StepOf

-----------------------------------------------------------------------------
(* Entries that open *)

\* What a step of w owes to this invariant.
LEMMA SoundStep ==
    ASSUME MenusApart, Base, EntriesSound, NEW w \in Workers, StepOf(w),
           \A id \in Ids :
               /\ heap'[id] # None
               /\ heap'[id] # heap[id]
                     \/ (worker[w].pc \in HalfDone /\ id = worker[w].entry)
               /\ ~(worker'[w].pc \in HalfDone /\ id = worker'[w].entry)
               => Sound(heap'[id]),
           \A id \in Ids : heap'[id] # None /\ heap'[id] # heap[id] => Locked(heap'[id]),
           worker'[w].pc \in Sealing => Held(w)'.salt = worker'[w].salt
    PROVE  EntriesSound'
<1>1. \A v \in Workers \ {w} : worker'[v] = worker[v]
  BY DEF StepOf, GoesOn
<1>2. ASSUME NEW id \in Ids, heap'[id] # None, ~BeingEdited(id)'
      PROVE  Sound(heap'[id])
  <2>1. ~(worker'[w].pc \in HalfDone /\ id = worker'[w].entry)
    BY <1>2 DEF BeingEdited, HalfDone
  <2>2. CASE heap'[id] # heap[id] \/ (worker[w].pc \in HalfDone /\ id = worker[w].entry)
    BY <1>2, <2>1, <2>2
  <2>3. CASE heap'[id] = heap[id] /\ ~(worker[w].pc \in HalfDone /\ id = worker[w].entry)
    <3>1. ~BeingEdited(id)
      BY <1>1, <1>2, <2>3 DEF BeingEdited, HalfDone
    <3> QED
      BY <1>2, <2>3, <3>1 DEF EntriesSound
  <2> QED
    BY <2>2, <2>3
<1>3. ASSUME NEW id \in Ids, heap'[id] # None
      PROVE  Locked(heap'[id])
  BY <1>3 DEF EntriesSound
<1>4. ASSUME NEW v \in Workers \ {w}, worker[v].pc \in Sealing
      PROVE  Held(v)'.salt = worker[v].salt
  <2>1. worker[v].entry \in Ids /\ worker[v].entry \in InUse /\ worker[v].pc \in Edits
    BY <1>4, EditingRequest DEF InUse, Edits, HalfDone, Sealing
  <2>2. worker[w].pc \in Edits => worker[v].key # worker[w].key
    BY <2>1, OneEditor
  <2>3. worker[v].entry[1] = worker[v].key
    BY <2>1, EditingRequest
  <2>4. heap'[worker[v].entry] = heap[worker[v].entry]
    BY <2>1, <2>2, <2>3, OthersUntouched
  <2> QED
    BY <1>1, <1>4, <2>4 DEF EntriesSound, Held
<1>5. ASSUME NEW v \in Workers, worker'[v].pc \in Sealing
      PROVE  Held(v)'.salt = worker'[v].salt
  BY <1>1, <1>4, <1>5
<1> QED
  BY <1>2, <1>3, <1>5 DEF EntriesSound

\* A step that changes no entry and holds at most the one it held.
LEMMA SoundQuiet ==
    ASSUME MenusApart, Base, EntriesSound, NEW w \in Workers, StepOf(w),
           UNCHANGED <<stored, heap>>, worker[w].pc \notin HalfDone,
           worker'[w].pc \notin HalfDone, worker'[w].entry \in {None, worker[w].entry}
    PROVE  EntriesSound'
<1>1. worker'[w].pc \notin Sealing
  BY DEF HalfDone, Sealing
<1>2. \A id \in Ids : heap'[id] = heap[id]
  OBVIOUS
<1> QED
  BY <1>1, <1>2, SoundStep

LEMMA QuietFrom ==
    ASSUME NEW w \in Workers, QuietStep(w)
    PROVE  worker[w].pc \notin HalfDone
BY DEF QuietStep, ProbeEmpty, CompareSealed, CompareDecrypted, ComparePlain, CompareOther,
       SetupRefused, SetupVerified, PickKey, LookupNothing, ShowOrLock, ShowTOTP, ReadSalt,
       ShowUnsealed, Decrypt, WrongCredential, Reread, Accept, Presents, Probing, At, HalfDone

\* A new entry opens with the password, or the code, it was made for.
LEMMA NewEntrySound ==
    ASSUME MenusApart, IInv, NEW w \in Workers, Create(w) \/ PutTOTP(w)
    PROVE  \E e : /\ Put(worker[w].key, e) /\ Sound(e) /\ Locked(e)
                  /\ Credential(e) = SavedUnder(Req(w))
                  /\ OpenWith(e, SavedUnder(Req(w))) = Req(w).text
<1>1. CASE Create(w)
  <2> DEFINE p == Req(w).password
             t == Req(w).text
  <2>1. /\ Req(w) \in Menu[w] /\ Req(w).op = "generate" /\ t \in Texts
        /\ p \in Passwords \cup {None}
    BY <1>1, Generating DEF Create, At
  <2>2. p \notin LongPasswords /\ Req(w).code = None
    BY <2>1, MenuType DEF MenusApart, NoLongPasswords, WellFormed
  <2>3. SavedUnder(Req(w)) = p
    BY <2>1, <2>2 DEF SavedUnder, Presented
  <2>4. hashPassword(p) = p
    BY <2>2 DEF hashPassword
  <2>5. FirstSalt # None
    BY FirstSaltType, EntryAssumption
  <2> HIDE DEF p, t
  <2> DEFINE Fits(e) == Sound(e) /\ Locked(e) /\ Credential(e) = p /\ OpenWith(e, p) = t
  <2>6. p = None => Fits(PublicEntry(t))
    BY DEF PublicEntry, Sound, Locked, Credential, OpenWith, verifyPassword
  <2>7. p # None => Fits(UnsealedEntry(t, p))
    BY <2>4 DEF UnsealedEntry, PublicEntry, Sound, Locked, Credential, OpenWith, verifyPassword
  <2>8. ASSUME p # None
        PROVE  Fits(PasswordEntry(t, p, FirstSalt))
    <3> DEFINE c == encrypt(t, deriveKey(p, FirstSalt))
               e == PasswordEntry(t, p, FirstSalt)
    <3>1. /\ c.text = t /\ c.key = deriveKey(p, FirstSalt)
          /\ c.key.password = p /\ c.key.salt = FirstSalt
      BY DEF encrypt, deriveKey
    <3>2. c # None
      <4>1. p \in Passwords /\ t \in Texts
        BY <2>1, <2>8 DEF p, t
      <4>2. c \in Cipher
        BY <4>1, FirstSaltType DEF Cipher, CipherKey, encrypt, deriveKey
      <4> QED
        BY <4>2, EntryAssumption
    <3>3. /\ e.text = None /\ e.enc = c /\ e.salt = FirstSalt
          /\ e.protected = TRUE /\ e.password = hashPassword(p) /\ e.totp = None
      BY DEF PasswordEntry, PublicEntry
    <3> HIDE DEF c, e
    <3>4. Fits(e)
      BY <2>4, <2>5, <2>8, <3>1, <3>2, <3>3
         DEF Sound, Locked, Credential, OpenWith, verifyPassword, Unseal, decrypt
    <3> QED
      BY <3>4 DEF e
  <2> HIDE DEF Fits
  <2>9. \E e : Put(worker[w].key, e) /\ Fits(e)
    BY <1>1, <2>6, <2>7, <2>8 DEF Create, p, t
  <2> QED
    BY <2>3, <2>9 DEF Fits, t
<1>2. CASE PutTOTP(w)
  <2> DEFINE s == Req(w).secret
             t == Req(w).text
  <2>1. s \in Secrets /\ Req(w).op = "setup" /\ s # None
    BY <1>2, SettingUp, EntryAssumption DEF PutTOTP, At
  <2>2. SavedUnder(Req(w)) = s
    BY <2>1 DEF SavedUnder
  <2> HIDE DEF s, t
  <2>3. /\ Sound(TotpEntry(t, s)) /\ Locked(TotpEntry(t, s)) /\ Credential(TotpEntry(t, s)) = s
        /\ OpenWith(TotpEntry(t, s), s) = t
    BY <2>1 DEF TotpEntry, PublicEntry, Sound, Locked, Credential, OpenWith, ValidateTOTP
  <2>4. Put(worker[w].key, TotpEntry(t, s))
    BY <1>2 DEF PutTOTP, s, t
  <2> QED
    BY <2>2, <2>3, <2>4 DEF t
<1> QED
  BY <1>1, <1>2

LEMMA PutSound ==
    ASSUME MenusApart, Base, EntriesSound, NEW w \in Workers, StepOf(w), Create(w) \/ PutTOTP(w)
    PROVE  EntriesSound'
<1> DEFINE k == worker[w].key
<1>1. PICK e : Put(k, e) /\ Sound(e) /\ Locked(e)
  BY NewEntrySound DEF Base
<1>2. k \in Keys /\ worker[w].pc \notin HalfDone
  BY CreatorKeys DEF Base, Create, PutTOTP, At, HalfDone
<1>3. worker'[w].pc = "idle" /\ worker'[w].entry = None
  BY LocalsType DEF Base, Create, PutTOTP, Finish, Rest, Locals
<1>4. NewId(k) \in Ids /\ NewId(k) \notin InUse
  BY <1>2, NewIdIsFree DEF Base
<1> HIDE DEF k
<1>5. \A id \in Ids : heap'[id] # heap[id] => heap'[id] = e
  BY <1>1, <1>4, TypeParts DEF Base, Put
<1>6. worker'[w].pc \notin HalfDone /\ worker'[w].pc \notin Sealing
  BY <1>3 DEF HalfDone, Sealing
<1> QED
  BY <1>1, <1>2, <1>5, <1>6, SoundStep

LEMMA GetSound ==
    ASSUME MenusApart, Base, EntriesSound, NEW w \in Workers, StepOf(w), Lookup(w) \/ ProbeTaken(w)
    PROVE  EntriesSound'
<1>1. PICK k \in Keys, id \in Ids, pc \in {"view", "same"} :
          stored[k] # None /\ GetsInto(w, k, id, pc) /\ UNCHANGED stored
  <2>1. CASE Lookup(w)
    BY <2>1, Opening DEF Base, Lookup, At
  <2>2. CASE ProbeTaken(w)
    BY <2>2, Generating DEF Base, ProbeTaken, Probing, At
  <2> QED
    BY <2>1, <2>2
<1>2. /\ heap'[id] = heap[stored[k]] /\ (id = stored[k] \/ id \notin InUse)
      /\ \A j \in Ids \ {id} : heap'[j] = heap[j]
  BY <1>1, GetGoesOn DEF Base, Pcs, HalfDone
<1>3. worker'[w].entry = id /\ worker'[w].pc = pc
  BY <1>1, LocalsType DEF Base, GetsInto, Locals
<1>4. /\ worker[w].pc \notin HalfDone /\ worker'[w].pc \notin HalfDone
      /\ worker'[w].pc \notin Sealing
  BY <1>3 DEF Lookup, ProbeTaken, Probing, At, HalfDone, Sealing
<1>5. stored[k] \in Ids /\ stored[k] \in InUse /\ heap[stored[k]] # None
  BY <1>1, StoredEntry DEF Base
<1>6. CASE ~Persistent
  <2>1. \A j \in Ids : heap'[j] = heap[j]
    BY <1>1, <1>6 DEF GetsInto
  <2> QED
    BY <1>4, <2>1, SoundStep
<1>7. CASE Persistent
  <2>1. ~BeingEdited(stored[k])
    <3>1. stored[k] # None
      BY <1>1
    <3> QED
      BY <1>7, <3>1 DEF Base, ClearInv, CopiesApart, BeingEdited
  <2>2. Sound(heap'[id]) /\ Locked(heap'[id])
    BY <1>2, <1>5, <2>1 DEF EntriesSound
  <2> QED
    BY <1>2, <1>4, <2>2, SoundStep
<1> QED
  BY <1>6, <1>7, StoreAssumption

\* updateEntry's first step: the entry is being edited from now on.
LEMMA EditSound ==
    ASSUME MenusApart, Base, EntriesSound, NEW w \in Workers, StepOf(w), At(w, "update"),
           NEW e \in Entries, SameKind(e, heap[Target(w)]), GoodKind(e),
           NEW pc \in {"reseal", "clear", "write"}, NEW salt \in Salts \cup {None},
           EditsInto(w, e, pc, salt), UNCHANGED stored,
           pc = "reseal" => e.salt = salt
    PROVE  EntriesSound'
<1>1. Target(w) \in Ids /\ heap[Target(w)] # None
  BY Updating DEF Base
<1>2. /\ Held(w)' = e /\ worker'[w].pc = pc /\ worker'[w].salt = salt
      /\ \A j \in Ids : heap'[j] # heap[j] => j = worker'[w].entry
  BY EditHeld DEF Base, HalfDone
<1>3. worker'[w].pc \in HalfDone /\ worker[w].pc \notin HalfDone
  BY <1>2 DEF HalfDone, At
<1>4. Locked(e)
  BY <1>1 DEF EntriesSound, Locked, SameKind
<1>5. worker'[w].pc \in Sealing => Held(w)'.salt = worker'[w].salt
  BY <1>2 DEF Sealing
<1>6. \A j \in Ids : heap'[j] # heap[j] => heap'[j] = e
  BY <1>2 DEF Held
<1> QED
  BY <1>2, <1>3, <1>4, <1>5, <1>6, SoundStep

LEMMA UpdateSaltSound ==
    ASSUME MenusApart, Base, EntriesSound, NEW w \in Workers, StepOf(w), UpdateSalt(w)
    PROVE  EntriesSound'
<1> DEFINE s == NewSalt(Target(w))
           e == [heap[Target(w)] EXCEPT !.salt = s]
<1>1. At(w, "update") /\ EditsInto(w, e, "reseal", s) /\ UNCHANGED stored
  BY DEF UpdateSalt
<1>2. Target(w) \in Ids /\ heap[Target(w)] \in Entries /\ GoodKind(heap[Target(w)])
  BY <1>1, Updating DEF Base
<1>3. s \in Salts
  BY <1>2, NewSaltIsNew DEF Base
<1> HIDE DEF s
<1>4. e \in Entries /\ SameKind(e, heap[Target(w)]) /\ GoodKind(e) /\ e.salt = s
  BY <1>2, <1>3 DEF Entries, SameKind, GoodKind
<1> HIDE DEF e
<1> QED
  BY <1>1, <1>3, <1>4, EditSound

LEMMA WriteTextSound ==
    ASSUME MenusApart, Base, EntriesSound, NEW w \in Workers, StepOf(w), WriteText(w)
    PROVE  EntriesSound'
<1> DEFINE e == [heap[Target(w)] EXCEPT !.text = Torn, !.begun = Req(w).text]
<1>1. At(w, "update") /\ EditsInto(w, e, "write", None) /\ UNCHANGED stored
  BY DEF WriteText
<1>2. heap[Target(w)] \in Entries /\ GoodKind(heap[Target(w)]) /\ Req(w).text \in Texts
  BY <1>1, Updating DEF Base
<1>3. e \in Entries /\ SameKind(e, heap[Target(w)]) /\ GoodKind(e)
  BY <1>2 DEF Entries, SameKind, GoodKind
<1> HIDE DEF e
<1> QED
  BY <1>1, <1>3, EditSound

LEMMA UpdateUnsealedSound ==
    ASSUME MenusApart, Base, EntriesSound, NEW w \in Workers, StepOf(w), UpdateUnsealed(w)
    PROVE  EntriesSound'
<1> DEFINE e == WithText(heap[Target(w)], Req(w).text)
<1>1. At(w, "update") /\ EditsInto(w, e, "clear", None) /\ UNCHANGED stored
  BY DEF UpdateUnsealed
<1>2. heap[Target(w)] \in Entries /\ GoodKind(heap[Target(w)]) /\ Req(w).text \in Texts
  BY <1>1, Updating DEF Base
<1>3. e \in Entries /\ SameKind(e, heap[Target(w)]) /\ GoodKind(e)
  BY <1>2 DEF WithText, Entries, SameKind, GoodKind
<1> HIDE DEF e
<1> QED
  BY <1>1, <1>3, EditSound

\* A field of an edit that goes on.
LEMMA FieldSound ==
    ASSUME MenusApart, Base, EntriesSound, NEW w \in Workers, StepOf(w), FieldStep(w),
           worker'[w].pc # "idle"
    PROVE  EntriesSound'
<1> DEFINE id == worker[w].entry
<1>1. /\ id \in Ids /\ Held(w) = heap[id] /\ Held(w) # None
      /\ worker[w].pc \in Sealing \cup Clearing
  BY FieldWritten, HalfWritten DEF Base
<1>2. /\ worker'[w].pc \in {"seal", "clear", "unsalt"} /\ worker'[w].entry = id
      /\ worker'[w].salt = worker[w].salt
  BY FieldMoves DEF Base
<1>3. PICK e \in Entries :
          /\ Field(w, e) /\ Writes(w, e)
          /\ \/ \E pc \in {"seal", "clear", "unsalt"} : FieldNext(w, e, pc)
             \/ LastWrite(w, e)
  BY FieldWritten DEF Base, FieldNext, GoesOnWriting, LastWrite
<1>4. /\ heap'[id] = e /\ \A j \in Ids : heap'[j] # heap[j] => j = id
  BY <1>1, <1>3, TypeParts DEF Base, Writes
<1>5. worker'[w].pc \in HalfDone /\ worker[w].pc \in HalfDone
  BY <1>1, <1>2 DEF HalfDone, Sealing, Clearing
<1>6. Locked(e)
  BY <1>1, <1>3 DEF EntriesSound, Locked, Field, SameKind
<1>7. ASSUME worker'[w].pc \in Sealing
      PROVE  Held(w)'.salt = worker'[w].salt
  <2>1. worker'[w].pc = "seal"
    BY <1>2, <1>7 DEF Sealing
  <2>2. ~LastWrite(w, e)
    BY <2>1, FinishedPc DEF Base, LastWrite
  <2>3. PICK pc \in {"seal", "clear", "unsalt"} : FieldNext(w, e, pc)
    BY <1>3, <2>2
  <2>4. pc = "seal"
    BY <2>1, <2>3, LocalsType DEF Base, FieldNext, GoesOnWriting, Goto, Locals
  <2>5. At(w, "reseal")
    BY <2>3, <2>4 DEF FieldNext
  <2>6. e.salt = Held(w).salt /\ worker[w].pc \in Sealing
    BY <1>3, <2>5 DEF Field, At, Sealing
  <2> QED
    BY <1>2, <1>4, <2>6 DEF EntriesSound, Held
<1>8. \A j \in Ids : heap'[j] # heap[j] => heap'[j] = e
  BY <1>4
<1> QED
  BY <1>2, <1>4, <1>5, <1>6, <1>7, <1>8, SoundStep

\* What a finished edit leaves in an entry opens with the credential of the one
\* who edited it.
EditDone(w, id, e) ==
    /\ id \in Ids /\ heap[id] # None /\ heap' = [heap EXCEPT ![id] = e]
    /\ SameKind(e, heap[id]) /\ Sound(e)
    /\ Credential(e) = Presented(Req(w)) /\ OpenWith(e, Presented(Req(w))) = Req(w).text

\* Who edits a sealed entry has presented its password and nothing else.
LEMMA PasswordPresented ==
    ASSUME Base, NEW w \in Workers, worker[w].pc \in Edits, PasswordFits(w)
    PROVE  Presented(Req(w)) = Req(w).password /\ Req(w).password # None
<1>1. Req(w) \in Menu[w] /\ Req(w).op = "post"
  BY EditingRequest DEF IsEdit
<1>2. Req(w).code = None
  BY <1>1, MenuType DEF PasswordFits, WellFormed
<1> QED
  BY <1>2 DEF Presented, PasswordFits

\* The fields that end an edit: the ciphertext under the salt that the edit has
\* written, or no salt beside the text that it has.
LEMMA FieldsDone ==
    ASSUME Base, EntriesSound, NEW w \in Workers, FieldStep(w), worker'[w].pc = "idle"
    PROVE  \E e : EditDone(w, worker[w].entry, e)
<1> DEFINE id == worker[w].entry
           p == Req(w).password
<1>1. /\ worker[w].pc \in Sealing \cup Clearing /\ worker[w].pc \in Edits
      /\ id \in Ids /\ Held(w) = heap[id] /\ Held(w) # None /\ GoodKind(Held(w))
      /\ Held(w).totp = None /\ p \in Passwords
  BY FieldWritten, HalfWritten DEF Base, Edits, HalfDone, Sealing, Clearing
<1>2. PICK e \in Entries :
          /\ Field(w, e)
          /\ \/ \E pc \in {"seal", "clear", "unsalt"} : FieldNext(w, e, pc)
             \/ LastWrite(w, e) /\ worker[w].pc \in {"seal", "unsalt"}
  BY FieldWritten DEF Base
<1>3. ~\E pc \in {"seal", "clear", "unsalt"} : FieldNext(w, e, pc)
  BY LocalsType DEF Base, FieldNext, GoesOnWriting, Goto, Locals
<1>4. heap' = [heap EXCEPT ![id] = e] /\ worker[w].pc \in {"seal", "unsalt"}
  BY <1>2, <1>3 DEF LastWrite, Writes
<1>5. PasswordFits(w)
  BY <1>1 DEF Base, CreatorsAlone
<1>6. Held(w).password = p /\ p # None /\ Presented(Req(w)) = p
  BY <1>1, <1>5, PasswordPresented DEF PasswordFits, verifyPassword
<1> HIDE DEF p
<1>7. /\ e.password = p /\ e.totp = None /\ e.protected /\ SameKind(e, heap[id])
      /\ verifyPassword(e.password, p) /\ Credential(e) = p
  BY <1>1, <1>2, <1>6 DEF Field, SameKind, GoodKind, verifyPassword, Credential
<1>8. Sound(e) /\ OpenWith(e, p) = Req(w).text
  <2>1. CASE At(w, "seal")
    <3> DEFINE c == NewCipher(w)
    <3>1. e.enc = c /\ c \in Cipher /\ e.salt = Held(w).salt
      BY <1>2, <2>1 DEF Field, At
    <3>2. Held(w).salt = worker[w].salt /\ worker[w].salt \in Salts
      BY <2>1, HalfWritten DEF Base, EntriesSound, At, Sealing
    <3>3. /\ c.text = Req(w).text /\ c.key = deriveKey(p, worker[w].salt)
          /\ c.key.password = p /\ c.key.salt = worker[w].salt
      BY DEF NewCipher, encrypt, deriveKey, p
    <3>4. c # None /\ worker[w].salt # None
      BY <3>1, <3>2, EntryAssumption
    <3> HIDE DEF c
    <3>5. Sound(e)
      BY <1>6, <1>7, <3>1, <3>2, <3>3 DEF Sound
    <3>6. Unseal(e.enc, e.salt, p) = Req(w).text
      BY <3>1, <3>2, <3>3, <3>4 DEF Unseal, decrypt
    <3> QED
      BY <1>7, <3>1, <3>4, <3>5, <3>6 DEF OpenWith
  <2>2. CASE At(w, "unsalt")
    <3>1. Held(w).enc = None /\ Held(w).text = Req(w).text
      BY <2>2 DEF Base, ClearInv, HalfClear, TextsBegun, Begun, At, Clearing
    <3>2. e.enc = None /\ e.text = Req(w).text
      BY <1>2, <2>2, <3>1 DEF Field, At
    <3> QED
      BY <1>7, <3>2 DEF Sound, OpenWith
  <2> QED
    BY <1>4, <2>1, <2>2 DEF At
<1> QED
  BY <1>1, <1>4, <1>6, <1>7, <1>8 DEF EditDone

\* Nobody else has begun to write to the entry, so the text is whole.
LEMMA WriteRestDone ==
    ASSUME MenusApart, Base, NEW w \in Workers, WriteRest(w)
    PROVE  \E e : EditDone(w, worker[w].entry, e)
<1> DEFINE id == worker[w].entry
           f == Held(w)
           e == [f EXCEPT !.text = Req(w).text]
<1>1. At(w, "write") /\ worker[w].pc \in Edits
  BY DEF WriteRest, At, Edits, HalfDone
<1>2. worker[w].pc \in HasKey /\ id # None /\ id \in Ids /\ id[1] = worker[w].key
  BY <1>1, EditingRequest
<1>3. f = heap[id] /\ f \in Entries /\ f # None /\ GoodKind(f)
  BY <1>2, HeldEntry DEF Base, Held
<1>4. CodeFits(w)
  BY <1>1 DEF Base, CreatorsAlone, At
<1>5. f.begun = Req(w).text
  BY <1>1 DEF Base, TextsBegun, Begun
<1>6. heap' = [heap EXCEPT ![id] = e]
  <2>1. heap' = [heap EXCEPT ![id].text = Req(w).text]
    BY <1>5 DEF WriteRest
  <2> QED
    BY <1>2, <1>3, <2>1, TypeParts DEF Base
<1>7. /\ f.totp = Req(w).code /\ Req(w).code # None /\ f.totp # None
      /\ Presented(Req(w)) = Req(w).code
  BY <1>4 DEF CodeFits, ValidateTOTP, Presented
<1>8. f.enc = None /\ f.protected
  BY <1>3, <1>7 DEF GoodKind
<1> HIDE DEF f, id
<1>9. /\ e.text = Req(w).text /\ e.enc = f.enc /\ e.password = f.password
      /\ e.totp = f.totp /\ e.protected = f.protected
  BY <1>3 DEF Entries
<1> HIDE DEF e
<1>10. SameKind(e, f) /\ Sound(e) /\ Credential(e) = Req(w).code
       /\ OpenWith(e, Req(w).code) = Req(w).text
  BY <1>7, <1>8, <1>9 DEF SameKind, Sound, Credential, OpenWith, ValidateTOTP
<1> QED
  BY <1>2, <1>3, <1>6, <1>7, <1>10 DEF EditDone, id

\* The step with which an edit ends.
EditEnds(w) == (FieldStep(w) /\ worker'[w].pc = "idle") \/ WriteRest(w)

LEMMA EditEndsDone ==
    ASSUME MenusApart, Base, EntriesSound, NEW w \in Workers, EditEnds(w)
    PROVE  /\ \E e : EditDone(w, worker[w].entry, e)
           /\ worker[w].pc \in HalfDone /\ worker'[w].pc \in {"idle", "reread"}
           /\ UNCHANGED stored /\ worker'[w].entry \in {None, worker[w].entry}
<1>1. worker[w].pc \in HalfDone
  BY FieldWritten DEF Base, EditEnds, WriteRest, At, HalfDone, Sealing, Clearing
<1> QED
  BY <1>1, FieldsDone, WriteRestDone, FieldMoves, WriteRestMoves DEF Base, EditEnds

LEMMA EditEndsSound ==
    ASSUME MenusApart, Base, EntriesSound, NEW w \in Workers, StepOf(w), EditEnds(w)
    PROVE  EntriesSound'
<1> DEFINE id == worker[w].entry
<1>1. /\ worker'[w].pc \notin HalfDone /\ worker'[w].pc \notin Sealing
  BY EditEndsDone DEF HalfDone, Sealing
<1>2. PICK e : EditDone(w, id, e)
  BY EditEndsDone
<1>3. id \in Ids /\ heap'[id] = e /\ \A j \in Ids \ {id} : heap'[j] = heap[j]
  BY <1>2, TypeParts DEF Base, EditDone
<1>4. Sound(e) /\ Locked(e)
  BY <1>2 DEF EditDone, EntriesSound, SameKind, Locked
<1> QED
  BY <1>1, <1>3, <1>4, SoundStep

LEMMA StepSound ==
    ASSUME MenusApart, Base, EntriesSound, NEW w \in Workers, StepOf(w)
    PROVE  EntriesSound'
<1>1. CASE QuietStep(w)
  <2>1. worker'[w].pc \notin HalfDone
    BY <1>1, QuietPcs DEF Base
  <2> QED
    BY <1>1, <2>1, QuietSteps, QuietHolds, QuietFrom, SoundQuiet DEF Base
<1> QED
  BY <1>1, EditEndsSound, FieldSound, PutSound, GetSound, UpdateSaltSound, UpdateUnsealedSound,
     WriteTextSound DEF StepOf, Step, QuietStep, FieldStep, EditEnds

-----------------------------------------------------------------------------
(* Promises that fit *)

\* What a step of w owes to this invariant, when it makes no promise and
\* when it makes one.
LEMMA FitStep ==
    ASSUME Base, PromisesFit, NEW w \in Workers, StepOf(w),
           \A k \in Keys : promise'[k] # None =>
               \/ promise'[k] = promise[k]
               \/ stored'[k] # None /\ promise'[k].cred = Credential(heap'[stored'[k]]),
           worker'[w].pc \in {"same", "unseal"} =>
               /\ Held(w)'.password = heap'[stored'[Try(w)']].password
               /\ Held(w)'.totp = heap'[stored'[Try(w)']].totp
               /\ At(w, "unseal")' => Held(w)'.password = Req(w)'.password
    PROVE  PromisesFit'
<1>1. ASSUME NEW k \in Keys, stored[k] # None
      PROVE  stored'[k] = stored[k] /\ SameKind(heap'[stored[k]], heap[stored[k]])
  BY <1>1, StoredEntry, InUseStays DEF Base, StepOf, StoredStays, GoesOn
<1>2. ASSUME NEW k \in Keys, promise'[k] # None
      PROVE  stored'[k] # None /\ promise'[k].cred = Credential(heap'[stored'[k]])
  BY <1>1, <1>2 DEF PromisesFit, Credential, SameKind
<1>3. ASSUME NEW v \in Workers \ {w}, worker[v].pc \in {"same", "unseal"}
      PROVE  /\ Held(v)'.password = heap'[stored'[Try(v)']].password
             /\ Held(v)'.totp = heap'[stored'[Try(v)']].totp
             /\ At(v, "unseal")' => Held(v)'.password = Req(v)'.password
  <2>1. worker'[v] = worker[v]
    BY DEF StepOf, GoesOn
  <2>2. Try(v) \in Keys /\ worker[v].entry # None /\ stored[Try(v)] # None
    BY <1>3, Generating DEF Base, IInv, RequestFits
  <2>3. worker[v].entry \in Ids /\ worker[v].entry \in InUse /\ heap[worker[v].entry] # None
    BY <2>2, HeldEntry DEF Base, Held
  <2>4. SameKind(heap'[worker[v].entry], heap[worker[v].entry])
    BY <2>3, InUseStays DEF Base, StepOf, GoesOn
  <2>5. Try(v)' = Try(v) /\ Req(v)' = Req(v) /\ Held(v)' = heap'[worker[v].entry]
    BY <2>1 DEF Try, TriedData, Req, Held
  <2> QED
    BY <1>1, <1>3, <2>1, <2>2, <2>4, <2>5 DEF PromisesFit, Held, SameKind, At
<1>4. \A v \in Workers \ {w} : worker'[v] = worker[v]
  BY DEF StepOf, GoesOn
<1>5. ASSUME NEW v \in Workers, worker'[v].pc \in {"same", "unseal"}
      PROVE  /\ Held(v)'.password = heap'[stored'[Try(v)']].password
             /\ Held(v)'.totp = heap'[stored'[Try(v)']].totp
             /\ At(v, "unseal")' => Held(v)'.password = Req(v)'.password
  <2>1. CASE v = w
    BY <1>5, <2>1
  <2>2. CASE v # w
    BY <1>3, <1>4, <1>5, <2>2
  <2> QED
    BY <2>1, <2>2
<1> QED
  BY <1>2, <1>5 DEF PromisesFit

\* Where a request can come from to compare an entry with its own.
LEMMA ComparesFrom ==
    ASSUME IInv, NEW w \in Workers, QuietStep(w), ~CompareSealed(w)
    PROVE  worker'[w].pc \notin {"same", "unseal"}
<1> DEFINE Goal == worker'[w].pc \notin {"same", "unseal"}
<1>1. worker \in Locals
  BY LocalsType
<1>2. ASSUME NEW r \in Menu[w], Accept(w, r)
      PROVE  Goal
  BY <1>1, <1>2 DEF Accept, Rest, Locals
<1>3. ASSUME NEW a, Finish(w, a)
      PROVE  Goal
  BY <1>3, FinishedPc
<1>4. CASE NextTry(w)
  BY <1>4, NextTryPc
<1>5. CASE Goto(w, "pick") \/ Goto(w, "update")
  BY <1>1, <1>5 DEF Goto, Locals
<1>6. CASE ProbeEmpty(w) \/ ReadSalt(w)
  BY <1>1, <1>6 DEF ProbeEmpty, ReadSalt, Locals
<1>7. CASE PickKey(w)
  <2>1. PICK k \in RandomKeys[worker[w].i] :
            worker' = IF stored[k] = None
                      THEN [worker EXCEPT ![w].key = k, ![w].pc = "put"]
                      ELSE [worker EXCEPT ![w].i = worker[w].i + 1]
    BY <1>7 DEF PickKey
  <2>2. worker[w].pc = "pick"
    BY <1>7 DEF PickKey, At
  <2>3. CASE stored[k] = None
    BY <1>1, <2>1, <2>3 DEF Locals
  <2>4. CASE stored[k] # None
    BY <1>1, <2>1, <2>2, <2>4 DEF Locals
  <2> QED
    BY <2>3, <2>4
<1>8. CASE CompareDecrypted(w) \/ ComparePlain(w) \/ CompareOther(w)
  <2>1. FoundSame(w) \/ NextTry(w)
    BY <1>8 DEF CompareDecrypted, ComparePlain, CompareOther
  <2> QED
    BY <1>3, <1>4, <2>1 DEF FoundSame
<1>9. CASE SetupRefused(w) \/ LookupNothing(w) \/ ShowOrLock(w) \/ WrongCredential(w) \/ Reread(w)
  BY <1>3, <1>9 DEF SetupRefused, LookupNothing, ShowOrLock, WrongCredential, Reread
<1>10. CASE SetupVerified(w) \/ ShowTOTP(w) \/ ShowUnsealed(w) \/ Decrypt(w)
  BY <1>3, <1>5, <1>10 DEF SetupVerified, ShowTOTP, ShowUnsealed, Decrypt, ShowOrUpdate
<1> QED
  BY <1>2, <1>4, <1>6, <1>7, <1>8, <1>9, <1>10 DEF QuietStep

\* The steps of a quiet handler that make a promise.
LEMMA QuietPromise ==
    ASSUME NEW w \in Workers, QuietStep(w)
    PROVE  \/ UNCHANGED promise
           \/ FoundSame(w) /\ (CompareDecrypted(w) \/ ComparePlain(w) \/ CompareOther(w))
BY DEF QuietStep, ProbeEmpty, CompareSealed, CompareDecrypted, ComparePlain, CompareOther,
       SetupRefused, SetupVerified, PickKey, LookupNothing, ShowOrLock, ShowTOTP, ReadSalt,
       ShowUnsealed, Decrypt, WrongCredential, Reread, Accept, NextTry

\* The key of an entry that generateKey found has no TOTP secret.
LEMMA TriedKey ==
    ASSUME MenusApart, Base, NEW w \in Workers, worker[w].pc \in {"same", "unseal"}
    PROVE  /\ Try(w) \in Keys /\ stored[Try(w)] # None /\ stored[Try(w)] \in Ids
           /\ heap[stored[Try(w)]] # None /\ GoodKind(heap[stored[Try(w)]])
           /\ heap[stored[Try(w)]].totp = None
           /\ Req(w) \in Menu[w] /\ Req(w).op = "generate" /\ Req(w).text \in Texts
           /\ Req(w).password \in Passwords \cup {None}
<1>1. /\ Try(w) \in Keys /\ Try(w) \in CreatedKeys(Req(w)) /\ stored[Try(w)] # None
      /\ Req(w) \in Menu[w] /\ Req(w).op = "generate" /\ Req(w).text \in Texts
      /\ Req(w).password \in Passwords \cup {None}
  BY Generating DEF Base, IInv, RequestFits
<1>2. /\ stored[Try(w)] \in Ids /\ stored[Try(w)][1] = Try(w) /\ heap[stored[Try(w)]] # None
      /\ GoodKind(heap[stored[Try(w)]])
  BY <1>1, StoredEntry DEF Base
<1>3. Try(w) \notin RandomKeySet
  BY <1>1, MenuType DEF MenusApart, RandomApart
<1>4. heap[stored[Try(w)]].totp = None
  BY <1>2, <1>3 DEF Base, CodesApart
<1> QED
  BY <1>1, <1>2, <1>4

\* What isSameEntry takes for the same has the same password.
LEMMA SamePassword ==
    ASSUME MenusApart, Base, PromisesFit, NEW w \in Workers, FoundSame(w),
           CompareDecrypted(w) \/ ComparePlain(w) \/ CompareOther(w)
    PROVE  heap[stored[Try(w)]].password = Req(w).password
<1>1. worker[w].pc \in {"same", "unseal"}
  BY DEF CompareDecrypted, ComparePlain, CompareOther, At
<1>2. heap[stored[Try(w)]].password = Held(w).password
  BY <1>1 DEF PromisesFit
<1>3. worker'[w].pc = "idle" /\ ~NextTry(w)
  <2>1. worker'[w].pc = "idle"
    BY FinishedPc DEF Base, FoundSame
  <2> QED
    BY <2>1, NextTryPc DEF Base
<1>4. CASE CompareDecrypted(w)
  BY <1>2, <1>4 DEF CompareDecrypted, PromisesFit, At
<1>5. CASE ComparePlain(w)
  BY <1>2, <1>3, <1>5 DEF ComparePlain
<1>6. CASE CompareOther(w)
  BY <1>2, <1>3, <1>6 DEF CompareOther, verifyPassword
<1> QED
  BY <1>4, <1>5, <1>6

LEMMA QuietFits ==
    ASSUME MenusApart, Base, PromisesFit, NEW w \in Workers, StepOf(w), QuietStep(w)
    PROVE  PromisesFit'
<1>1. UNCHANGED <<stored, heap>>
  BY QuietSteps
<1>2. \A k \in Keys : promise'[k] # None =>
          \/ promise'[k] = promise[k]
          \/ stored'[k] # None /\ promise'[k].cred = Credential(heap'[stored'[k]])
  <2>1. CASE UNCHANGED promise
    BY <2>1
  <2>2. CASE FoundSame(w) /\ (CompareDecrypted(w) \/ ComparePlain(w) \/ CompareOther(w))
    <3>1. worker[w].pc \in {"same", "unseal"}
      BY <2>2 DEF CompareDecrypted, ComparePlain, CompareOther, At
    <3>2. stored[Try(w)] # None /\ Credential(heap[stored[Try(w)]]) = Req(w).password
      BY <2>2, <3>1, TriedKey, SamePassword DEF Credential
    <3>3. promise' = [promise EXCEPT ![Try(w)] = [text |-> Req(w).text, cred |-> Req(w).password]]
      BY <2>2 DEF FoundSame, Promise
    <3> QED
      BY <1>1, <3>2, <3>3, TypeParts DEF Base, Promises
  <2> QED
    BY <2>1, <2>2, QuietPromise
<1>3. CASE CompareSealed(w)
  <2>1. worker[w].pc = "same" /\ verifyPassword(Held(w).password, Req(w).password)
    BY <1>3 DEF CompareSealed, At
  <2>2. /\ worker'[w].entry = worker[w].entry /\ worker'[w].req = worker[w].req
        /\ worker'[w].i = worker[w].i
    BY <1>3, LocalsType DEF Base, CompareSealed, Locals
  <2>3. Try(w)' = Try(w) /\ Held(w)' = Held(w) /\ Req(w)' = Req(w)
    BY <1>1, <2>2 DEF Try, TriedData, Req, Held
  <2>4. /\ Held(w)'.password = heap'[stored'[Try(w)']].password
        /\ Held(w)'.totp = heap'[stored'[Try(w)']].totp
        /\ Held(w)'.password = Req(w)'.password
    BY <1>1, <2>1, <2>3 DEF PromisesFit, verifyPassword
  <2> QED
    BY <1>2, <2>4, FitStep
<1>4. CASE ~CompareSealed(w)
  <2>1. worker'[w].pc \notin {"same", "unseal"}
    BY <1>4, ComparesFrom DEF Base
  <2> QED
    BY <1>2, <2>1, FitStep
<1> QED
  BY <1>3, <1>4

LEMMA ProbeTakenFits ==
    ASSUME MenusApart, Base, PromisesFit, NEW w \in Workers, StepOf(w), ProbeTaken(w)
    PROVE  PromisesFit'
<1>1. PICK id \in Ids : GetsInto(w, Try(w), id, "same")
  BY DEF ProbeTaken
<1>2. UNCHANGED <<stored, promise>> /\ Try(w) \in Keys /\ stored[Try(w)] # None
  BY Generating DEF Base, ProbeTaken, Probing, At
<1>3. heap'[id] = heap[stored[Try(w)]]
  BY <1>1, <1>2, GetGoesOn DEF Base, Pcs, HalfDone
<1>4. /\ worker'[w].entry = id /\ worker'[w].pc = "same" /\ worker'[w].req = worker[w].req
      /\ worker'[w].i = worker[w].i
  BY <1>1, LocalsType DEF Base, GetsInto, Locals
<1>5. Try(w)' = Try(w) /\ Held(w)' = heap'[id]
  BY <1>4 DEF Try, TriedData, Req, Held
<1>6. SameKind(heap'[stored[Try(w)]], heap[stored[Try(w)]])
  BY <1>2, StoredEntry, InUseStays DEF Base, StepOf, GoesOn
<1>7. /\ Held(w)'.password = heap'[stored'[Try(w)']].password
      /\ Held(w)'.totp = heap'[stored'[Try(w)']].totp
  BY <1>2, <1>3, <1>5, <1>6 DEF SameKind
<1>8. ~At(w, "unseal")'
  BY <1>4 DEF At
<1> QED
  BY <1>2, <1>7, <1>8, FitStep

LEMMA PutFits ==
    ASSUME MenusApart, Base, PromisesFit, NEW w \in Workers, StepOf(w), Create(w) \/ PutTOTP(w)
    PROVE  PromisesFit'
<1> DEFINE k == worker[w].key
<1>1. PICK e : Put(k, e) /\ Credential(e) = SavedUnder(Req(w))
  BY NewEntrySound DEF Base
<1>2. k \in Keys
  BY CreatorKeys DEF Base, Create, PutTOTP, At
<1>3. worker'[w].pc = "idle"
  BY FinishedPc DEF Base, Create, PutTOTP
<1>4. promise' = [promise EXCEPT ![k] = [text |-> Req(w).text, cred |-> SavedUnder(Req(w))]]
  <2>1. CASE Create(w)
    <3>1. Req(w).op = "generate" /\ Req(w).code = None
      BY <2>1, Generating, MenuType DEF Base, Create, At, WellFormed
    <3> QED
      BY <2>1, <3>1 DEF Create, Promise, SavedUnder, Presented
  <2>2. CASE PutTOTP(w)
    BY <2>2, SettingUp DEF Base, PutTOTP, Promise, SavedUnder, At
  <2> QED
    BY <2>1, <2>2
<1>5. NewId(k) \in Ids /\ NewId(k) # None
  BY <1>2, NewIdIsFree, StoreAssumption DEF Base
<1> HIDE DEF k
<1>6. stored'[k] = NewId(k) /\ heap'[NewId(k)] = e
  BY <1>1, <1>2, <1>5, TypeParts DEF Base, Put
<1>7. \A j \in Keys : promise'[j] # promise[j] => j = k /\ promise'[j].cred = SavedUnder(Req(w))
  BY <1>2, <1>4, TypeParts DEF Base, Promises
<1>8. \A j \in Keys : promise'[j] # None =>
          \/ promise'[j] = promise[j]
          \/ stored'[j] # None /\ promise'[j].cred = Credential(heap'[stored'[j]])
  BY <1>1, <1>5, <1>6, <1>7
<1>9. worker'[w].pc \notin {"same", "unseal"}
  BY <1>3
<1> QED
  BY <1>8, <1>9, FitStep

\* Until its last field an edit neither promises nor answers.
LEMMA FieldGoesOn ==
    ASSUME IInv, NEW w \in Workers, FieldStep(w)
    PROVE  /\ worker'[w].pc # "idle" => UNCHANGED <<stored, promise, answer>>
           /\ worker'[w].pc = "idle" => \E e : LastWrite(w, e)
<1>1. PICK e \in Entries :
          \/ \E pc \in {"seal", "clear", "unsalt"} : FieldNext(w, e, pc)
          \/ LastWrite(w, e)
  BY FieldWritten
<1>2. CASE \E pc \in {"seal", "clear", "unsalt"} : FieldNext(w, e, pc)
  BY <1>2, LocalsType DEF FieldNext, GoesOnWriting, Goto, Locals
<1>3. CASE LastWrite(w, e)
  BY <1>3, FinishedPc DEF LastWrite
<1> QED
  BY <1>1, <1>2, <1>3

\* What an edit promises, and that it was the credential of the key.
LEMMA EditPromise ==
    ASSUME Base, NEW w \in Workers, EditEnds(w)
    PROVE  /\ worker[w].key \in Keys /\ stored[worker[w].key] # None
           /\ Credential(heap[Target(w)]) = Presented(Req(w))
           /\ promise' = [promise EXCEPT ![worker[w].key] =
                             [text |-> Req(w).text, cred |-> Presented(Req(w))]]
<1>1. /\ worker[w].pc \in Edits
      /\ FieldStep(w) => worker[w].pc \in Sealing \cup Clearing
  BY FieldWritten DEF Base, EditEnds, WriteRest, At, Edits, HalfDone, Sealing, Clearing
<1>2. worker[w].pc \in HasKey /\ worker[w].key \in Keys /\ stored[worker[w].key] # None
  BY <1>1, EditingRequest, Opening DEF Base
<1>3. Held(w).password = heap[Target(w)].password /\ Held(w).totp = heap[Target(w)].totp
  BY <1>2 DEF Base, CreatorsAlone
<1>4. CASE FieldStep(w) /\ worker'[w].pc = "idle"
  <2>1. PasswordFits(w)
    BY <1>1, <1>4 DEF Base, CreatorsAlone
  <2>2. Credential(heap[Target(w)]) = Req(w).password
    BY <1>3, <2>1 DEF PasswordFits, verifyPassword, Credential
  <2>3. Presented(Req(w)) = Req(w).password
    BY <1>1, <2>1, PasswordPresented
  <2> QED
    BY <1>2, <1>4, <2>2, <2>3, FieldGoesOn DEF Base, LastWrite, Promise
<1>5. CASE WriteRest(w)
  <2>1. CodeFits(w)
    BY <1>5 DEF Base, CreatorsAlone, WriteRest, At
  <2>2. Credential(heap[Target(w)]) = Presented(Req(w))
    BY <1>3, <2>1 DEF CodeFits, ValidateTOTP, Credential, Presented
  <2> QED
    BY <1>2, <1>5, <2>2 DEF WriteRest, Promise
<1> QED
  BY <1>4, <1>5 DEF EditEnds

LEMMA EditDoneFits ==
    ASSUME Base, PromisesFit, NEW w \in Workers, StepOf(w), EditEnds(w)
    PROVE  PromisesFit'
<1> DEFINE k == worker[w].key
           c == Presented(Req(w))
<1>1. /\ k \in Keys /\ stored[k] # None /\ Credential(heap[stored[k]]) = c
      /\ promise' = [promise EXCEPT ![k] = [text |-> Req(w).text, cred |-> c]]
  BY EditPromise DEF Target
<1>2. worker'[w].pc \notin {"same", "unseal"} /\ UNCHANGED stored
  BY FieldMoves, WriteRestMoves DEF Base, EditEnds
<1>3. SameKind(heap'[stored[k]], heap[stored[k]])
  BY <1>1, StoredEntry, InUseStays DEF Base, StepOf, GoesOn
<1>4. Credential(heap'[stored[k]]) = c
  BY <1>1, <1>3 DEF SameKind, Credential
<1> HIDE DEF k, c
<1>5. \A j \in Keys : promise'[j] # promise[j] => j = k /\ promise'[j].cred = c
  BY <1>1, TypeParts DEF Base, Promises
<1>6. \A j \in Keys : promise'[j] # None =>
          \/ promise'[j] = promise[j]
          \/ stored'[j] # None /\ promise'[j].cred = Credential(heap'[stored'[j]])
  BY <1>1, <1>2, <1>4, <1>5
<1> QED
  BY <1>2, <1>6, FitStep

LEMMA StepFits ==
    ASSUME MenusApart, Base, PromisesFit, NEW w \in Workers, StepOf(w)
    PROVE  PromisesFit'
<1>1. CASE Lookup(w) \/ UpdateSalt(w) \/ UpdateUnsealed(w) \/ WriteText(w)
  <2>1. UNCHANGED promise
    BY <1>1 DEF Lookup, UpdateSalt, UpdateUnsealed, WriteText
  <2>2. worker'[w].pc \in {"view", "reseal", "clear", "write"}
    <3>1. worker \in Locals
      BY LocalsType DEF Base
    <3>2. ASSUME NEW e, NEW pc, NEW salt, EditsInto(w, e, pc, salt)
          PROVE  worker'[w].pc = pc
      BY <3>1, <3>2 DEF EditsInto, Locals
    <3>3. CASE Lookup(w)
      BY <3>1, <3>3 DEF Lookup, GetsInto, Locals
    <3> QED
      BY <1>1, <3>2, <3>3 DEF UpdateSalt, UpdateUnsealed, WriteText
  <2>3. worker'[w].pc \notin {"same", "unseal"}
    BY <2>2
  <2> QED
    BY <2>1, <2>3, FitStep
<1>2. CASE FieldStep(w) /\ worker'[w].pc # "idle"
  <2>1. UNCHANGED promise /\ worker'[w].pc \notin {"same", "unseal"}
    BY <1>2, FieldGoesOn, FieldPcs DEF Base
  <2> QED
    BY <2>1, FitStep
<1> QED
  BY <1>1, <1>2, QuietFits, ProbeTakenFits, PutFits, EditDoneFits
     DEF StepOf, Step, QuietStep, FieldStep, EditEnds

-----------------------------------------------------------------------------
(* In memory *)

LEMMA HoldsStep ==
    ASSUME Base, HoldsStored, NEW w \in Workers, StepOf(w),
           worker'[w].pc \in HasKey => worker'[w].entry = Target(w)',
           worker'[w].pc \in {"same", "unseal"} => worker'[w].entry = stored'[Try(w)']
    PROVE  HoldsStored'
<1>1. ASSUME NEW v \in Workers \ {w}, worker'[v].pc \in HasKey
      PROVE  worker'[v].entry = Target(v)'
  <2>1. worker'[v] = worker[v]
    BY DEF StepOf, GoesOn
  <2>2. worker[v].key \in Keys /\ stored[worker[v].key] # None
    BY <1>1, <2>1, Opening DEF Base
  <2> QED
    BY <1>1, <2>1, <2>2 DEF HoldsStored, Target, StepOf, StoredStays
<1>2. ASSUME NEW v \in Workers \ {w}, worker'[v].pc \in {"same", "unseal"}
      PROVE  worker'[v].entry = stored'[Try(v)']
  <2>1. worker'[v] = worker[v]
    BY DEF StepOf, GoesOn
  <2>2. Try(v) \in Keys /\ stored[Try(v)] # None
    BY <1>2, <2>1, Generating DEF Base, IInv, RequestFits
  <2>3. Try(v)' = Try(v)
    BY <2>1 DEF Try, TriedData, Req
  <2> QED
    BY <1>2, <2>1, <2>2, <2>3 DEF HoldsStored, StepOf, StoredStays
<1> QED
  BY <1>1, <1>2 DEF HoldsStored

\* A quiet step that holds the entry of a key has held it before.
LEMMA QuietKeeps ==
    ASSUME IInv, NEW w \in Workers, QuietStep(w)
    PROVE  worker'[w].pc \in HasKey =>
               /\ worker[w].pc \in HasKey /\ worker'[w].key = worker[w].key
               /\ worker'[w].entry = worker[w].entry
<1> DEFINE Goal == worker'[w].pc \in HasKey =>
               /\ worker[w].pc \in HasKey /\ worker'[w].key = worker[w].key
               /\ worker'[w].entry = worker[w].entry
<1>1. worker \in Locals
  BY LocalsType
<1>2. ASSUME NEW r \in Menu[w], Accept(w, r)
      PROVE  Goal
  BY <1>1, <1>2 DEF Accept, Rest, Locals, HasKey, HalfDone
<1>3. ASSUME NEW a, Finish(w, a)
      PROVE  Goal
  BY <1>3, FinishedPc DEF HasKey, HalfDone
<1>4. CASE NextTry(w)
  BY <1>4, NextTryPc DEF HasKey, HalfDone
<1>5. CASE Goto(w, "update") /\ worker[w].pc \in HasKey
  BY <1>1, <1>5 DEF Goto, Locals
<1>6. CASE ProbeEmpty(w) \/ CompareSealed(w) \/ SetupVerified(w)
  BY <1>1, <1>6 DEF ProbeEmpty, CompareSealed, SetupVerified, Goto, Locals, HasKey, HalfDone
<1>7. CASE PickKey(w)
  <2>1. PICK k \in RandomKeys[worker[w].i] :
            worker' = IF stored[k] = None
                      THEN [worker EXCEPT ![w].key = k, ![w].pc = "put"]
                      ELSE [worker EXCEPT ![w].i = worker[w].i + 1]
    BY <1>7 DEF PickKey
  <2>2. worker[w].pc = "pick"
    BY <1>7 DEF PickKey, At
  <2>3. CASE stored[k] = None
    BY <1>1, <2>1, <2>3 DEF Locals, HasKey, HalfDone
  <2>4. CASE stored[k] # None
    BY <1>1, <2>1, <2>2, <2>4 DEF Locals, HasKey, HalfDone
  <2> QED
    BY <2>3, <2>4
<1>8. CASE ReadSalt(w)
  BY <1>1, <1>8 DEF ReadSalt, Presents, At, Locals, HasKey, HalfDone
<1>9. CASE CompareDecrypted(w) \/ ComparePlain(w) \/ CompareOther(w)
  <2>1. FoundSame(w) \/ NextTry(w)
    BY <1>9 DEF CompareDecrypted, ComparePlain, CompareOther
  <2> QED
    BY <1>3, <1>4, <2>1 DEF FoundSame
<1>10. CASE SetupRefused(w) \/ LookupNothing(w) \/ ShowOrLock(w) \/ WrongCredential(w) \/ Reread(w)
  BY <1>3, <1>10 DEF SetupRefused, LookupNothing, ShowOrLock, WrongCredential, Reread
<1>11. CASE ShowTOTP(w) \/ ShowUnsealed(w) \/ Decrypt(w)
  <2>1. worker[w].pc \in HasKey
    BY <1>11 DEF ShowTOTP, ShowUnsealed, Decrypt, Presents, At, HasKey, HalfDone
  <2> QED
    BY <1>3, <1>5, <1>11, <2>1 DEF ShowTOTP, ShowUnsealed, Decrypt, ShowOrUpdate
<1> QED
  BY <1>2, <1>4, <1>6, <1>7, <1>8, <1>9, <1>10, <1>11 DEF QuietStep

LEMMA StepHolds ==
    ASSUME ~Persistent, Base, HoldsStored, NEW w \in Workers, StepOf(w)
    PROVE  HoldsStored'
<1>1. worker \in Locals
  BY LocalsType DEF Base
<1>2. CASE QuietStep(w)
  <2>1. UNCHANGED stored
    BY <1>2, QuietSteps
  <2>2. worker'[w].pc \in HasKey => worker'[w].entry = Target(w)'
    BY <1>2, <2>1, QuietKeeps DEF Base, HoldsStored, Target
  <2>3. worker'[w].pc \in {"same", "unseal"} => worker'[w].entry = stored'[Try(w)']
    <3>1. CASE CompareSealed(w)
      <4>1. /\ worker'[w].entry = worker[w].entry /\ worker'[w].req = worker[w].req
            /\ worker'[w].i = worker[w].i
        BY <1>1, <3>1 DEF CompareSealed, Locals
      <4>2. Try(w)' = Try(w)
        BY <4>1 DEF Try, TriedData, Req
      <4> QED
        BY <2>1, <3>1, <4>1, <4>2 DEF HoldsStored, CompareSealed, At
    <3>2. CASE ~CompareSealed(w)
      BY <1>2, <3>2, ComparesFrom DEF Base
    <3> QED
      BY <3>1, <3>2
  <2> QED
    BY <2>2, <2>3, HoldsStep
<1>3. CASE Create(w) \/ PutTOTP(w)
  <2>1. worker'[w].pc = "idle"
    BY <1>3, FinishedPc DEF Base, Create, PutTOTP
  <2> QED
    BY <2>1, HoldsStep DEF HasKey, HalfDone
<1>4. CASE ProbeTaken(w)
  <2>1. PICK id \in Ids : GetsInto(w, Try(w), id, "same")
    BY <1>4 DEF ProbeTaken
  <2>2. /\ worker'[w].entry = id /\ worker'[w].pc = "same" /\ worker'[w].req = worker[w].req
        /\ worker'[w].i = worker[w].i
    BY <1>1, <2>1 DEF GetsInto, Locals
  <2>3. Try(w)' = Try(w) /\ id = stored[Try(w)] /\ UNCHANGED stored
    BY <1>4, <2>1, <2>2 DEF ProbeTaken, GetsInto, Try, TriedData, Req
  <2> QED
    BY <2>2, <2>3, HoldsStep DEF HasKey, HalfDone
<1>5. CASE Lookup(w)
  <2>1. PICK id \in Ids : GetsInto(w, worker[w].key, id, "view")
    BY <1>5 DEF Lookup
  <2>2. worker'[w].entry = id /\ worker'[w].pc = "view" /\ worker'[w].key = worker[w].key
    BY <1>1, <2>1 DEF GetsInto, Locals
  <2>3. id = stored[worker[w].key] /\ UNCHANGED stored
    BY <1>5, <2>1 DEF Lookup, GetsInto
  <2> QED
    BY <2>2, <2>3, HoldsStep DEF Target
<1>6. ASSUME NEW e, NEW pc \in HalfDone, NEW salt, EditsInto(w, e, pc, salt), UNCHANGED stored
      PROVE  HoldsStored'
  <2>1. worker'[w].entry = Target(w) /\ worker'[w].key = worker[w].key /\ worker'[w].pc = pc
    BY <1>1, <1>6 DEF EditsInto, Locals
  <2>2. worker'[w].pc \notin {"same", "unseal"}
    BY <1>6, <2>1 DEF HalfDone
  <2> QED
    BY <1>6, <2>1, <2>2, HoldsStep DEF Target
<1>7. CASE UpdateSalt(w) \/ UpdateUnsealed(w) \/ WriteText(w)
  BY <1>6, <1>7 DEF UpdateSalt, UpdateUnsealed, WriteText, HalfDone
<1>8. CASE FieldStep(w) \/ WriteRest(w)
  <2>1. UNCHANGED stored /\ worker'[w].pc \in {"idle", "reread", "seal", "clear", "unsalt"}
    BY <1>8, FieldMoves, WriteRestMoves DEF Base
  <2>2. worker'[w].pc # "idle" =>
            worker[w].pc \in HasKey /\ worker'[w].key = worker[w].key
            /\ worker'[w].entry = worker[w].entry
    <3>1. CASE FieldStep(w)
      BY <3>1, FieldWritten, FieldMoves DEF Base, HasKey, HalfDone, Sealing, Clearing
    <3>2. CASE Goto(w, "reread") /\ At(w, "write")
      BY <1>1, <3>2 DEF Goto, Locals, At, HasKey, HalfDone
    <3>3. CASE \E a : Finish(w, a)
      BY <3>3, FinishedPc DEF Base
    <3> QED
      BY <1>8, <3>1, <3>2, <3>3 DEF WriteRest
  <2>3. worker'[w].pc \in HasKey => worker'[w].entry = Target(w)'
    BY <2>1, <2>2 DEF HoldsStored, Target, HasKey, HalfDone
  <2>4. worker'[w].pc \notin {"same", "unseal"}
    BY <2>1
  <2> QED
    BY <2>3, <2>4, HoldsStep
<1> QED
  BY <1>2, <1>3, <1>4, <1>5, <1>7, <1>8 DEF StepOf, Step, QuietStep, FieldStep

LEMMA KeptStep ==
    ASSUME Base, PromisesFit, PromisesFit', PromiseKept, NEW w \in Workers, StepOf(w),
           \A k \in Keys : promise'[k] # None /\ ~Editing(k)' =>
               \/ /\ promise'[k] = promise[k]
                  /\ \/ UNCHANGED heap /\ worker[w].pc \notin HalfDone
                     \/ worker[w].pc \notin Edits
                     \/ k # worker[w].key
               \/ OpenWith(heap'[stored'[k]], promise'[k].cred) = promise'[k].text
    PROVE  PromiseKept'
<1> SUFFICES ASSUME NEW k \in Keys, promise'[k] # None, ~Editing(k)'
             PROVE  /\ stored'[k] # None
                    /\ OpenWith(heap'[stored'[k]], promise'[k].cred) = promise'[k].text
  BY DEF PromiseKept
<1>1. stored'[k] # None
  BY DEF PromisesFit
<1>2. CASE /\ promise'[k] = promise[k]
           /\ \/ UNCHANGED heap /\ worker[w].pc \notin HalfDone
              \/ worker[w].pc \notin Edits
              \/ k # worker[w].key
  <2>1. stored[k] # None /\ stored'[k] = stored[k]
    BY <1>2 DEF PromisesFit, StepOf, StoredStays
  <2>2. stored[k] \in Ids /\ stored[k] \in InUse /\ stored[k][1] = k
    BY <2>1, StoredEntry DEF Base
  <2>3. heap'[stored[k]] = heap[stored[k]]
    BY <1>2, <2>2, OthersUntouched
  <2>4. ~(worker[w].pc \in HalfDone /\ worker[w].key = k)
    BY <1>2 DEF Edits
  <2>5. ~Editing(k)
    <3>1. ASSUME NEW v \in Workers, worker[v].key = k, worker[v].pc \in HalfDone
          PROVE  FALSE
      <4>1. v # w
        BY <2>4, <3>1
      <4>2. worker'[v] = worker[v]
        BY <4>1 DEF StepOf, GoesOn
      <4> QED
        BY <3>1, <4>2 DEF Editing
    <3> QED
      BY <3>1 DEF Editing
  <2> QED
    BY <1>1, <1>2, <2>1, <2>3, <2>5 DEF PromiseKept
<1> QED
  BY <1>1, <1>2

\* generateKey answers with a key only if its entry opens with what was sent.
LEMMA SameOpens ==
    ASSUME MenusApart, Base, EntriesSound, PromisesFit, HoldsStored, NEW w \in Workers,
           FoundSame(w), CompareDecrypted(w) \/ ComparePlain(w) \/ CompareOther(w),
           ~Editing(Try(w))
    PROVE  OpenWith(heap[stored[Try(w)]], Req(w).password) = Req(w).text
<1> DEFINE f == heap[stored[Try(w)]]
           p == Req(w).password
<1>1. worker[w].pc \in {"same", "unseal"}
  BY DEF CompareDecrypted, ComparePlain, CompareOther, At
<1>2. /\ f.totp = None /\ GoodKind(f) /\ stored[Try(w)] \in Ids /\ f # None
      /\ Req(w).text \in Texts /\ p \in Passwords \cup {None}
  BY <1>1, TriedKey
<1>3. f.password = p
  BY SamePassword
<1>4. Held(w) = f
  BY <1>1 DEF HoldsStored, Held
<1>5. Sound(f) /\ Locked(f)
  <2>1. ASSUME NEW v \in Workers, worker[v].entry = stored[Try(w)], worker[v].pc \in HalfDone
        PROVE  FALSE
    <3>1. worker[v].pc \in Edits
      BY <2>1 DEF Edits, HalfDone
    <3>2. worker[v].entry[1] = worker[v].key
      BY <3>1, EditingRequest
    <3>3. stored[Try(w)][1] = Try(w)
      BY <1>1, TriedKey, StoredEntry DEF Base
    <3> QED
      BY <2>1, <3>2, <3>3 DEF Editing
  <2>2. ~BeingEdited(stored[Try(w)])
    BY <2>1 DEF BeingEdited
  <2> QED
    BY <1>2, <2>2 DEF EntriesSound
<1>6. worker'[w].pc = "idle" /\ ~NextTry(w)
  <2>1. worker'[w].pc = "idle"
    BY FinishedPc DEF Base, FoundSame
  <2> QED
    BY <2>1, NextTryPc DEF Base
<1> HIDE DEF f, p
<1>7. CASE CompareDecrypted(w)
  <2> DEFINE s == worker[w].salt
  <2>1. Unseal(f.enc, s, p) = Req(w).text
    BY <1>4, <1>6, <1>7 DEF CompareDecrypted, p
  <2>2. Req(w).text # Failed
    BY <1>2, EntryAssumption
  <2> HIDE DEF s
  <2>3. /\ f.enc # None /\ s # None /\ f.enc.key = deriveKey(p, s)
        /\ f.enc.text = Req(w).text
    BY <2>1, <2>2 DEF Unseal, decrypt
  <2>4. f.enc.key.salt = s
    BY <2>3 DEF deriveKey
  <2>5. f.salt = s /\ f.password # None
    BY <1>5, <2>3, <2>4 DEF Sound
  <2>6. OpenWith(f, p) = Unseal(f.enc, f.salt, p)
    BY <1>2, <1>3, <2>3, <2>5 DEF OpenWith, verifyPassword, GoodKind
  <2> QED
    BY <2>1, <2>5, <2>6 DEF f, p
<1>8. CASE ComparePlain(w)
  <2>1. p = None /\ f.text = Req(w).text
    BY <1>4, <1>6, <1>8 DEF ComparePlain, p
  <2>2. ~f.protected
    BY <1>2, <1>3, <1>5, <2>1 DEF Locked
  <2>3. OpenWith(f, p) = f.text
    BY <1>2, <1>3, <2>1, <2>2 DEF OpenWith, verifyPassword
  <2> QED
    BY <2>1, <2>3 DEF f, p
<1>9. CASE CompareOther(w)
  <2>1. p # None /\ f.enc = None /\ f.text = Req(w).text
    BY <1>4, <1>6, <1>9 DEF CompareOther, p
  <2>2. OpenWith(f, p) = f.text
    BY <1>2, <1>3, <2>1 DEF OpenWith, verifyPassword, GoodKind
  <2> QED
    BY <2>1, <2>2 DEF f, p
<1> QED
  BY <1>7, <1>8, <1>9

LEMMA QuietKept ==
    ASSUME MenusApart, Base, EntriesSound, PromisesFit, PromisesFit', HoldsStored, PromiseKept,
           NEW w \in Workers, StepOf(w), QuietStep(w)
    PROVE  PromiseKept'
<1>1. UNCHANGED <<stored, heap>> /\ worker[w].pc \notin HalfDone
  BY QuietSteps, QuietFrom
<1>2. CASE UNCHANGED promise
  BY <1>1, <1>2, KeptStep
<1>3. CASE FoundSame(w) /\ (CompareDecrypted(w) \/ ComparePlain(w) \/ CompareOther(w))
  <2>1. Try(w) \in Keys
    BY <1>3, TriedKey DEF CompareDecrypted, ComparePlain, CompareOther, At
  <2>2. promise' = [promise EXCEPT ![Try(w)] = [text |-> Req(w).text, cred |-> Req(w).password]]
    BY <1>3 DEF FoundSame, Promise
  <2>3. PICK k \in Keys : k = Try(w)
    BY <2>1
  <2>4. ASSUME ~Editing(k)'
        PROVE  ~Editing(k)
    <3>1. \A v \in Workers \ {w} : worker'[v] = worker[v]
      BY DEF StepOf, GoesOn
    <3> QED
      BY <1>1, <2>4, <3>1 DEF Editing
  <2>5. ~Editing(k) => OpenWith(heap[stored[k]], Req(w).password) = Req(w).text
    BY <1>3, <2>3, SameOpens
  <2>6. /\ promise'[k] = [text |-> Req(w).text, cred |-> Req(w).password]
        /\ \A j \in Keys \ {k} : promise'[j] = promise[j]
    BY <2>2, <2>3, TypeParts DEF Base, Promises
  <2> QED
    BY <1>1, <2>4, <2>5, <2>6, KeptStep
<1> QED
  BY <1>2, <1>3, QuietPromise

LEMMA PutKept ==
    ASSUME MenusApart, Base, PromisesFit, PromisesFit', PromiseKept, NEW w \in Workers, StepOf(w),
           Create(w) \/ PutTOTP(w)
    PROVE  PromiseKept'
<1> DEFINE k == worker[w].key
           c == SavedUnder(Req(w))
           t == Req(w).text
<1>1. PICK e : Put(k, e) /\ OpenWith(e, c) = t
  BY NewEntrySound DEF Base
<1>2. k \in Keys /\ worker[w].pc \notin Edits
  BY CreatorKeys DEF Base, Create, PutTOTP, At, Edits, HalfDone
<1>3. promise' = [promise EXCEPT ![k] = [text |-> t, cred |-> c]]
  <2>1. CASE Create(w)
    <3>1. Req(w).op = "generate" /\ Req(w).code = None
      BY <2>1, Generating, MenuType DEF Base, Create, At, WellFormed
    <3> QED
      BY <2>1, <3>1 DEF Create, Promise, SavedUnder, Presented
  <2>2. CASE PutTOTP(w)
    BY <2>2, SettingUp DEF Base, PutTOTP, Promise, SavedUnder, At
  <2> QED
    BY <2>1, <2>2
<1>4. NewId(k) \in Ids
  BY <1>2, NewIdIsFree DEF Base
<1> HIDE DEF k, c, t
<1>5. stored'[k] = NewId(k) /\ heap'[NewId(k)] = e
  BY <1>1, <1>2, <1>4, TypeParts DEF Base, Put
<1>6. promise'[k].text = t /\ promise'[k].cred = c
      /\ \A j \in Keys \ {k} : promise'[j] = promise[j]
  BY <1>2, <1>3, TypeParts DEF Base, Promises
<1> QED
  BY <1>1, <1>2, <1>5, <1>6, KeptStep

LEMMA EditKept ==
    ASSUME Base, PromisesFit, PromisesFit', PromiseKept, NEW w \in Workers, StepOf(w),
           NEW e, NEW pc \in HalfDone, NEW salt, EditsInto(w, e, pc, salt), UNCHANGED promise
    PROVE  PromiseKept'
<1>1. worker'[w].key = worker[w].key /\ worker'[w].pc = pc
  BY LocalsType DEF Base, EditsInto, Locals
<1>2. \A k \in Keys : ~Editing(k)' => k # worker[w].key
  BY <1>1 DEF Editing
<1> QED
  BY <1>2, KeptStep

LEMMA EditDoneKept ==
    ASSUME ~Persistent, MenusApart, Base, EntriesSound, PromisesFit, PromisesFit', HoldsStored,
           PromiseKept, NEW w \in Workers, StepOf(w), EditEnds(w)
    PROVE  PromiseKept'
<1> DEFINE k == worker[w].key
           c == Presented(Req(w))
           t == Req(w).text
<1>1. /\ k \in Keys
      /\ promise' = [promise EXCEPT ![k] = [text |-> t, cred |-> c]]
  BY EditPromise
<1>2. UNCHANGED stored
  BY EditEndsDone
<1>3. worker[w].entry = stored[k]
  BY EditEndsDone DEF HoldsStored, HasKey, Target
<1>4. PICK e : EditDone(w, stored[k], e)
  BY <1>3, EditEndsDone
<1>5. heap'[stored[k]] = e /\ OpenWith(e, c) = t
  BY <1>4, TypeParts DEF Base, EditDone
<1> HIDE DEF k, c, t
<1>6. promise'[k].text = t /\ promise'[k].cred = c
      /\ \A j \in Keys \ {k} : promise'[j] = promise[j]
  BY <1>1, TypeParts DEF Base, Promises
<1>7. \A j \in Keys : j # k => j # worker[w].key
  BY DEF k
<1> QED
  BY <1>1, <1>2, <1>5, <1>6, <1>7, KeptStep

LEMMA StepKept ==
    ASSUME ~Persistent, MenusApart, Base, EntriesSound, PromisesFit, PromisesFit', HoldsStored,
           PromiseKept, NEW w \in Workers, StepOf(w)
    PROVE  PromiseKept'
<1>1. CASE Lookup(w) \/ ProbeTaken(w)
  <2>1. UNCHANGED promise /\ worker[w].pc \notin Edits
    BY <1>1 DEF Lookup, ProbeTaken, Probing, At, Edits, HalfDone
  <2> QED
    BY <2>1, KeptStep
<1>2. CASE UpdateSalt(w) \/ UpdateUnsealed(w) \/ WriteText(w)
  BY <1>2, EditKept DEF UpdateSalt, UpdateUnsealed, WriteText, HalfDone
<1>3. CASE FieldStep(w) /\ worker'[w].pc # "idle"
  <2>1. UNCHANGED promise /\ worker'[w].key = worker[w].key /\ worker'[w].pc \in HalfDone
    BY <1>3, FieldGoesOn, FieldMoves DEF Base, HalfDone
  <2>2. \A k \in Keys : ~Editing(k)' => k # worker[w].key
    BY <2>1 DEF Editing
  <2> QED
    BY <2>1, <2>2, KeptStep
<1> QED
  BY <1>1, <1>2, <1>3, QuietKept, PutKept, EditDoneKept
     DEF StepOf, Step, QuietStep, FieldStep, EditEnds

LEMMA NextFits ==
    ASSUME MenusApart, Base, EntriesSound, PromisesFit, [Next]_vars
    PROVE  (Base /\ EntriesSound /\ PromisesFit)'
<1>1. ASSUME NEW w \in Workers, Step(w) \/ \E r \in Menu[w] : Accept(w, r)
      PROVE  (Base /\ EntriesSound /\ PromisesFit)'
  BY <1>1, BaseStep, StepSound, StepFits DEF StepOf
<1>2. CASE UNCHANGED vars
  <2>1. Base'
    <3>1. TextsBegun'
      BY <1>2 DEF vars, Base, TextsBegun, Begun, Held, At, Req
    <3> QED
      BY <1>2, <3>1, NextInv, NextApart, NextClear, NextAlone DEF Base, MenusApart, FailsAlone
  <2>2. EntriesSound'
    BY <1>2 DEF vars, EntriesSound, BeingEdited, Held, At
  <2>3. PromisesFit'
    BY <1>2 DEF vars, PromisesFit, Held, At, Try, TriedData, Req
  <2> QED
    BY <2>1, <2>2, <2>3
<1> QED
  BY <1>1, <1>2 DEF Next

LEMMA InitFits == Init => Base /\ EntriesSound /\ PromisesFit /\ HoldsStored /\ PromiseKept
<1> SUFFICES ASSUME Init PROVE Base /\ EntriesSound /\ PromisesFit /\ HoldsStored /\ PromiseKept
  OBVIOUS
<1>1. \A w \in Workers : worker[w].pc = "idle" /\ worker[w].entry = None
  BY DEF Init, Rest
<1>2. /\ \A id \in Ids : heap[id] = None
      /\ \A k \in Keys : promise[k] = None /\ stored[k] = None
  BY DEF Init
<1>3. EntriesSound /\ PromisesFit /\ HoldsStored /\ PromiseKept
  BY <1>1, <1>2 DEF EntriesSound, PromisesFit, HoldsStored, PromiseKept, At, HasKey, HalfDone,
                    Sealing
<1> QED
  BY <1>3, BaseInit

LEMMA NextKept ==
    ASSUME ~Persistent, MenusApart, Base, EntriesSound, PromisesFit, HoldsStored, PromiseKept,
           [Next]_vars
    PROVE  (HoldsStored /\ PromiseKept)'
<1>1. ASSUME NEW w \in Workers, Step(w) \/ \E r \in Menu[w] : Accept(w, r)
      PROVE  (HoldsStored /\ PromiseKept)'
  <2>1. StepOf(w)
    BY <1>1, BaseStep
  <2>2. HoldsStored' /\ PromisesFit'
    BY <2>1, StepHolds, StepFits
  <2> QED
    BY <2>1, <2>2, StepKept
<1>2. CASE UNCHANGED vars
  BY <1>2 DEF vars, HoldsStored, PromiseKept, Editing, Target, Try, TriedData, Req
<1> QED
  BY <1>1, <1>2 DEF Next

\* With the memory store, what the last acknowledged request left at a key is
\* what its credential opens whenever nobody is in the middle of an edit of that
\* key: however many requests run at the same time (createEntry, updateEntry,
\* isSameEntry), provided those that create entries want different keys, so do
\* those that edit, no key of generateKey is drawn for a TOTP entry, and no
\* password is too long for bcrypt.
THEOREM PromisesKept ==
    ASSUME MenusApart, ~Persistent
    PROVE  Spec => []PromiseKept
<1> DEFINE Inv == Base /\ EntriesSound /\ PromisesFit /\ HoldsStored /\ PromiseKept
<1>1. Inv /\ [Next]_vars => Inv'
  BY NextFits, NextKept
<1>2. Init => Inv
  BY InitFits
<1> QED
  BY <1>1, <1>2, PTL DEF Spec

-----------------------------------------------------------------------------
(* Who is turned away *)

LEMMA PostKey ==
    ASSUME Base, NEW w \in Workers, Req(w).op = "post"
    PROVE  Req(w) \in Menu[w] /\ Req(w).key \in Keys
<1>1. Req(w) \in Menu[w]
  BY BusyRequest DEF Base, NoRequest
<1> QED
  BY <1>1, MenuType DEF WellFormed

LEMMA PagesAre ==
    /\ \A p : Page(p).page = p
    /\ \A k : Redirect(k).page = "redirect"
    /\ \A t, u : Shown(t, u).page = "shown"
BY DEF Page, Redirect, Shown, NoAnswer

\* A wrong credential is none of the entry's.
LEMMA WrongIsWrong ==
    ASSUME Base, NEW w \in Workers, WrongCredential(w)
    PROVE  AsksForOther(Req(w))
<1>1. /\ worker[w].pc \in HasKey /\ ~CodeFits(w) /\ ~PasswordFits(w)
  BY DEF WrongCredential, Presents, At, HasKey, HalfDone
<1>2. /\ worker[w].key = Req(w).key /\ stored[worker[w].key] # None /\ worker[w].key \in Keys
      /\ Req(w) \in Menu[w]
  BY <1>1, Opening DEF Base
<1> DEFINE f == heap[Target(w)]
           h == Held(w)
<1>3. h.password = f.password /\ h.totp = f.totp /\ f \in Entries
  BY <1>1, <1>2, StoredEntry DEF Base, CreatorsAlone, Target
<1>4. /\ f.password \in Passwords \cup {None} /\ f.totp \in Secrets \cup {None}
      /\ Req(w).password \in Passwords \cup {None} /\ Req(w).code \in Secrets \cup {None}
  BY <1>2, <1>3, EntryParts, MenuType
<1>5. /\ ~(h.totp # None /\ Req(w).code # None /\ Req(w).code = h.totp)
      /\ ~(h.totp = None /\ Req(w).password # None /\ h.password # None
             /\ h.password = Req(w).password)
  BY <1>1 DEF CodeFits, PasswordFits, ValidateTOTP, verifyPassword
<1> HIDE DEF f, h
<1>6. Credential(f) \notin {Req(w).password, Req(w).code} \ {None}
  BY <1>3, <1>4, <1>5, EntryAssumption DEF Credential
<1> QED
  BY <1>2, <1>6 DEF AsksForOther, f, Target

\* A right password opens what it fits where nobody has changed the salt since.
LEMMA DecryptWorks ==
    ASSUME Base, EntriesSound, NEW w \in Workers, At(w, "decrypt"), ~EditSince(w)
    PROVE  Unseal(Held(w).enc, worker[w].salt, Req(w).password) # Failed
<1> DEFINE h == Held(w)
           p == Req(w).password
           s == worker[w].salt
           id == worker[w].entry
<1>1. /\ worker[w].pc \in HasKey /\ Req(w).op = "post" /\ PasswordFits(w)
  BY DEF Base, IInv, RequestFits, CredentialFits, At, HasKey, Req, HalfDone, Sealing, Clearing
<1>2. /\ Req(w) \in Menu[w] /\ worker[w].key = Req(w).key /\ id # None
      /\ id[1] = worker[w].key
  BY <1>1, Opening DEF Base
<1>3. id \in Ids /\ h # None /\ h \in Entries
  BY <1>2, HeldEntry DEF Base
<1>4. ~BeingEdited(id)
  <2>1. ASSUME NEW v \in Workers, worker[v].entry = id, worker[v].pc \in HalfDone
        PROVE  FALSE
    <3>1. v # w /\ worker[v].pc \in Edits
      BY <2>1 DEF At, Edits, HalfDone
    <3>2. worker[v].key = worker[w].key
      BY <1>2, <2>1, <3>1, EditingRequest
    <3> QED
      BY <2>1, <3>1, <3>2 DEF EditSince
  <2> QED
    BY <2>1 DEF BeingEdited
<1>5. Sound(h)
  BY <1>3, <1>4 DEF EntriesSound, Held
<1>6. h.enc # None /\ s = h.salt
  BY DEF EditSince
<1>7. h.enc \in Cipher
  BY <1>3, <1>6, EntryParts
<1>8. p = h.password
  BY <1>1 DEF PasswordFits, verifyPassword
<1> HIDE DEF h, p, s, id
<1>9. /\ h.enc.key \in CipherKey /\ h.enc.key.salt = s /\ h.enc.key.password = p
      /\ h.enc.text \in Texts
  BY <1>5, <1>6, <1>7, <1>8 DEF Sound, Cipher
<1>10. s \in Salts /\ s # None /\ h.enc.key = deriveKey(p, s)
  BY <1>9, EntryAssumption DEF CipherKey, deriveKey
<1>11. Unseal(h.enc, s, p) = h.enc.text
  BY <1>6, <1>10 DEF Unseal, decrypt
<1>12. Unseal(h.enc, s, p) # Failed
  BY <1>9, <1>11, EntryAssumption
<1> QED
  BY <1>12 DEF h, s, p

\* Who is refused at a key has been asked for its credential.
LEMMA WhoRefuses ==
    ASSUME Base, NEW w \in Workers, Step(w), Req(w).op = "post",
           worker'[w].pc = "idle", answer'[w].page = "wrong"
    PROVE  \/ WrongCredential(w)
           \/ /\ At(w, "decrypt")
              /\ Unseal(Held(w).enc, worker[w].salt, Req(w).password) = Failed
<1>1. worker \in Locals
  BY LocalsType DEF Base
<1>2. ASSUME NEW a, Finish(w, a)
      PROVE  a.page = "wrong"
  BY <1>2, TypeParts DEF Base, Finish
<1>3. /\ ~\E k : Finish(w, Redirect(k))
      /\ ~\E t, u : Finish(w, Shown(t, u))
      /\ ~Finish(w, Page("home")) /\ ~Finish(w, Page("lock"))
  BY <1>2, PagesAre
<1>4. ASSUME NextTry(w)
      PROVE  FALSE
  <2> DEFINE n == worker[w].i + 1
  <2>1. worker' = [worker EXCEPT ![w] = [Rest(Req(w)) EXCEPT !.pc = "probe", !.i = n]]
    BY <1>4 DEF NextTry
  <2> HIDE DEF n
  <2> QED
    BY <1>1, <2>1 DEF Rest, Req, Locals
<1>5. ASSUME NEW pc, pc # "idle", Goto(w, pc)
      PROVE  FALSE
  BY <1>1, <1>5 DEF Goto, Locals
<1>6. ASSUME NEW text, ShowOrUpdate(w, text)
      PROVE  FALSE
  BY <1>3, <1>5, <1>6 DEF ShowOrUpdate
<1>7. ~ProbeEmpty(w) /\ ~CompareSealed(w) /\ ~ReadSalt(w)
  BY <1>1 DEF ProbeEmpty, CompareSealed, ReadSalt, Locals
<1>8. ~ProbeTaken(w) /\ ~Lookup(w)
  <2>1. ASSUME NEW k, NEW id, NEW pc, pc # "idle", GetsInto(w, k, id, pc)
        PROVE  FALSE
    BY <1>1, <2>1 DEF GetsInto, Locals
  <2> QED
    BY <2>1 DEF ProbeTaken, Lookup
<1>9. ~UpdateSalt(w) /\ ~WriteText(w) /\ ~UpdateUnsealed(w)
  BY <1>1 DEF UpdateSalt, WriteText, UpdateUnsealed, EditsInto, Locals
<1>10. ASSUME PickKey(w)
       PROVE  FALSE
  <2>1. PICK k : worker' = IF stored[k] = None
                           THEN [worker EXCEPT ![w].key = k, ![w].pc = "put"]
                           ELSE [worker EXCEPT ![w].i = worker[w].i + 1]
    BY <1>10 DEF PickKey
  <2>2. worker[w].pc = "pick"
    BY <1>10 DEF PickKey, At
  <2>3. CASE stored[k] = None
    BY <1>1, <2>1, <2>3 DEF Locals
  <2>4. CASE stored[k] # None
    BY <1>1, <2>1, <2>2, <2>4 DEF Locals
  <2> QED
    BY <2>3, <2>4
<1>11. ~CompareDecrypted(w) /\ ~ComparePlain(w) /\ ~CompareOther(w)
  BY <1>3, <1>4 DEF CompareDecrypted, ComparePlain, CompareOther, FoundSame
<1>12. ~Create(w) /\ ~PutTOTP(w) /\ ~LookupNothing(w) /\ ~ShowOrLock(w) /\ ~Reread(w)
  BY <1>3 DEF Create, PutTOTP, LookupNothing, ShowOrLock, Reread
<1>13. ~SetupRefused(w)
  BY SettingUp DEF Base, SetupRefused, At
<1>14. ~SetupVerified(w) /\ ~ShowTOTP(w) /\ ~ShowUnsealed(w)
  BY <1>3, <1>5, <1>6 DEF SetupVerified, ShowTOTP, ShowUnsealed
<1>15. ~FieldStep(w) /\ ~WriteRest(w)
  BY <1>3, <1>5, FieldGoesOn DEF Base, LastWrite, WriteRest
<1>16. CASE Decrypt(w)
  BY <1>6, <1>16 DEF Decrypt
<1> QED
  BY <1>7, <1>8, <1>9, <1>10, <1>11, <1>12, <1>13, <1>14, <1>15, <1>16 DEF Step, FieldStep

\* With either store, and whoever else opens or edits: a page that refuses
\* (handleView's wrong password) has seen neither the password nor the code
\* that the key is saved under, unless another request is inside an edit of that
\* entry or has replaced the salt that DecryptWithPassword was given.  Those
\* that create, and those that edit, want different keys at the same time.
THEOREM OnlyEditsRefuse ==
    ASSUME MenusApart
    PROVE  Spec => RefusedOnlyByEdits
<1> DEFINE Inv == Base /\ EntriesSound /\ PromisesFit
<1>1. Inv /\ [Next]_vars => Inv'
  BY NextFits
<1>2. Init => Inv
  BY InitFits
<1>3. ASSUME Inv, Next, NEW w \in Workers, TurnsAway(w)
      PROVE  EditSince(w)
  <2>1. PICK v \in Workers : Step(v) \/ \E r \in Menu[v] : Accept(v, r)
    BY <1>3 DEF Next
  <2>2. v = w
    BY <1>3, <2>1, StepGoesOn, AcceptInv DEF Base, GoesOn, TurnsAway, At
  <2>3. Step(w)
    BY <1>3, <2>1, <2>2 DEF Accept, TurnsAway
  <2>4. CASE WrongCredential(w)
    <3>1. AsksForOther(Req(w)) /\ Req(w).key \in Keys
      BY <1>3, <2>4, PostKey, WrongIsWrong DEF TurnsAway
    <3>2. promise[Req(w).key].cred = Credential(heap[stored[Req(w).key]])
      BY <1>3, <3>1 DEF PromisesFit, TurnsAway
    <3> QED
      BY <1>3, <3>1, <3>2 DEF AsksForOther, TurnsAway
  <2> QED
    BY <1>3, <2>3, <2>4, WhoRefuses, DecryptWorks DEF TurnsAway
<1>4. Inv /\ [Next]_vars => [\A w \in Workers : TurnsAway(w) => EditSince(w)]_vars
  BY <1>3
<1> QED
  BY <1>1, <1>2, <1>4, PTL DEF Spec, RefusedOnlyByEdits

-----------------------------------------------------------------------------
(* Entries that settle *)

\* A new entry is put at the key of a request that creates.
LEMMA StoredChanges ==
    ASSUME IInv, NEW w \in Workers, Step(w) \/ \E r \in Menu[w] : Accept(w, r),
           NEW k \in Keys, stored'[k] # stored[k]
    PROVE  (Create(w) \/ PutTOTP(w)) /\ k = worker[w].key
<1>1. stored' # stored
  OBVIOUS
<1>2. ~QuietStep(w)
  BY <1>1, QuietSteps
<1>3. ~FieldStep(w) /\ ~WriteRest(w)
  BY <1>1, FieldMoves, WriteRestMoves
<1>4. Create(w) \/ PutTOTP(w)
  BY <1>1, <1>2, <1>3
     DEF Step, QuietStep, FieldStep, Lookup, ProbeTaken, UpdateSalt, UpdateUnsealed, WriteText
<1>5. PICK e : Put(worker[w].key, e)
  BY <1>4 DEF Create, PutTOTP
<1> QED
  BY <1>4, <1>5, TypeParts DEF Put

\* A request gets to its Put by finding a key empty.
LEMMA OnlyFromEmpty ==
    ASSUME IInv, NEW w \in Workers, Step(w) \/ \E r \in Menu[w] : Accept(w, r),
           worker'[w].pc \in {"create", "put"}
    PROVE  /\ worker'[w].pc = "put" => PickKey(w)
           /\ UNCHANGED stored /\ stored[worker'[w].key] = None
<1>1. worker \in Locals
  BY LocalsType
<1>2. ~Create(w) /\ ~PutTOTP(w)
  BY FinishedPc DEF Create, PutTOTP
<1>3. ~Lookup(w) /\ ~ProbeTaken(w)
  BY <1>1 DEF Lookup, ProbeTaken, GetsInto, Locals
<1>4. ~UpdateSalt(w) /\ ~WriteText(w) /\ ~UpdateUnsealed(w)
  BY <1>1 DEF UpdateSalt, WriteText, UpdateUnsealed, EditsInto, Locals
<1>5. ~FieldStep(w) /\ ~WriteRest(w)
  BY FieldPcs, WriteRestMoves
<1>6. QuietStep(w)
  BY <1>2, <1>3, <1>4, <1>5 DEF Step, QuietStep, FieldStep
<1>7. ProbeEmpty(w) \/ PickKey(w)
  BY <1>6, QuietPcs
<1>8. CASE ProbeEmpty(w)
  BY <1>1, <1>6, <1>8, QuietSteps DEF ProbeEmpty, Locals
<1>9. CASE PickKey(w)
  <2>1. PICK k : worker' = IF stored[k] = None
                           THEN [worker EXCEPT ![w].key = k, ![w].pc = "put"]
                           ELSE [worker EXCEPT ![w].i = worker[w].i + 1]
    BY <1>9 DEF PickKey
  <2>2. worker[w].pc = "pick"
    BY <1>9 DEF PickKey, At
  <2>3. stored[k] = None
    BY <1>1, <2>1, <2>2 DEF Locals
  <2> QED
    BY <1>1, <1>6, <1>9, <2>1, <2>3, QuietPcs, QuietSteps DEF Locals
<1> QED
  BY <1>6, <1>7, <1>8, <1>9, QuietPcs

\* However many requests create, edit and open entries at the same time, over
\* either store: once nobody is left who found the key empty and is about to put
\* there (GenerateShortcode, GenerateRandomShortcode and their callers), nobody
\* will be again, and the entry is never replaced.  Nothing is assumed of what
\* is requested.
THEOREM EntriesStayOnceSettled == Spec => EntriesSettle
<1>1. ASSUME IInv, Next, NEW k \in Keys, Settled(k)
      PROVE  Settled(k)' /\ stored'[k] = stored[k]
  <2>1. PICK w \in Workers : Step(w) \/ \E r \in Menu[w] : Accept(w, r)
    BY <1>1 DEF Next
  <2>2. stored'[k] = stored[k]
    BY <1>1, <2>1, StoredChanges DEF Settled, Create, PutTOTP, At
  <2>3. \A v \in Workers \ {w} : worker'[v] = worker[v]
    BY <1>1, <2>1, StepGoesOn, AcceptInv DEF GoesOn
  <2>4. worker'[w].pc \in {"create", "put"} => worker'[w].key # k
    BY <1>1, <2>1, OnlyFromEmpty DEF Settled
  <2> QED
    BY <1>1, <2>2, <2>3, <2>4 DEF Settled
<1>2. IInv /\ [Next]_vars =>
          [\A k \in Keys : Settled(k) => Settled(k)' /\ stored'[k] = stored[k]]_vars
  BY <1>1
<1> QED
  BY <1>2, InitInv, NextInv, PTL DEF Spec, EntriesSettle

-----------------------------------------------------------------------------
(* One key for each note *)

\* Different notes that are generated at the same time have different keys; the
\* same note may be generated by any number of requests.
NotesApart ==
    \A v, w \in Workers : v # w =>
        \A q \in Menu[v], r \in Menu[w] :
            q.op = "generate" /\ r.op = "generate" =>
                \/ q.text = r.text /\ q.password = r.password
                \/ CreatedKeys(q) \cap CreatedKeys(r) = {}

\* Nobody edits an entry with a password.
NoPasswordEdits == \A r \in Requests : IsEdit(r) => r.password = None

NotesMenus == RandomApart /\ NotesApart /\ NoLongPasswords /\ NoPasswordEdits

NoteOf(w) == [text |-> Req(w).text, cred |-> Req(w).password]
FreeKeys == Keys \ RandomKeySet

\* What createEntry makes of a note, and nobody edits.
ShortNotes == [text : Texts, cred : (Passwords \ LongPasswords) \cup {None}]
Notes(n) ==
    IF n.cred = None
    THEN {PublicEntry(n.text)}
    ELSE {PasswordEntry(n.text, n.cred, FirstSalt), UnsealedEntry(n.text, n.cred)}

\* A key that is not for note n: it was given to another one.
GivenAway(k, n) == k \in FreeKeys /\ stored[k] # None /\ promise[k] # n

\* Key k is the first of the keys of note n that is not given to another.
FirstFor(k, n) ==
    LET keys == Candidates[<<n.text, n.cred>>]
    IN  \E i \in DOMAIN keys : k = keys[i] /\ \A j \in 1 .. i - 1 : GivenAway(keys[j], n)

NotesInPlace ==
    /\ \A k \in FreeKeys : promise[k] # None => stored[k] # None
    /\ \A k \in FreeKeys : stored[k] # None =>
           /\ promise[k] \in ShortNotes /\ heap[stored[k]] \in Notes(promise[k])
           /\ FirstFor(k, promise[k])
    /\ \A k \in RandomKeySet : promise[k] # None => promise[k].cred \in Secrets

\* How far the request of w has come in its search, and what it compares with.
Searches(w) ==
    LET l == worker[w]
    IN  /\ l.pc \in {"probe", "same", "unseal", "create"} =>
              \A j \in 1 .. l.i - 1 : GivenAway(Candidates[TriedData(w)][j], NoteOf(w))
        /\ l.pc = "create" =>
              /\ l.i \in DOMAIN Candidates[TriedData(w)] /\ l.key = Try(w)
              /\ stored[l.key] # None => promise[l.key] = NoteOf(w)
        /\ l.pc \in {"same", "unseal"} => Held(w) \in Notes(promise[Try(w)])
        /\ l.pc = "unseal" =>
              Held(w).enc # None /\ l.salt = Held(w).salt /\ Held(w).password = Req(w).password
        /\ l.pc \in {"write", "reread"} => l.key \in RandomKeySet /\ Req(w).code # None

InPlaceAll == NotesInPlace /\ \A w \in Workers : Searches(w)

\* isSameEntry, on what it reads of an entry.
SameAs(e, n) ==
    IF n.cred = None
    THEN e.password = None /\ e.text = n.text
    ELSE /\ e.password = n.cred
         /\ IF e.enc = None THEN e.text = n.text ELSE Unseal(e.enc, e.salt, n.cred) = n.text

\* It tells the entries of different notes apart.
LEMMA SameNote ==
    ASSUME NEW m \in ShortNotes, NEW n \in ShortNotes, NEW e \in Notes(m)
    PROVE  SameAs(e, n) <=> m = n
<1>1. m = n <=> m.text = n.text /\ m.cred = n.cred
  BY DEF ShortNotes
<1>2. /\ m.text \in Texts /\ n.text \in Texts /\ m.text # None /\ n.text # None
      /\ n.text # Failed /\ m.text # Failed
  BY EntryAssumption DEF ShortNotes
<1>3. CASE m.cred = None
  <2>1. e.password = None /\ e.text = m.text
    BY <1>3 DEF Notes, PublicEntry
  <2> QED
    BY <1>1, <1>3, <2>1 DEF SameAs
<1>4. CASE m.cred # None
  <2>1. m.cred \notin LongPasswords /\ hashPassword(m.cred) = m.cred
    BY <1>4 DEF ShortNotes, hashPassword
  <2>2. CASE e = PasswordEntry(m.text, m.cred, FirstSalt)
    <3>1. /\ e.password = m.cred /\ e.salt = FirstSalt /\ e.text = None
          /\ e.enc = [key |-> [password |-> m.cred, salt |-> FirstSalt], text |-> m.text]
      BY <2>1, <2>2 DEF PasswordEntry, PublicEntry, encrypt, deriveKey
    <3>2. e.enc # None /\ e.salt # None
      <4>1. e.enc \in Cipher
        BY <1>2, <1>4, <3>1, FirstSaltType DEF Cipher, CipherKey, ShortNotes
      <4> QED
        BY <3>1, <4>1, FirstSaltType, EntryAssumption
    <3>3. ASSUME n.cred = m.cred
          PROVE  Unseal(e.enc, e.salt, n.cred) = m.text
      BY <3>1, <3>2, <3>3 DEF Unseal, decrypt, deriveKey
    <3> QED
      BY <1>1, <1>4, <3>1, <3>2, <3>3 DEF SameAs
  <2>3. CASE e = UnsealedEntry(m.text, m.cred)
    <3>1. e.password = m.cred /\ e.enc = None /\ e.text = m.text
      BY <2>1, <2>3 DEF UnsealedEntry, PublicEntry
    <3> QED
      BY <1>1, <1>4, <3>1 DEF SameAs
  <2> QED
    BY <1>4, <2>2, <2>3 DEF Notes
<1> QED
  BY <1>3, <1>4

\* The keys that a request tries are nobody's codes.
LEMMA TriesFree ==
    ASSUME RandomApart, NoLongPasswords, IInv, NEW w \in Workers,
           worker[w].pc \in {"probe", "same", "unseal", "create"}
    PROVE  /\ NoteOf(w) \in ShortNotes /\ CreatedKeys(Req(w)) \subseteq FreeKeys
           /\ Req(w) \in Menu[w] /\ Req(w).op = "generate"
           /\ worker[w].i \in DOMAIN Candidates[TriedData(w)]
                  => Try(w) \in FreeKeys /\ Try(w) \in CreatedKeys(Req(w))
           /\ Candidates[TriedData(w)] = Candidates[<<NoteOf(w).text, NoteOf(w).cred>>]
<1>1. /\ Req(w) \in Menu[w] /\ Req(w).op = "generate" /\ Req(w).text \in Texts
      /\ Req(w).password \in Passwords \cup {None} /\ CreatedKeys(Req(w)) \subseteq Keys
      /\ worker[w].i \in DOMAIN Candidates[TriedData(w)] => Try(w) \in CreatedKeys(Req(w))
  BY Generating
<1>2. Req(w) \in Requests
  BY <1>1, MenuType
<1>3. CreatedKeys(Req(w)) \cap RandomKeySet = {} /\ Req(w).password \notin LongPasswords
  BY <1>1, <1>2 DEF RandomApart, NoLongPasswords
<1>4. NoteOf(w) \in ShortNotes
  BY <1>1, <1>3 DEF NoteOf, ShortNotes
<1> QED
  BY <1>1, <1>3, <1>4 DEF FreeKeys, NoteOf, TriedData

\* What a step of w owes to this invariant.
LEMMA SearchStep ==
    ASSUME RandomApart, NotesApart, NoLongPasswords, IInv, InPlaceAll,
           NEW w \in Workers, GoesOn(w),
           \A id \in Ids : id \in InUse /\ id[1] \in FreeKeys => heap'[id] = heap[id],
           \A k \in FreeKeys :
               \/ stored'[k] = stored[k] /\ promise'[k] = promise[k]
               \/ /\ At(w, "create") /\ k = worker[w].key
                  /\ stored'[k] # None /\ promise'[k] = NoteOf(w)
                  /\ heap'[stored'[k]] \in Notes(NoteOf(w)),
           \A k \in RandomKeySet : promise'[k] # None => promise'[k].cred \in Secrets,
           Searches(w)'
    PROVE  InPlaceAll'
<1>1. ASSUME NEW v \in Workers \ {w}
      PROVE  worker'[v] = worker[v]
  BY DEF GoesOn
<1>2. ASSUME At(w, "create")
      PROVE  /\ NoteOf(w) \in ShortNotes /\ worker[w].key \in CreatedKeys(Req(w))
             /\ Req(w) \in Menu[w] /\ Req(w).op = "generate"
             /\ stored[worker[w].key] # None => promise[worker[w].key] = NoteOf(w)
             /\ FirstFor(worker[w].key, NoteOf(w))
  <2>1. /\ worker[w].i \in DOMAIN Candidates[TriedData(w)] /\ worker[w].key = Try(w)
        /\ stored[worker[w].key] # None => promise[worker[w].key] = NoteOf(w)
        /\ \A j \in 1 .. worker[w].i - 1 : GivenAway(Candidates[TriedData(w)][j], NoteOf(w))
    BY <1>2 DEF InPlaceAll, Searches, At
  <2>2. /\ NoteOf(w) \in ShortNotes /\ Try(w) \in CreatedKeys(Req(w))
        /\ Req(w) \in Menu[w] /\ Req(w).op = "generate"
        /\ Candidates[TriedData(w)] = Candidates[<<NoteOf(w).text, NoteOf(w).cred>>]
    BY <1>2, <2>1, TriesFree DEF At
  <2>3. FirstFor(Try(w), NoteOf(w))
    BY <2>1, <2>2 DEF FirstFor, Try
  <2> QED
    BY <2>1, <2>2, <2>3
<1>3. ASSUME NEW k \in FreeKeys, stored[k] # None
      PROVE  stored'[k] # None /\ promise'[k] = promise[k]
  BY <1>2, <1>3
<1>4. ASSUME NEW k, NEW n, GivenAway(k, n)
      PROVE  k \in FreeKeys /\ stored'[k] # None /\ promise'[k] # n
  BY <1>3, <1>4 DEF GivenAway
<1>5. ASSUME NEW k, NEW n, FirstFor(k, n)
      PROVE  \E i \in DOMAIN Candidates[<<n.text, n.cred>>] :
                /\ k = Candidates[<<n.text, n.cred>>][i]
                /\ \A j \in 1 .. i - 1 :
                      LET c == Candidates[<<n.text, n.cred>>][j]
                      IN  c \in FreeKeys /\ stored'[c] # None /\ promise'[c] # n
  BY <1>4, <1>5 DEF FirstFor
<1>6. ASSUME NEW k \in FreeKeys
      PROVE  /\ promise'[k] # None => stored'[k] # None
             /\ stored'[k] # None =>
                    /\ promise'[k] \in ShortNotes /\ heap'[stored'[k]] \in Notes(promise'[k])
                    /\ FirstFor(k, promise[k])'
  <2>1. CASE stored'[k] = stored[k] /\ promise'[k] = promise[k]
    <3>1. promise[k] # None => stored[k] # None
      BY DEF InPlaceAll, NotesInPlace
    <3>2. ASSUME stored[k] # None
          PROVE  /\ promise[k] \in ShortNotes /\ heap'[stored[k]] \in Notes(promise[k])
                 /\ FirstFor(k, promise[k])'
      <4>1. /\ promise[k] \in ShortNotes /\ heap[stored[k]] \in Notes(promise[k])
            /\ FirstFor(k, promise[k])
        BY <3>2 DEF InPlaceAll, NotesInPlace
      <4>2. stored[k] \in Ids /\ stored[k][1] = k /\ stored[k] \in InUse
        BY <3>2, StoredEntry DEF FreeKeys
      <4>3. heap'[stored[k]] = heap[stored[k]]
        BY <4>2
      <4>4. FirstFor(k, promise[k])'
        BY <1>5, <2>1, <4>1 DEF FirstFor, GivenAway
      <4> QED
        BY <4>1, <4>3, <4>4
    <3> QED
      BY <2>1, <3>1, <3>2
  <2>2. CASE /\ At(w, "create") /\ k = worker[w].key
             /\ stored'[k] # None /\ promise'[k] = NoteOf(w)
             /\ heap'[stored'[k]] \in Notes(NoteOf(w))
    <3>1. NoteOf(w) \in ShortNotes /\ FirstFor(k, NoteOf(w))
      BY <1>2, <2>2
    <3>2. FirstFor(k, promise[k])'
      BY <1>5, <2>2, <3>1 DEF FirstFor, GivenAway
    <3> QED
      BY <2>2, <3>1, <3>2
  <2> QED
    BY <2>1, <2>2
<1>7. NotesInPlace'
  BY <1>6 DEF NotesInPlace
<1>8. ASSUME NEW v \in Workers \ {w}
      PROVE  Searches(v)'
  <2>1. /\ Searches(v) /\ Req(v)' = Req(v) /\ TriedData(v)' = TriedData(v)
        /\ NoteOf(v)' = NoteOf(v) /\ Try(v)' = Try(v) /\ worker'[v] = worker[v]
    BY <1>1 DEF InPlaceAll, Req, TriedData, NoteOf, Try
  <2>2. ASSUME worker[v].pc \in {"probe", "same", "unseal", "create"},
               NEW j \in 1 .. worker[v].i - 1
        PROVE  GivenAway(Candidates[TriedData(v)][j], NoteOf(v))'
    <3>1. GivenAway(Candidates[TriedData(v)][j], NoteOf(v))
      BY <2>1, <2>2 DEF Searches
    <3> QED
      BY <1>4, <2>1, <3>1 DEF GivenAway
  <2>3. ASSUME worker[v].pc = "create", stored'[worker[v].key] # None
        PROVE  promise'[worker[v].key] = NoteOf(v)
    <3> DEFINE k == worker[v].key
    <3>1. /\ worker[v].i \in DOMAIN Candidates[TriedData(v)] /\ k = Try(v)
          /\ stored[k] # None => promise[k] = NoteOf(v)
      BY <2>1, <2>3 DEF Searches
    <3>2. /\ k \in FreeKeys /\ k \in CreatedKeys(Req(v))
          /\ Req(v) \in Menu[v] /\ Req(v).op = "generate"
      BY <2>3, <3>1, TriesFree
    <3>3. CASE stored'[k] = stored[k]
      BY <1>3, <2>3, <3>1, <3>2, <3>3
    <3>4. CASE At(w, "create") /\ k = worker[w].key /\ promise'[k] = NoteOf(w)
      <4>1. /\ k \in CreatedKeys(Req(w)) /\ Req(w) \in Menu[w] /\ Req(w).op = "generate"
        BY <1>2, <3>4
      <4>2. Req(v).text = Req(w).text /\ Req(v).password = Req(w).password
        BY <3>2, <4>1 DEF NotesApart
      <4> QED
        BY <3>4, <4>2 DEF NoteOf
    <3> QED
      BY <3>2, <3>3, <3>4
  <2>4. ASSUME worker[v].pc \in {"same", "unseal"}
        PROVE  heap'[worker[v].entry] = Held(v) /\ promise'[Try(v)] = promise[Try(v)]
    <3>1. /\ worker[v].i \in DOMAIN Candidates[TriedData(v)] /\ stored[Try(v)] # None
          /\ worker[v].entry # None /\ worker[v].entry[1] = Try(v)
      BY <2>4 DEF IInv, RequestFits
    <3>2. Try(v) \in FreeKeys
      BY <2>4, <3>1, TriesFree
    <3>3. worker[v].entry \in Ids /\ worker[v].entry \in InUse
      BY <3>1, HeldEntry
    <3> QED
      BY <1>3, <3>1, <3>2, <3>3 DEF Held
  <2>5. worker[v].pc \in {"same", "unseal"} => Held(v)' = Held(v)
    BY <2>1, <2>4 DEF Held
  <2> QED
    BY <2>1, <2>2, <2>3, <2>4, <2>5 DEF Searches
<1> QED
  BY <1>7, <1>8 DEF InPlaceAll

\* Where a request of handleGenerate is in its search.
Searching == {"probe", "same", "unseal", "create"}
SearchInv == IInv /\ CodesApart /\ InPlaceAll

\* Steps that leave the keys, and the entries of others, as they are.
LEMMA SearchGoesOn ==
    ASSUME NotesMenus, SearchInv, NEW w \in Workers, GoesOn(w), UNCHANGED <<stored, promise>>,
           \A id \in Ids : id \in InUse /\ id[1] \in FreeKeys => heap'[id] = heap[id],
           Searches(w)'
    PROVE  InPlaceAll'
<1>1. \A k \in RandomKeySet : promise'[k] # None => promise'[k].cred \in Secrets
  BY DEF SearchInv, InPlaceAll, NotesInPlace
<1> QED
  BY <1>1, SearchStep DEF NotesMenus, SearchInv

LEMMA NoSearch ==
    ASSUME NEW w \in Workers, worker'[w].pc \notin Searching \cup {"write", "reread"}
    PROVE  Searches(w)'
BY DEF Searches, Searching

LEMMA NoLongerSearches ==
    ASSUME NotesMenus, SearchInv, NEW w \in Workers, GoesOn(w),
           UNCHANGED <<stored, heap, promise>>,
           worker'[w].pc \notin Searching \cup {"write", "reread"}
    PROVE  InPlaceAll'
BY NoSearch, SearchGoesOn

\* What a request that compares has before it.
LEMMA Compared ==
    ASSUME NotesMenus, SearchInv, NEW w \in Workers, worker[w].pc \in {"same", "unseal"}
    PROVE  /\ Try(w) \in FreeKeys /\ Try(w) \in Keys /\ stored[Try(w)] # None
           /\ worker[w].i \in DOMAIN Candidates[TriedData(w)]
           /\ SameAs(Held(w), NoteOf(w)) <=> promise[Try(w)] = NoteOf(w)
<1>1. /\ stored[Try(w)] # None /\ worker[w].i \in DOMAIN Candidates[TriedData(w)]
  BY DEF SearchInv, IInv, RequestFits
<1>2. Try(w) \in FreeKeys /\ NoteOf(w) \in ShortNotes
  BY <1>1, TriesFree DEF NotesMenus, SearchInv
<1>3. promise[Try(w)] \in ShortNotes /\ Held(w) \in Notes(promise[Try(w)])
  BY <1>1, <1>2 DEF SearchInv, InPlaceAll, NotesInPlace, Searches
<1>4. SameAs(Held(w), NoteOf(w)) <=> promise[Try(w)] = NoteOf(w)
  BY <1>2, <1>3, SameNote
<1> QED
  BY <1>1, <1>2, <1>4 DEF FreeKeys

\* isSameEntry says what it should.
LEMMA ComparesWell ==
    ASSUME NotesMenus, SearchInv, NEW w \in Workers,
           CompareDecrypted(w) \/ ComparePlain(w) \/ CompareOther(w)
    PROVE  /\ worker[w].pc \in {"same", "unseal"}
           /\ IF promise[Try(w)] = NoteOf(w) THEN FoundSame(w) ELSE NextTry(w)
<1>1. worker[w].pc \in {"same", "unseal"}
  BY DEF CompareDecrypted, ComparePlain, CompareOther, At
<1>2. SameAs(Held(w), NoteOf(w)) <=> promise[Try(w)] = NoteOf(w)
  BY <1>1, Compared
<1>3. NoteOf(w).text = Req(w).text /\ NoteOf(w).cred = Req(w).password
  BY DEF NoteOf
<1> DEFINE h == Held(w)
           n == NoteOf(w)
<1>4. CASE CompareDecrypted(w)
  <2>1. h.enc # None /\ worker[w].salt = h.salt /\ h.password = n.cred /\ n.cred # None
    BY <1>3, <1>4 DEF CompareDecrypted, SearchInv, IInv, CredentialFits, InPlaceAll, Searches, At,
                      HalfDone, Sealing, Clearing
  <2>2. IF Unseal(h.enc, h.salt, n.cred) = n.text THEN FoundSame(w) ELSE NextTry(w)
    BY <1>3, <1>4, <2>1 DEF CompareDecrypted
  <2> HIDE DEF h, n
  <2>3. SameAs(h, n) <=> Unseal(h.enc, h.salt, n.cred) = n.text
    BY <2>1 DEF SameAs
  <2> QED
    BY <1>1, <1>2, <2>2, <2>3 DEF h, n
<1>5. CASE ComparePlain(w)
  <2>1. /\ n.cred = None
        /\ IF h.password = None /\ h.text = n.text THEN FoundSame(w) ELSE NextTry(w)
    BY <1>3, <1>5 DEF ComparePlain
  <2> HIDE DEF h, n
  <2>2. SameAs(h, n) <=> h.password = None /\ h.text = n.text
    BY <2>1 DEF SameAs
  <2> QED
    BY <1>1, <1>2, <2>1, <2>2 DEF h, n
<1>6. CASE CompareOther(w)
  <2>1. /\ n.cred # None
        /\ \/ ~verifyPassword(h.password, n.cred) /\ NextTry(w)
           \/ /\ verifyPassword(h.password, n.cred) /\ h.enc = None
              /\ IF h.text = n.text THEN FoundSame(w) ELSE NextTry(w)
    BY <1>3, <1>6 DEF CompareOther
  <2> HIDE DEF h, n
  <2>2. /\ ~verifyPassword(h.password, n.cred) => ~SameAs(h, n)
        /\ verifyPassword(h.password, n.cred) /\ h.enc = None => (SameAs(h, n) <=> h.text = n.text)
    BY <2>1 DEF SameAs, verifyPassword
  <2> QED
    BY <1>1, <1>2, <2>1, <2>2 DEF h, n
<1> QED
  BY <1>4, <1>5, <1>6

LEMMA NextTrySearch ==
    ASSUME NotesMenus, SearchInv, NEW w \in Workers, GoesOn(w),
           worker[w].pc \in {"same", "unseal"}, promise[Try(w)] # NoteOf(w), NextTry(w)
    PROVE  InPlaceAll'
<1> DEFINE n == worker[w].i + 1
<1>1. worker' = [worker EXCEPT ![w] = [Rest(Req(w)) EXCEPT !.pc = "probe", !.i = n]]
  BY DEF NextTry
<1>2. worker[w].i \in Nat /\ 1 .. n - 1 = 1 .. worker[w].i
  BY TypeParts, LocalParts DEF SearchInv
<1> HIDE DEF n
<1>3. /\ worker'[w].pc = "probe" /\ worker'[w].i = n /\ worker'[w].req = worker[w].req
      /\ UNCHANGED <<stored, heap, promise>>
  BY <1>1, LocalsType DEF SearchInv, Rest, Req, Locals, NextTry
<1>4. TriedData(w)' = TriedData(w) /\ NoteOf(w)' = NoteOf(w)
  BY <1>3 DEF TriedData, NoteOf, Req
<1>5. ASSUME NEW j \in 1 .. worker[w].i
      PROVE  GivenAway(Candidates[TriedData(w)][j], NoteOf(w))
  <2>1. CASE j = worker[w].i
    BY <2>1, Compared DEF GivenAway, Try
  <2>2. CASE j # worker[w].i
    <3>1. j \in 1 .. worker[w].i - 1
      BY <1>2, <2>2
    <3> QED
      BY <3>1 DEF SearchInv, InPlaceAll, Searches
  <2> QED
    BY <2>1, <2>2
<1>6. Searches(w)'
  BY <1>2, <1>3, <1>4, <1>5 DEF Searches, GivenAway
<1> QED
  BY <1>3, <1>6, SearchGoesOn

LEMMA FoundSameSearch ==
    ASSUME NotesMenus, SearchInv, NEW w \in Workers, GoesOn(w),
           worker[w].pc \in {"same", "unseal"}, promise[Try(w)] = NoteOf(w), FoundSame(w)
    PROVE  InPlaceAll'
<1>1. Try(w) \in Keys
  BY Compared
<1>2. promise' = [promise EXCEPT ![Try(w)] = NoteOf(w)]
  BY DEF FoundSame, Promise, NoteOf
<1>3. UNCHANGED promise
  BY <1>1, <1>2, TypeParts DEF SearchInv, Promises
<1>4. worker'[w].pc = "idle" /\ UNCHANGED <<stored, heap>>
  BY FinishedPc DEF SearchInv, FoundSame
<1> QED
  BY <1>3, <1>4, NoLongerSearches DEF Searching

LEMMA AcceptSearch ==
    ASSUME NotesMenus, SearchInv, NEW w \in Workers, GoesOn(w), NEW r \in Menu[w], Accept(w, r)
    PROVE  InPlaceAll'
<1>1. /\ worker'[w].pc \in {"probe", "setup", "lookup"} /\ worker'[w].i = 1
      /\ UNCHANGED <<stored, heap, promise>>
  BY LocalsType DEF SearchInv, Accept, Rest, Locals
<1>2. Searches(w)'
  BY <1>1 DEF Searches
<1> QED
  BY <1>1, <1>2, SearchGoesOn

LEMMA QuietElsewhere ==
    ASSUME IInv, NEW w \in Workers, QuietStep(w),
           ~ProbeEmpty(w), ~CompareSealed(w), ~CompareDecrypted(w), ~ComparePlain(w),
           ~CompareOther(w), ~(\E r \in Menu[w] : Accept(w, r))
    PROVE  /\ UNCHANGED <<stored, heap, promise>>
           /\ worker'[w].pc \notin Searching \cup {"write", "reread"}
<1> DEFINE Goal == worker'[w].pc \notin Searching \cup {"write", "reread"}
<1>1. worker \in Locals
  BY LocalsType
<1>2. UNCHANGED <<stored, heap, promise>>
  <2>1. UNCHANGED <<stored, heap>>
    BY QuietSteps
  <2>2. UNCHANGED promise
    BY QuietPromise
  <2> QED
    BY <2>1, <2>2
<1>3. ASSUME NEW a, Finish(w, a)
      PROVE  Goal
  BY <1>3, FinishedPc DEF Searching
<1>4. CASE Goto(w, "pick") \/ Goto(w, "update")
  BY <1>1, <1>2, <1>4 DEF Goto, Locals, Searching
<1>5. CASE ReadSalt(w)
  BY <1>1, <1>2, <1>5 DEF ReadSalt, Locals, Searching
<1>6. CASE PickKey(w)
  <2>1. PICK k \in RandomKeys[worker[w].i] :
            worker' = IF stored[k] = None
                      THEN [worker EXCEPT ![w].key = k, ![w].pc = "put"]
                      ELSE [worker EXCEPT ![w].i = worker[w].i + 1]
    BY <1>6 DEF PickKey
  <2>2. worker[w].pc = "pick"
    BY <1>6 DEF PickKey, At
  <2>3. worker'[w].pc \in {"pick", "put"}
    <3>1. CASE stored[k] = None
      BY <1>1, <2>1, <3>1 DEF Locals
    <3>2. CASE stored[k] # None
      BY <1>1, <2>1, <2>2, <3>2 DEF Locals
    <3> QED
      BY <3>1, <3>2
  <2> QED
    BY <1>2, <2>3 DEF Searching
<1>7. CASE SetupRefused(w) \/ LookupNothing(w) \/ ShowOrLock(w) \/ WrongCredential(w) \/ Reread(w)
  BY <1>3, <1>7 DEF SetupRefused, LookupNothing, ShowOrLock, WrongCredential, Reread
<1>8. CASE SetupVerified(w) \/ ShowTOTP(w) \/ ShowUnsealed(w) \/ Decrypt(w)
  BY <1>3, <1>4, <1>8 DEF SetupVerified, ShowTOTP, ShowUnsealed, Decrypt, ShowOrUpdate
<1> QED
  BY <1>2, <1>5, <1>6, <1>7, <1>8 DEF QuietStep

LEMMA ProbeEmptySearch ==
    ASSUME NotesMenus, SearchInv, NEW w \in Workers, GoesOn(w), ProbeEmpty(w)
    PROVE  InPlaceAll'
<1> DEFINE k == Try(w)
<1>1. /\ worker[w].pc = "probe" /\ worker[w].i \in DOMAIN Candidates[TriedData(w)]
      /\ stored[k] = None /\ worker' = [worker EXCEPT ![w].key = k, ![w].pc = "create"]
      /\ UNCHANGED <<stored, heap, promise>>
  BY DEF ProbeEmpty, Probing, At
<1> HIDE DEF k
<1>2. /\ worker'[w].pc = "create" /\ worker'[w].key = k /\ worker'[w].i = worker[w].i
      /\ worker'[w].req = worker[w].req
  BY <1>1, LocalsType DEF SearchInv, Locals
<1>3. TriedData(w)' = TriedData(w) /\ NoteOf(w)' = NoteOf(w) /\ Try(w)' = k
  BY <1>2 DEF TriedData, NoteOf, Req, Try, k
<1>4. \A j \in 1 .. worker[w].i - 1 : GivenAway(Candidates[TriedData(w)][j], NoteOf(w))
  BY <1>1 DEF SearchInv, InPlaceAll, Searches
<1>5. Searches(w)'
  BY <1>1, <1>2, <1>3, <1>4 DEF Searches, GivenAway
<1> QED
  BY <1>1, <1>5, SearchGoesOn

LEMMA CompareSealedSearch ==
    ASSUME NotesMenus, SearchInv, NEW w \in Workers, GoesOn(w), CompareSealed(w)
    PROVE  InPlaceAll'
<1> DEFINE s == Held(w).salt
<1>1. /\ worker[w].pc = "same" /\ Held(w).password = Req(w).password /\ Held(w).enc # None
      /\ worker' = [worker EXCEPT ![w].salt = s, ![w].pc = "unseal"]
      /\ UNCHANGED <<stored, heap, promise>>
  BY DEF CompareSealed, verifyPassword, At
<1> HIDE DEF s
<1>2. /\ worker'[w].pc = "unseal" /\ worker'[w].salt = s /\ worker'[w].i = worker[w].i
      /\ worker'[w].req = worker[w].req /\ worker'[w].entry = worker[w].entry
  BY <1>1, LocalsType DEF SearchInv, Locals
<1>3. /\ TriedData(w)' = TriedData(w) /\ NoteOf(w)' = NoteOf(w) /\ Try(w)' = Try(w)
      /\ Req(w)' = Req(w) /\ Held(w)' = Held(w)
  BY <1>1, <1>2 DEF TriedData, NoteOf, Req, Try, Held
<1>4. /\ \A j \in 1 .. worker[w].i - 1 : GivenAway(Candidates[TriedData(w)][j], NoteOf(w))
      /\ Held(w) \in Notes(promise[Try(w)])
  BY <1>1 DEF SearchInv, InPlaceAll, Searches
<1>5. Searches(w)'
  BY <1>1, <1>2, <1>3, <1>4 DEF Searches, GivenAway, s
<1> QED
  BY <1>1, <1>5, SearchGoesOn

\* A Get changes no entry that somebody uses.
LEMMA GetUses ==
    ASSUME IInv, NEW w \in Workers, NEW k \in Keys, stored[k] # None,
           NEW id \in Ids, NEW pc \in Pcs, GetsInto(w, k, id, pc), UNCHANGED stored
    PROVE  \A j \in Ids : j \in InUse => heap'[j] = heap[j]
BY GetGoesOn

LEMMA ProbeTakenSearch ==
    ASSUME NotesMenus, SearchInv, NEW w \in Workers, GoesOn(w), ProbeTaken(w)
    PROVE  InPlaceAll'
<1>1. PICK id \in Ids : GetsInto(w, Try(w), id, "same")
  BY DEF ProbeTaken
<1>2. /\ worker[w].pc = "probe" /\ worker[w].i \in DOMAIN Candidates[TriedData(w)]
      /\ stored[Try(w)] # None /\ UNCHANGED <<stored, promise>>
  BY DEF ProbeTaken, Probing, At
<1>3. Try(w) \in FreeKeys /\ Try(w) \in Keys
  BY <1>2, TriesFree DEF NotesMenus, SearchInv, FreeKeys
<1>4. heap'[id] = heap[stored[Try(w)]] /\ \A j \in Ids : j \in InUse => heap'[j] = heap[j]
  BY <1>1, <1>2, <1>3, GetGoesOn, GetUses DEF SearchInv, Pcs, HalfDone
<1>5. /\ worker'[w].pc = "same" /\ worker'[w].entry = id /\ worker'[w].i = worker[w].i
      /\ worker'[w].req = worker[w].req
  BY <1>1, LocalsType DEF SearchInv, GetsInto, Locals
<1>6. /\ TriedData(w)' = TriedData(w) /\ NoteOf(w)' = NoteOf(w) /\ Try(w)' = Try(w)
      /\ Held(w)' = heap[stored[Try(w)]]
  BY <1>4, <1>5 DEF TriedData, NoteOf, Req, Try, Held
<1>7. /\ \A j \in 1 .. worker[w].i - 1 : GivenAway(Candidates[TriedData(w)][j], NoteOf(w))
      /\ heap[stored[Try(w)]] \in Notes(promise[Try(w)])
  BY <1>2, <1>3 DEF SearchInv, InPlaceAll, NotesInPlace, Searches
<1>8. Searches(w)'
  BY <1>2, <1>5, <1>6, <1>7 DEF Searches, GivenAway
<1> QED
  BY <1>2, <1>4, <1>8, SearchGoesOn

LEMMA LookupSearch ==
    ASSUME NotesMenus, SearchInv, NEW w \in Workers, GoesOn(w), Lookup(w)
    PROVE  InPlaceAll'
<1>1. PICK id \in Ids : GetsInto(w, worker[w].key, id, "view")
  BY DEF Lookup
<1>2. worker[w].key \in Keys /\ stored[worker[w].key] # None /\ UNCHANGED <<stored, promise>>
  BY Opening DEF SearchInv, Lookup, At
<1>3. \A j \in Ids : j \in InUse => heap'[j] = heap[j]
  BY <1>1, <1>2, GetUses DEF SearchInv, Pcs, HalfDone
<1>4. worker'[w].pc = "view"
  BY <1>1, LocalsType DEF SearchInv, GetsInto, Locals
<1> QED
  BY <1>2, <1>3, <1>4, NoSearch, SearchGoesOn DEF Searching

\* createEntry puts the note in its place.
LEMMA CreateSearch ==
    ASSUME NotesMenus, SearchInv, NEW w \in Workers, GoesOn(w), Create(w)
    PROVE  InPlaceAll'
<1> DEFINE k == worker[w].key
           n == NoteOf(w)
<1>1. PICK e \in Notes(n) : Put(k, e)
  BY DEF Create, NoteOf, Notes
<1>2. /\ At(w, "create") /\ promise' = [promise EXCEPT ![k] = n]
  BY DEF Create, Promise, NoteOf
<1>3. k \in Keys /\ k \in FreeKeys
  <2>1. worker[w].i \in DOMAIN Candidates[TriedData(w)] /\ k = Try(w)
    BY <1>2 DEF SearchInv, InPlaceAll, Searches, At
  <2> QED
    BY <1>2, <2>1, TriesFree DEF NotesMenus, SearchInv, FreeKeys, At
<1>4. NewId(k) \in Ids /\ NewId(k) \notin InUse /\ NewId(k) # None
  BY <1>3, NewIdIsFree, StoreAssumption DEF SearchInv
<1>5. worker'[w].pc = "idle"
  BY FinishedPc DEF SearchInv, Create
<1> HIDE DEF k, n
<1>6. /\ stored' = [stored EXCEPT ![k] = NewId(k)] /\ heap' = [heap EXCEPT ![NewId(k)] = e]
  BY <1>1 DEF Put
<1>7. /\ stored'[k] = NewId(k) /\ promise'[k] = n /\ heap'[NewId(k)] = e
      /\ \A j \in Keys \ {k} : stored'[j] = stored[j] /\ promise'[j] = promise[j]
      /\ \A id \in Ids : id \in InUse => heap'[id] = heap[id]
  BY <1>2, <1>3, <1>4, <1>6, TypeParts DEF SearchInv, Promises
<1>8. \A j \in FreeKeys :
         \/ stored'[j] = stored[j] /\ promise'[j] = promise[j]
         \/ /\ At(w, "create") /\ j = worker[w].key
            /\ stored'[j] # None /\ promise'[j] = NoteOf(w)
            /\ heap'[stored'[j]] \in Notes(NoteOf(w))
  BY <1>1, <1>2, <1>4, <1>7 DEF FreeKeys, k, n
<1>9. \A j \in RandomKeySet : promise'[j] # None => promise'[j].cred \in Secrets
  <2> SUFFICES ASSUME NEW j \in RandomKeySet
               PROVE  j \in Keys \ {k}
    BY <1>7 DEF SearchInv, InPlaceAll, NotesInPlace
  <2>1. j \in Keys
    BY StoreAssumption DEF RandomKeySet
  <2> QED
    BY <1>3, <2>1 DEF FreeKeys
<1>10. Searches(w)'
  BY <1>5, NoSearch DEF Searching
<1> QED
  BY <1>7, <1>8, <1>9, <1>10, SearchStep DEF NotesMenus, SearchInv

\* A step on a key drawn at random leaves the others alone.
LEMMA RandomSearch ==
    ASSUME NotesMenus, SearchInv, NEW w \in Workers, GoesOn(w),
           NEW k \in RandomKeySet, NEW c \in Secrets, NEW t,
           \A j \in Keys \ {k} : stored'[j] = stored[j],
           \A id \in Ids : id \in InUse /\ id[1] # k => heap'[id] = heap[id],
           UNCHANGED promise \/ Promise(k, t, c),
           Searches(w)'
    PROVE  InPlaceAll'
<1>1. \A j \in Keys \ {k} : promise'[j] = promise[j]
  BY TypeParts DEF SearchInv, Promises, Promise
<1>2. \A j \in FreeKeys : j \in Keys \ {k}
  BY DEF FreeKeys
<1>3. ASSUME NEW j \in RandomKeySet, promise'[j] # None
      PROVE  promise'[j].cred \in Secrets
  <2>1. j \in Keys
    BY StoreAssumption DEF RandomKeySet
  <2>2. CASE promise'[j] = promise[j]
    BY <1>3, <2>2 DEF SearchInv, InPlaceAll, NotesInPlace
  <2>3. CASE promise'[j] # promise[j]
    <3>1. j = k /\ promise' = [promise EXCEPT ![k] = [text |-> t, cred |-> c]]
      BY <1>1, <2>1, <2>3 DEF Promise
    <3>2. promise'[j] = [text |-> t, cred |-> c]
      BY <2>1, <3>1, TypeParts DEF SearchInv, Promises
    <3> QED
      BY <3>2
  <2> QED
    BY <2>2, <2>3
<1> QED
  BY <1>1, <1>2, <1>3, SearchStep DEF NotesMenus, SearchInv

LEMMA PutTOTPSearch ==
    ASSUME NotesMenus, SearchInv, NEW w \in Workers, GoesOn(w), PutTOTP(w)
    PROVE  InPlaceAll'
<1> DEFINE k == worker[w].key
           e == TotpEntry(Req(w).text, Req(w).secret)
<1>1. k \in RandomKeySet /\ k \in Keys /\ Req(w).secret \in Secrets
  BY SettingUp, CreatorKeys DEF SearchInv, PutTOTP, At
<1>2. Put(k, e) /\ Promise(k, Req(w).text, Req(w).secret)
  BY DEF PutTOTP
<1>3. worker'[w].pc = "idle"
  BY FinishedPc DEF SearchInv, PutTOTP
<1>4. NewId(k) \in Ids /\ NewId(k) \notin InUse
  BY <1>1, NewIdIsFree DEF SearchInv
<1> HIDE DEF k, e
<1>5. stored' = [stored EXCEPT ![k] = NewId(k)] /\ heap' = [heap EXCEPT ![NewId(k)] = e]
  BY <1>2 DEF Put
<1>6. /\ \A j \in Keys \ {k} : stored'[j] = stored[j]
      /\ \A id \in Ids : id \in InUse => heap'[id] = heap[id]
  BY <1>4, <1>5, TypeParts DEF SearchInv
<1>7. Searches(w)'
  BY <1>3, NoSearch DEF Searching
<1> QED
  BY <1>1, <1>2, <1>6, <1>7, RandomSearch

\* Whoever edits has presented a code, so the key was drawn at random.
LEMMA EditsByCode ==
    ASSUME NotesMenus, SearchInv, NEW w \in Workers, At(w, "update")
    PROVE  /\ worker[w].key \in RandomKeySet /\ worker[w].key \in Keys
           /\ Req(w).code # None /\ CodeFits(w) /\ ~Sealed(w)
           /\ Target(w) \in Ids /\ Target(w)[1] = worker[w].key
<1>1. /\ Req(w) \in Menu[w] /\ worker[w].entry # None /\ worker[w].entry[1] = worker[w].key
      /\ worker[w].key \in Keys /\ stored[worker[w].key] # None
  BY Opening DEF SearchInv, At, HasKey, HalfDone
<1>2. /\ Req(w).op = "post" /\ Req(w).text # None
      /\ CodeFits(w) \/ PasswordFits(w)
  BY Updating, EntryAssumption DEF SearchInv, IInv, CredentialFits, HalfDone, Sealing, Clearing
<1>3. IsEdit(Req(w)) /\ Req(w) \in Requests
  BY <1>1, <1>2, MenuType DEF IsEdit, TextOnly, CodeFits, PasswordFits
<1>4. Req(w).password = None
  BY <1>3 DEF NotesMenus, NoPasswordEdits
<1>5. CodeFits(w) /\ Held(w).totp # None /\ Req(w).code # None
  BY <1>2, <1>4 DEF CodeFits, PasswordFits
<1>6. worker[w].entry \in Ids /\ Held(w) # None
  BY <1>1, HeldEntry DEF SearchInv
<1>7. worker[w].key \in RandomKeySet
  BY <1>1, <1>5, <1>6 DEF SearchInv, CodesApart, Held
<1>8. ~Sealed(w)
  BY <1>4 DEF Sealed, EditPassword
<1>9. Target(w) \in Ids /\ Target(w)[1] = worker[w].key
  BY <1>1, StoredEntry DEF SearchInv, Target
<1> QED
  BY <1>1, <1>5, <1>7, <1>8, <1>9

LEMMA NobodySeals ==
    ASSUME NotesMenus, SearchInv, NEW w \in Workers
    PROVE  worker[w].pc \notin Sealing \cup Clearing /\ ~FieldStep(w)
<1>1. ASSUME worker[w].pc \in Sealing \cup Clearing
      PROVE  FALSE
  <2>1. Req(w) \in Menu[w] /\ Req(w) \in Requests
    BY <1>1, Opening, MenuType DEF SearchInv, HasKey, HalfDone, Sealing, Clearing
  <2>2. Req(w).op = "post" /\ Req(w).text # None /\ Req(w).password # None
    BY <1>1, EditingText, EntryAssumption
       DEF SearchInv, IInv, CredentialFits, Edits, HalfDone, Sealing, Clearing
  <2> QED
    BY <2>1, <2>2 DEF NotesMenus, NoPasswordEdits, IsEdit, TextOnly
<1>2. FieldStep(w) => worker[w].pc \in Sealing \cup Clearing
  BY DEF FieldStep, Reseal, Seal, ResealFailed, ClearCipher, ClearSalt, At, Sealing, Clearing
<1> QED
  BY <1>1, <1>2

LEMMA WriteTextSearch ==
    ASSUME NotesMenus, SearchInv, NEW w \in Workers, GoesOn(w), WriteText(w)
    PROVE  InPlaceAll'
<1> DEFINE k == worker[w].key
           id == IF Persistent THEN NewId(k) ELSE Target(w)
           e == [heap[Target(w)] EXCEPT !.text = Torn, !.begun = Req(w).text]
<1>1. At(w, "update") /\ EditsInto(w, e, "write", None) /\ UNCHANGED <<stored, promise>>
  BY DEF WriteText
<1>2. k \in RandomKeySet /\ k \in Keys /\ Req(w).code # None /\ id \in Ids /\ id[1] = k
  BY <1>1, EditsByCode, NewIdIsFree DEF SearchInv
<1>3. /\ heap' = [heap EXCEPT ![id] = e]
      /\ worker' = [worker EXCEPT ![w].entry = id, ![w].pc = "write", ![w].salt = None]
  BY <1>1 DEF EditsInto
<1> HIDE DEF id, e, k
<1>4. \A j \in Ids : j[1] # k => heap'[j] = heap[j]
  BY <1>2, <1>3, TypeParts DEF SearchInv
<1>5. worker'[w].pc = "write" /\ worker'[w].key = k /\ worker'[w].req = worker[w].req
  BY <1>3, LocalsType DEF SearchInv, Locals, k
<1>6. Searches(w)'
  BY <1>2, <1>5 DEF Searches, Req
<1>7. \A j \in Ids : j \in InUse /\ j[1] \in FreeKeys => heap'[j] = heap[j]
  BY <1>2, <1>4 DEF FreeKeys
<1> QED
  BY <1>1, <1>6, <1>7, SearchGoesOn

LEMMA WriteRestSearch ==
    ASSUME NotesMenus, SearchInv, NEW w \in Workers, GoesOn(w), WriteRest(w)
    PROVE  InPlaceAll'
<1> DEFINE k == worker[w].key
           c == Req(w).code
<1>1. At(w, "write") /\ UNCHANGED stored
  BY DEF WriteRest
<1>2. /\ k \in RandomKeySet /\ c # None
      /\ worker[w].entry # None /\ worker[w].entry[1] = k /\ Req(w) \in Menu[w]
  BY <1>1, Opening DEF SearchInv, InPlaceAll, Searches, At, HasKey, HalfDone
<1>3. c \in Secrets
  BY <1>2, MenuType
<1>4. /\ Promise(k, Req(w).text, c) /\ Goto(w, "reread")
  BY <1>2 DEF WriteRest, Presented
<1>5. PICK t : heap' = [heap EXCEPT ![worker[w].entry].text = t]
  BY DEF WriteRest
<1> HIDE DEF k, c
<1>6. \A id \in Ids : id[1] # k => heap'[id] = heap[id]
  BY <1>2, <1>5, TypeParts DEF SearchInv
<1>7. worker'[w].pc = "reread" /\ worker'[w].key = k /\ worker'[w].req = worker[w].req
  BY <1>4, LocalsType DEF SearchInv, Goto, Locals, k
<1>8. Searches(w)'
  BY <1>2, <1>7 DEF Searches, Req, c
<1> QED
  BY <1>1, <1>2, <1>3, <1>4, <1>6, <1>8, RandomSearch

LEMMA StepSearch ==
    ASSUME NotesMenus, SearchInv, NEW w \in Workers, GoesOn(w),
           Step(w) \/ \E r \in Menu[w] : Accept(w, r)
    PROVE  InPlaceAll'
<1>1. CASE \E r \in Menu[w] : Accept(w, r)
  BY <1>1, AcceptSearch
<1>2. CASE CompareDecrypted(w) \/ ComparePlain(w) \/ CompareOther(w)
  BY <1>2, ComparesWell, FoundSameSearch, NextTrySearch
<1>3. ~UpdateSalt(w) /\ ~UpdateUnsealed(w)
  BY EditsByCode DEF UpdateSalt, UpdateUnsealed
<1>4. ~FieldStep(w)
  BY NobodySeals
<1>5. CASE ProbeEmpty(w) \/ CompareSealed(w)
  BY <1>5, ProbeEmptySearch, CompareSealedSearch
<1>6. CASE /\ QuietStep(w) /\ ~ProbeEmpty(w) /\ ~CompareSealed(w) /\ ~CompareDecrypted(w)
           /\ ~ComparePlain(w) /\ ~CompareOther(w) /\ ~(\E r \in Menu[w] : Accept(w, r))
  BY <1>6, QuietElsewhere, NoLongerSearches DEF SearchInv
<1>7. CASE ProbeTaken(w) \/ Create(w) \/ PutTOTP(w) \/ Lookup(w) \/ WriteText(w) \/ WriteRest(w)
  BY <1>7, ProbeTakenSearch, CreateSearch, PutTOTPSearch, LookupSearch, WriteTextSearch,
     WriteRestSearch
<1> QED
  BY <1>1, <1>2, <1>3, <1>4, <1>5, <1>6, <1>7 DEF Step, QuietStep, FieldStep

LEMMA NextSearch ==
    ASSUME NotesMenus, SearchInv, [Next]_vars
    PROVE  SearchInv'
<1>1. IInv' /\ CodesApart'
  BY NextInv, NextApart DEF NotesMenus, SearchInv
<1>2. ASSUME NEW w \in Workers, Step(w) \/ \E r \in Menu[w] : Accept(w, r)
      PROVE  InPlaceAll'
  <2>1. GoesOn(w)
    BY <1>2, StepGoesOn, AcceptInv DEF SearchInv
  <2> QED
    BY <1>2, <2>1, StepSearch
<1>3. CASE UNCHANGED vars
  <2>1. UNCHANGED <<stored, heap, worker, promise>>
    BY <1>3 DEF vars
  <2>2. NotesInPlace'
    <3>1. ASSUME NEW k \in FreeKeys, FirstFor(k, promise[k])
          PROVE  FirstFor(k, promise[k])'
      BY <2>1, <3>1 DEF FirstFor, GivenAway
    <3> QED
      BY <2>1, <3>1 DEF SearchInv, InPlaceAll, NotesInPlace
  <2>3. ASSUME NEW w \in Workers
        PROVE  Searches(w)'
    <3>1. /\ Req(w)' = Req(w) /\ TriedData(w)' = TriedData(w) /\ NoteOf(w)' = NoteOf(w)
          /\ Try(w)' = Try(w) /\ Held(w)' = Held(w)
      BY <2>1 DEF Req, TriedData, NoteOf, Try, Held
    <3>2. Searches(w)
      BY DEF SearchInv, InPlaceAll
    <3>3. ASSUME worker[w].pc \in {"probe", "same", "unseal", "create"},
                 NEW j \in 1 .. worker[w].i - 1
          PROVE  GivenAway(Candidates[TriedData(w)][j], NoteOf(w))'
      BY <2>1, <3>1, <3>2, <3>3 DEF Searches, GivenAway
    <3> QED
      BY <2>1, <3>1, <3>2, <3>3 DEF Searches
  <2> QED
    BY <1>1, <2>2, <2>3 DEF SearchInv, InPlaceAll
<1> QED
  BY <1>1, <1>2, <1>3 DEF Next, SearchInv

LEMMA InitSearch == Init => SearchInv
<1> SUFFICES ASSUME Init
             PROVE  InPlaceAll
  BY InitInv, InitApart DEF SearchInv
<1>1. \A w \in Workers : worker[w].pc = "idle"
  BY DEF Init, Rest
<1>2. \A k \in Keys : stored[k] = None /\ promise[k] = None
  BY DEF Init
<1>3. RandomKeySet \subseteq Keys
  BY StoreAssumption DEF RandomKeySet
<1> QED
  BY <1>1, <1>2, <1>3 DEF InPlaceAll, NotesInPlace, Searches, FreeKeys

\* GenerateShortcode gives a note (a text, with the password it is saved under
\* or without) one key, however many requests generate it at the same time and
\* with either kind of store: the first key that is free is the first that was
\* free for whoever came before, because a key that was given away stays given
\* away.  Requests that generate different notes at the same time want
\* different keys, no key of generateKey is drawn for a TOTP entry, no password
\* is too long for bcrypt, and nobody edits an entry with a password.
THEOREM OneKeyForEachNote ==
    ASSUME NotesMenus
    PROVE  Spec => []OneKeyPerInput
<1>1. SearchInv /\ [Next]_vars => SearchInv'
  BY NextSearch
<1>2. Init => SearchInv
  BY InitSearch
<1>3. SearchInv => OneKeyPerInput
  <2> SUFFICES ASSUME SearchInv, NEW j \in Keys, NEW k \in Keys,
                      promise[j] # None, promise[j] = promise[k]
               PROVE  j = k \/ promise[j].cred \in Secrets
    BY DEF OneKeyPerInput
  <2> DEFINE n == promise[j]
             keys == Candidates[<<n.text, n.cred>>]
  <2>1. CASE j \in RandomKeySet \/ k \in RandomKeySet
    BY <2>1 DEF SearchInv, InPlaceAll, NotesInPlace
  <2>2. CASE j \in FreeKeys /\ k \in FreeKeys
    <3>1. FirstFor(j, n) /\ FirstFor(k, n) /\ n \in ShortNotes
      BY <2>2 DEF SearchInv, InPlaceAll, NotesInPlace
    <3>2. ~GivenAway(j, n) /\ ~GivenAway(k, n)
      BY DEF GivenAway
    <3> HIDE DEF n
    <3>3. PICK a \in DOMAIN keys : j = keys[a] /\ \A i \in 1 .. a - 1 : GivenAway(keys[i], n)
      BY <3>1 DEF FirstFor
    <3>4. PICK b \in DOMAIN keys : k = keys[b] /\ \A i \in 1 .. b - 1 : GivenAway(keys[i], n)
      BY <3>1 DEF FirstFor
    <3>5. keys \in Seq(Keys)
      BY <3>1, StoreAssumption DEF ShortNotes, Data
    <3> HIDE DEF keys
    <3>6. a \in Nat \ {0} /\ b \in Nat \ {0}
      BY <3>3, <3>4, <3>5
    <3>7. ~(a < b) /\ ~(b < a)
      BY <3>2, <3>3, <3>4, <3>6
    <3> QED
      BY <3>3, <3>4, <3>6, <3>7
  <2> QED
    BY <2>1, <2>2 DEF FreeKeys
<1> QED
  BY <1>1, <1>2, <1>3, PTL DEF Spec

-----------------------------------------------------------------------------
(* Promises while requests generate the same note *)

\* Requests that set up entries at the same time draw different keys.
SetupsApart ==
    \A v, w \in Workers : v # w =>
        \A q \in Menu[v], r \in Menu[w] : q.op = "setup" /\ r.op = "setup" => ~RandomRepeats

\* Nobody draws a key that another one is about to use.
PutsAlone ==
    /\ \A w \in Workers : At(w, "put") => stored[worker[w].key] = None
    /\ \A v, w \in Workers :
           v # w /\ At(v, "put") /\ At(w, "put") => worker[v].key # worker[w].key

\* Who opens a key drawn at random holds its entry, and who writes to it has
\* presented its code.
HoldsItsCode ==
    \A w \in Workers : worker[w].pc \in HasKey /\ worker[w].key \in RandomKeySet =>
        /\ worker[w].entry = Target(w)
        /\ At(w, "write") => CodeFits(w)

\* What such a key was last promised to hold is in its entry.
CodesKept ==
    \A k \in RandomKeySet : promise[k] # None =>
        /\ stored[k] # None /\ promise[k].cred = heap[stored[k]].totp
        /\ ~Editing(k) => heap[stored[k]].text = promise[k].text

CodeInv == SearchInv /\ TextsBegun /\ PutsAlone /\ HoldsItsCode /\ CodesKept

\* What this section assumes of a step, and of those who ask.
Sharing == ~Persistent /\ NotesMenus /\ EditorsApart /\ SetupsApart
SharedStep(w) == GoesOn(w) /\ (Step(w) \/ \E r \in Menu[w] : Accept(w, r))

\* Whoever edits has sent a code, and no password.
LEMMA EditorsSendCodes ==
    ASSUME NotesMenus, SearchInv, NEW w \in Workers, worker[w].pc \in Edits
    PROVE  /\ IsEdit(Req(w)) /\ Req(w).code # None
           /\ worker[w].pc \in {"update", "write", "reread"}
           /\ worker[w].key \in RandomKeySet
<1>1. worker[w].pc \in {"update", "write", "reread"}
  BY NobodySeals DEF Edits, HalfDone, Sealing, Clearing
<1>2. Req(w).code # None /\ worker[w].key \in RandomKeySet
  BY <1>1, EditsByCode DEF SearchInv, InPlaceAll, Searches, At
<1>3. Req(w).op = "post" /\ Req(w).text # None
  BY EditingText, EntryAssumption DEF SearchInv
<1> QED
  BY <1>1, <1>2, <1>3 DEF IsEdit, TextOnly

LEMMA KeysOfCreators ==
    ASSUME NotesMenus, SearchInv, NEW w \in Workers
    PROVE  /\ At(w, "create") => worker[w].key \in FreeKeys
           /\ At(w, "put") => worker[w].key \in RandomKeySet /\ worker[w].key \in Keys
<1>1. ASSUME At(w, "create")
      PROVE  worker[w].key \in FreeKeys
  <2>1. worker[w].i \in DOMAIN Candidates[TriedData(w)] /\ worker[w].key = Try(w)
    BY <1>1 DEF SearchInv, InPlaceAll, Searches, At
  <2> QED
    BY <1>1, <2>1, TriesFree DEF NotesMenus, SearchInv, At
<1>2. ASSUME At(w, "put")
      PROVE  worker[w].key \in RandomKeySet /\ worker[w].key \in Keys
  BY <1>2, CreatorKeys, SettingUp DEF SearchInv, At
<1> QED
  BY <1>1, <1>2

\* An entry with a code is never replaced.
LEMMA CodesStay ==
    ASSUME Sharing, CodeInv, NEW w \in Workers, SharedStep(w),
           NEW k \in RandomKeySet, stored[k] # None
    PROVE  stored'[k] = stored[k]
<1> SUFFICES ASSUME stored'[k] # stored[k]
             PROVE  FALSE
  OBVIOUS
<1>1. k \in Keys
  BY StoreAssumption DEF RandomKeySet
<1>2. (Create(w) \/ PutTOTP(w)) /\ k = worker[w].key
  BY <1>1, StoredChanges DEF CodeInv, SearchInv, SharedStep
<1>3. CASE Create(w)
  BY <1>2, <1>3, KeysOfCreators DEF Create, Sharing, CodeInv, FreeKeys
<1>4. CASE PutTOTP(w)
  BY <1>2, <1>4 DEF PutTOTP, CodeInv, PutsAlone
<1> QED
  BY <1>2, <1>3, <1>4

LEMMA PutsStayAlone ==
    ASSUME Sharing, CodeInv, NEW w \in Workers, SharedStep(w)
    PROVE  PutsAlone'
<1>1. \A v \in Workers \ {w} : worker'[v] = worker[v]
  BY DEF SharedStep, GoesOn
<1>2. ASSUME NEW v \in Workers \ {w}, At(v, "put")
      PROVE  stored'[worker[v].key] = None
  <2>1. worker[v].key \in Keys /\ worker[v].key \in RandomKeySet /\ stored[worker[v].key] = None
    BY <1>2, KeysOfCreators DEF Sharing, CodeInv, PutsAlone
  <2>2. ASSUME stored'[worker[v].key] # stored[worker[v].key]
        PROVE  FALSE
    <3>1. (Create(w) \/ PutTOTP(w)) /\ worker[v].key = worker[w].key
      BY <2>1, <2>2, StoredChanges DEF CodeInv, SearchInv, SharedStep
    <3>2. CASE Create(w)
      BY <2>1, <3>1, <3>2, KeysOfCreators DEF Create, Sharing, CodeInv, FreeKeys
    <3>3. CASE PutTOTP(w)
      BY <1>2, <3>1, <3>3 DEF PutTOTP, CodeInv, PutsAlone
    <3> QED
      BY <3>1, <3>2, <3>3
  <2> QED
    BY <2>1, <2>2
<1>3. ASSUME worker'[w].pc = "put"
      PROVE  /\ stored'[worker'[w].key] = None
             /\ \A v \in Workers \ {w} : At(v, "put") => worker[v].key # worker'[w].key
  <2>1. PickKey(w)
    BY <1>3, OnlyFromEmpty DEF CodeInv, SearchInv, SharedStep
  <2>2. PICK k \in RandomKeys[worker[w].i] :
            /\ RandomRepeats \/ k \notin Drawn(w)
            /\ worker' = IF stored[k] = None
                         THEN [worker EXCEPT ![w].key = k, ![w].pc = "put"]
                         ELSE [worker EXCEPT ![w].i = worker[w].i + 1]
    BY <2>1 DEF PickKey
  <2>3. worker[w].pc = "pick" /\ UNCHANGED stored /\ worker \in Locals
    BY <2>1, LocalsType DEF PickKey, At, CodeInv, SearchInv
  <2>4. stored[k] = None
    BY <1>3, <2>2, <2>3 DEF Locals
  <2>5. worker'[w].key = k
    BY <2>2, <2>3, <2>4 DEF Locals
  <2>6. ASSUME NEW v \in Workers \ {w}, At(v, "put")
        PROVE  worker[v].key # k
    <3>1. /\ Req(v) \in Menu[v] /\ Req(v).op = "setup"
          /\ Req(w) \in Menu[w] /\ Req(w).op = "setup"
      BY <2>3, <2>6, SettingUp DEF CodeInv, SearchInv, At
    <3>2. ~RandomRepeats
      BY <3>1 DEF Sharing, SetupsApart
    <3> QED
      BY <2>2, <2>6, <3>2 DEF Drawn
  <2> QED
    BY <2>3, <2>4, <2>5, <2>6
<1> QED
  BY <1>1, <1>2, <1>3 DEF PutsAlone, At, CodeInv

\* A step of w that opens a key, or goes on with one.
LEMMA OpensItsKey ==
    ASSUME Sharing, CodeInv, NEW w \in Workers, SharedStep(w),
           worker'[w].pc \in HasKey, worker'[w].key \in RandomKeySet
    PROVE  worker'[w].entry = stored'[worker'[w].key]
<1> DEFINE Goal == worker'[w].entry = stored'[worker'[w].key]
<1>1. worker \in Locals
  BY LocalsType DEF CodeInv, SearchInv
<1>2. ASSUME worker[w].pc \in HasKey, worker'[w].key = worker[w].key,
             worker'[w].entry = worker[w].entry
      PROVE  Goal
  <2>1. worker[w].entry = stored[worker[w].key] /\ stored[worker[w].key] # None
    BY <1>2, Opening DEF CodeInv, SearchInv, HoldsItsCode, Target
  <2> QED
    BY <1>2, <2>1, CodesStay
<1>3. CASE QuietStep(w)
  BY <1>2, <1>3, QuietKeeps DEF CodeInv, SearchInv
<1>4. CASE Create(w) \/ PutTOTP(w)
  <2>1. worker'[w].pc = "idle"
    BY <1>4, FinishedPc DEF CodeInv, SearchInv, Create, PutTOTP
  <2> QED
    BY <2>1 DEF HasKey, HalfDone
<1>5. CASE Lookup(w)
  BY <1>1, <1>5 DEF Lookup, GetsInto, Locals, Sharing
<1>6. CASE ProbeTaken(w)
  <2>1. worker'[w].pc = "same"
    BY <1>1, <1>6 DEF ProbeTaken, GetsInto, Locals
  <2> QED
    BY <2>1 DEF HasKey, HalfDone
<1>7. CASE UpdateSalt(w) \/ WriteText(w)
  <2>1. PICK e, pc, salt : EditsInto(w, e, pc, salt) /\ UNCHANGED stored
    BY <1>7 DEF UpdateSalt, WriteText
  <2>2. worker'[w].entry = Target(w) /\ worker'[w].key = worker[w].key
    BY <1>1, <2>1 DEF EditsInto, Locals, Sharing
  <2> QED
    BY <2>1, <2>2 DEF Target
<1>9. ~UpdateUnsealed(w) /\ ~FieldStep(w)
  BY EditsByCode, NobodySeals DEF UpdateUnsealed, Sharing, CodeInv
<1>8. CASE WriteRest(w)
  <2>1. worker'[w].pc # "idle"
    BY DEF HasKey, HalfDone
  <2>2. Goto(w, "reread") /\ At(w, "write")
    BY <1>8, <2>1, FinishedPc DEF CodeInv, SearchInv, WriteRest
  <2>3. /\ worker[w].pc \in HasKey /\ worker'[w].key = worker[w].key
        /\ worker'[w].entry = worker[w].entry
    BY <1>1, <2>2 DEF Goto, Locals, At, HasKey, HalfDone
  <2> QED
    BY <1>2, <2>3
<1> QED
  BY <1>3, <1>4, <1>5, <1>6, <1>7, <1>8, <1>9 DEF SharedStep, Step, QuietStep, FieldStep

LEMMA StillHoldsItsCode ==
    ASSUME Sharing, CodeInv, NEW w \in Workers, SharedStep(w)
    PROVE  HoldsItsCode'
<1>1. \A v \in Workers \ {w} : worker'[v] = worker[v]
  BY DEF SharedStep, GoesOn
<1>2. ASSUME NEW v \in Workers \ {w}, worker[v].pc \in HasKey, worker[v].key \in RandomKeySet
      PROVE  worker[v].entry = stored'[worker[v].key] /\ (At(v, "write") => CodeFits(v)')
  <2>1. /\ worker[v].entry = stored[worker[v].key] /\ stored[worker[v].key] # None
        /\ At(v, "write") => CodeFits(v)
    BY <1>2, Opening DEF CodeInv, SearchInv, HoldsItsCode, Target
  <2>2. stored'[worker[v].key] = stored[worker[v].key]
    BY <1>2, <2>1, CodesStay
  <2>3. /\ worker[v].entry \in Ids /\ worker[v].entry \in InUse
        /\ heap[worker[v].entry] # None
    BY <2>1, HeldEntry DEF CodeInv, SearchInv, Held
  <2>4. SameKind(heap'[worker[v].entry], heap[worker[v].entry])
    BY <2>3, InUseStays DEF CodeInv, SearchInv, SharedStep, GoesOn
  <2>5. Held(v)'.totp = Held(v).totp /\ Req(v)' = Req(v)
    BY <1>1, <2>4 DEF Held, Req, SameKind
  <2> QED
    BY <2>1, <2>2, <2>5 DEF CodeFits
<1>3. ASSUME worker'[w].pc = "write"
      PROVE  CodeFits(w)'
  <2>1. WriteText(w)
    BY <1>3, OnlyWriteText DEF CodeInv, SearchInv, SharedStep, HalfDone
  <2>2. At(w, "update") /\ worker[w].pc \in HasKey /\ worker[w].pc \in Edits
    BY <2>1 DEF WriteText, At, HasKey, Edits, HalfDone
  <2>3. CodeFits(w) /\ worker[w].key \in RandomKeySet
    BY <2>2, EditsByCode DEF Sharing, CodeInv
  <2>4. worker[w].entry = Target(w) /\ worker[w].entry # None
    BY <2>2, <2>3, Opening DEF CodeInv, SearchInv, HoldsItsCode
  <2>5. worker'[w].entry = Target(w) /\ worker'[w].req = worker[w].req
    BY <2>1, LocalsType DEF WriteText, EditsInto, Locals, Sharing, CodeInv, SearchInv
  <2>6. /\ worker[w].entry \in Ids /\ worker[w].entry \in InUse
        /\ heap[worker[w].entry] # None
    BY <2>4, HeldEntry DEF CodeInv, SearchInv, Held
  <2>7. SameKind(heap'[worker[w].entry], heap[worker[w].entry])
    BY <2>6, InUseStays DEF CodeInv, SearchInv, SharedStep, GoesOn
  <2>8. Held(w)'.totp = Held(w).totp /\ Req(w)' = Req(w)
    BY <2>4, <2>5, <2>7 DEF Held, Req, SameKind
  <2> QED
    BY <2>3, <2>8 DEF CodeFits
<1> QED
  BY <1>1, <1>2, <1>3, OpensItsKey DEF HoldsItsCode, At, Target

\* Who promises something of a key drawn at random has put or edited its entry.
LEMMA PromisesOfCodes ==
    ASSUME NotesMenus, SearchInv, NEW w \in Workers,
           Step(w) \/ \E r \in Menu[w] : Accept(w, r),
           NEW k \in RandomKeySet, promise'[k] # promise[k]
    PROVE  (PutTOTP(w) \/ WriteRest(w)) /\ k = worker[w].key
<1>1. k \in Keys /\ k \notin FreeKeys
  BY StoreAssumption DEF RandomKeySet, FreeKeys
<1>2. ~UNCHANGED promise
  OBVIOUS
<1>3. ASSUME NEW j, NEW t, NEW c, Promise(j, t, c)
      PROVE  k = j
  BY <1>1, <1>3, TypeParts DEF SearchInv, Promise, Promises
<1>4. ~QuietStep(w)
  <2> SUFFICES ASSUME QuietStep(w)
               PROVE  FALSE
    OBVIOUS
  <2>1. FoundSame(w) /\ (CompareDecrypted(w) \/ ComparePlain(w) \/ CompareOther(w))
    BY <1>2, QuietPromise
  <2>2. Try(w) \in FreeKeys
    BY <2>1, Compared, ComparesWell
  <2> QED
    BY <1>1, <1>3, <2>1, <2>2 DEF FoundSame
<1>5. ~Create(w)
  BY <1>1, <1>3, KeysOfCreators DEF Create
<1>6. ~Lookup(w) /\ ~ProbeTaken(w) /\ ~UpdateSalt(w) /\ ~WriteText(w)
  BY <1>2 DEF Lookup, ProbeTaken, UpdateSalt, WriteText
<1>7. ~UpdateUnsealed(w) /\ ~FieldStep(w)
  BY EditsByCode, NobodySeals DEF UpdateUnsealed
<1>8. PutTOTP(w) \/ WriteRest(w)
  BY <1>4, <1>5, <1>6, <1>7 DEF Step, QuietStep, FieldStep
<1> QED
  BY <1>3, <1>8 DEF PutTOTP, WriteRest

CodeKept(k) ==
    /\ stored[k] # None /\ promise[k].cred = heap[stored[k]].totp
    /\ ~Editing(k) => heap[stored[k]].text = promise[k].text

\* Whoever is in the middle of an edit does nothing else.
LEMMA OnlyWriteRest ==
    ASSUME NEW w \in Workers, Step(w) \/ \E r \in Menu[w] : Accept(w, r),
           worker[w].pc = "write"
    PROVE  WriteRest(w)
BY DEF Step, ProbeEmpty, ProbeTaken, Probing, CompareSealed, CompareDecrypted, ComparePlain,
       CompareOther, Create, SetupRefused, SetupVerified, PickKey, PutTOTP, LookupNothing, Lookup,
       ShowOrLock, ShowTOTP, ReadSalt, ShowUnsealed, Decrypt, WrongCredential, Presents,
       UpdateSalt, UpdateUnsealed, Reseal, Seal, ResealFailed, ClearCipher, ClearSalt,
       WriteText, Reread, Accept, At

LEMMA EditsOnly ==
    ASSUME NotesMenus, SearchInv, NEW w \in Workers, Step(w) \/ \E r \in Menu[w] : Accept(w, r),
           worker[w].pc \in Edits, ~QuietStep(w)
    PROVE  WriteText(w) \/ WriteRest(w)
<1>1. ~UpdateSalt(w) /\ ~UpdateUnsealed(w) /\ ~FieldStep(w)
  BY EditsByCode, NobodySeals DEF UpdateSalt, UpdateUnsealed
<1>2. ~Create(w) /\ ~PutTOTP(w) /\ ~Lookup(w) /\ ~ProbeTaken(w)
  BY DEF Create, PutTOTP, Lookup, ProbeTaken, Probing, At, Edits, HalfDone
<1> QED
  BY <1>1, <1>2 DEF Step, QuietStep, FieldStep

LEMMA PutKeepsCode ==
    ASSUME Sharing, CodeInv, NEW w \in Workers, PutTOTP(w), NEW k, k = worker[w].key
    PROVE  CodeKept(k)'
<1> DEFINE t == Req(w).text
           s == Req(w).secret
           e == TotpEntry(t, s)
           id == NewId(k)
<1>1. Put(k, e) /\ promise' = [promise EXCEPT ![k] = [text |-> t, cred |-> s]] /\ k \in Keys
  BY KeysOfCreators DEF PutTOTP, Promise, Sharing, CodeInv
<1>2. id \in Ids /\ id # None
  BY <1>1, NewIdIsFree, StoreAssumption DEF CodeInv, SearchInv
<1>3. e.text = t /\ e.totp = s
  BY DEF TotpEntry, PublicEntry
<1>4. stored' = [stored EXCEPT ![k] = id] /\ heap' = [heap EXCEPT ![id] = e]
  BY <1>1 DEF Put
<1> HIDE DEF t, s, e, id
<1>5. stored'[k] = id /\ heap'[id] = e /\ promise'[k] = [text |-> t, cred |-> s]
  BY <1>1, <1>2, <1>4, TypeParts DEF Promises, CodeInv, SearchInv
<1> QED
  BY <1>2, <1>3, <1>5 DEF CodeKept

LEMMA EditKeepsCode ==
    ASSUME Sharing, CodeInv, NEW w \in Workers, WriteRest(w), NEW k, k = worker[w].key
    PROVE  CodeKept(k)'
<1> DEFINE t == Req(w).text
           c == Req(w).code
           id == worker[w].entry
<1>1. At(w, "write") /\ worker[w].pc \in Edits /\ worker[w].pc \in HasKey /\ UNCHANGED stored
  BY DEF WriteRest, At, Edits, HasKey, HalfDone
<1>2. k \in RandomKeySet /\ c # None
  BY <1>1, EditorsSendCodes DEF Sharing, CodeInv
<1>3. k \in Keys /\ id # None /\ stored[k] = id /\ CodeFits(w)
  BY <1>1, <1>2, Opening DEF CodeInv, SearchInv, HoldsItsCode, Target
<1>4. id \in Ids /\ Held(w) = heap[id] /\ heap[id] \in Entries /\ Held(w).totp = c
  BY <1>3, HeldEntry DEF CodeInv, SearchInv, Held, CodeFits, ValidateTOTP
<1>5. Held(w).begun = t
  BY <1>1 DEF CodeInv, TextsBegun, Begun
<1>6. /\ heap' = [heap EXCEPT ![id].text = t]
      /\ promise' = [promise EXCEPT ![k] = [text |-> t, cred |-> c]]
  BY <1>2, <1>5 DEF WriteRest, Promise, Presented
<1> HIDE DEF t, c, id
<1>7. /\ heap'[id].text = t /\ heap'[id].totp = heap[id].totp
      /\ promise'[k] = [text |-> t, cred |-> c]
  BY <1>3, <1>4, <1>6, TypeParts DEF Entries, Promises, CodeInv, SearchInv
<1> QED
  BY <1>1, <1>3, <1>4, <1>7 DEF CodeKept

\* Whatever else is done leaves the entry as it is, or is half of an edit of it.
LEMMA OthersKeepCode ==
    ASSUME Sharing, CodeInv, NEW w \in Workers, SharedStep(w),
           NEW k \in RandomKeySet, promise[k] # None,
           ~(PutTOTP(w) \/ WriteRest(w)) \/ k # worker[w].key
    PROVE  CodeKept(k)'
<1> DEFINE id == stored[k]
<1>1. promise'[k] = promise[k]
  BY PromisesOfCodes DEF Sharing, CodeInv, SharedStep
<1>2. /\ k \in Keys /\ id # None /\ promise[k].cred = heap[id].totp
      /\ ~Editing(k) => heap[id].text = promise[k].text
  BY StoreAssumption DEF CodeInv, CodesKept, RandomKeySet
<1>3. stored'[k] = id
  BY <1>2, CodesStay
<1>4. id \in Ids /\ id \in InUse /\ id[1] = k /\ heap[id] # None
  BY <1>2, StoredEntry DEF CodeInv, SearchInv
<1>5. heap'[id].totp = heap[id].totp
  BY <1>4, InUseStays DEF CodeInv, SearchInv, SharedStep, GoesOn, SameKind
<1>6. ASSUME ~Editing(k)'
      PROVE  heap'[id].text = promise[k].text
  <2>1. ~Editing(k)
    <3> SUFFICES ASSUME NEW v \in Workers, worker[v].key = k, worker[v].pc \in HalfDone
                 PROVE  FALSE
      BY DEF Editing
    <3>1. CASE v = w
      <4>1. worker[w].pc = "write"
        BY <3>1, NobodySeals DEF Sharing, CodeInv, Sealing, Clearing, HalfDone
      <4>2. WriteRest(w)
        BY <4>1, OnlyWriteRest DEF SharedStep
      <4> QED
        BY <3>1, <4>2
    <3>2. CASE v # w
      BY <1>6, <3>2 DEF SharedStep, GoesOn, Editing
    <3> QED
      BY <3>1, <3>2
  <2>2. heap'[id] = heap[id]
    <3> SUFFICES ASSUME heap'[id] # heap[id]
                 PROVE  FALSE
      OBVIOUS
    <3>1. worker[w].pc \in Edits /\ k = worker[w].key
      BY <1>4, StepTouches DEF Touches, CodeInv, SearchInv, SharedStep
    <3>2. ~QuietStep(w)
      BY QuietSteps
    <3>3. WriteText(w) \/ WriteRest(w)
      BY <3>1, <3>2, EditsOnly DEF Sharing, CodeInv, SharedStep
    <3>4. CASE WriteText(w)
      <4>1. worker'[w].pc = "write" /\ worker'[w].key = k
        BY <3>1, <3>4, LocalsType DEF WriteText, EditsInto, Locals, CodeInv, SearchInv
      <4> QED
        BY <1>6, <4>1 DEF Editing, HalfDone
    <3>5. CASE WriteRest(w)
      BY <3>1, <3>5
    <3> QED
      BY <3>3, <3>4, <3>5
  <2> QED
    BY <1>2, <2>1, <2>2
<1> QED
  BY <1>1, <1>2, <1>3, <1>5, <1>6 DEF CodeKept

LEMMA CodesStayKept ==
    ASSUME Sharing, CodeInv, NEW w \in Workers, SharedStep(w)
    PROVE  CodesKept'
<1>1. ASSUME NEW k \in RandomKeySet, promise'[k] # None
      PROVE  CodeKept(k)'
  <2>1. CASE PutTOTP(w) /\ k = worker[w].key
    BY <2>1, PutKeepsCode
  <2>2. CASE WriteRest(w) /\ k = worker[w].key
    BY <2>2, EditKeepsCode
  <2>3. CASE ~(PutTOTP(w) \/ WriteRest(w)) \/ k # worker[w].key
    <3>1. promise'[k] = promise[k]
      BY <2>3, PromisesOfCodes DEF Sharing, CodeInv, SharedStep
    <3> QED
      BY <1>1, <2>3, <3>1, OthersKeepCode
  <2> QED
    BY <2>1, <2>2, <2>3
<1> QED
  BY <1>1 DEF CodesKept, CodeKept

LEMMA NextCodes ==
    ASSUME Sharing, CodeInv, [Next]_vars
    PROVE  CodeInv'
<1>1. SearchInv'
  BY NextSearch DEF Sharing, CodeInv
<1>2. ASSUME NEW w \in Workers, Step(w) \/ \E r \in Menu[w] : Accept(w, r)
      PROVE  (TextsBegun /\ PutsAlone /\ HoldsItsCode /\ CodesKept)'
  <2>1. SharedStep(w)
    BY <1>2, StepGoesOn, AcceptInv DEF SharedStep, CodeInv, SearchInv
  <2>2. TextsBegun'
    BY <1>2, <2>1, EditorsSendCodes, BegunStep DEF SharedStep, Sharing, CodeInv, SearchInv
  <2> QED
    BY <2>1, <2>2, PutsStayAlone, StillHoldsItsCode, CodesStayKept
<1>3. CASE UNCHANGED vars
  <2>1. TextsBegun' /\ PutsAlone' /\ HoldsItsCode'
    BY <1>3 DEF vars, CodeInv, TextsBegun, Begun, PutsAlone, HoldsItsCode, CodeFits, Held, Target,
                At, Req
  <2>2. CodesKept'
    BY <1>3 DEF vars, CodeInv, CodesKept, Editing
  <2> QED
    BY <1>1, <2>1, <2>2 DEF CodeInv
<1> QED
  BY <1>1, <1>2, <1>3 DEF Next, CodeInv

LEMMA InitCodes == Init => CodeInv
<1> SUFFICES ASSUME Init
             PROVE  CodeInv
  OBVIOUS
<1>1. \A w \in Workers : worker[w].pc = "idle"
  BY DEF Init, Rest
<1>2. \A k \in RandomKeySet : promise[k] = None
  BY StoreAssumption DEF Init, RandomKeySet
<1> QED
  BY <1>1, <1>2, InitSearch, InitApart, InitBegun
     DEF CodeInv, PutsAlone, HoldsItsCode, CodesKept, At, HasKey, HalfDone

\* A note opens with its credential.
LEMMA NoteOpens ==
    ASSUME NEW n \in ShortNotes, NEW e \in Notes(n)
    PROVE  OpenWith(e, n.cred) = n.text
<1>1. n.text \in Texts /\ n.cred \in (Passwords \ LongPasswords) \cup {None}
  BY DEF ShortNotes
<1>2. CASE n.cred = None
  BY <1>2 DEF Notes, PublicEntry, OpenWith, verifyPassword
<1>3. CASE n.cred # None
  <2>1. hashPassword(n.cred) = n.cred /\ n.cred \in Passwords
    BY <1>1, <1>3 DEF hashPassword
  <2>2. CASE e = PasswordEntry(n.text, n.cred, FirstSalt)
    <3>1. /\ e.protected /\ e.password = n.cred /\ e.salt = FirstSalt /\ e.totp = None
          /\ e.enc = [key |-> [password |-> n.cred, salt |-> FirstSalt], text |-> n.text]
      BY <2>1, <2>2 DEF PasswordEntry, PublicEntry, encrypt, deriveKey
    <3>2. e.enc \in Cipher
      BY <1>1, <2>1, <3>1, FirstSaltType DEF Cipher, CipherKey
    <3>3. e.enc # None /\ e.salt # None
      BY <3>1, <3>2, FirstSaltType, EntryAssumption
    <3>4. Unseal(e.enc, e.salt, n.cred) = n.text
      BY <3>1, <3>3 DEF Unseal, decrypt, deriveKey
    <3> QED
      BY <1>3, <3>1, <3>3, <3>4 DEF OpenWith, verifyPassword
  <2>3. CASE e = UnsealedEntry(n.text, n.cred)
    <3>1. /\ e.protected /\ e.password = n.cred /\ e.totp = None
          /\ e.enc = None /\ e.text = n.text
      BY <2>1, <2>3 DEF UnsealedEntry, PublicEntry
    <3> QED
      BY <1>3, <3>1 DEF OpenWith, verifyPassword
  <2> QED
    BY <1>3, <2>2, <2>3 DEF Notes
<1> QED
  BY <1>2, <1>3

\* What a client was last told is saved at a key is what its credential opens,
\* also where several requests generate the very same note at the same time
\* and each finds the key empty: the one that puts its entry last puts the same
\* note.  With the memory store; those that generate different notes, that set
\* up codes or that edit want different keys, and nobody edits an entry with a
\* password.
THEOREM SharedPromisesKept ==
    ASSUME ~Persistent, NotesMenus, EditorsApart, SetupsApart
    PROVE  Spec => []PromiseKept
<1>1. CodeInv /\ [Next]_vars => CodeInv'
  BY NextCodes DEF Sharing
<1>2. CodeInv => PromiseKept
  <2> SUFFICES ASSUME CodeInv, NEW k \in Keys, promise[k] # None, ~Editing(k)
               PROVE  /\ stored[k] # None
                      /\ OpenWith(heap[stored[k]], promise[k].cred) = promise[k].text
    BY DEF PromiseKept
  <2>1. CASE k \in RandomKeySet
    <3>1. /\ stored[k] # None /\ promise[k].cred = heap[stored[k]].totp
          /\ heap[stored[k]].text = promise[k].text
      BY <2>1 DEF CodeInv, CodesKept
    <3>2. heap[stored[k]].totp # None
      BY <2>1, <3>1, StoredEntry DEF CodeInv, SearchInv, CodesApart
    <3> QED
      BY <3>1, <3>2 DEF OpenWith, ValidateTOTP
  <2>2. CASE k \notin RandomKeySet
    <3>1. /\ stored[k] # None /\ promise[k] \in ShortNotes
          /\ heap[stored[k]] \in Notes(promise[k])
      BY <2>2 DEF CodeInv, SearchInv, InPlaceAll, NotesInPlace, FreeKeys
    <3> QED
      BY <3>1, NoteOpens
  <2> QED
    BY <2>1, <2>2
<1> QED
  BY <1>1, <1>2, InitCodes, PTL DEF Spec
=============================================================================
