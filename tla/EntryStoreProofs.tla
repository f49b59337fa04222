-------------------------- MODULE EntryStoreProofs --------------------------
(***************************************************************************)
(* What holds of the entries for any number of requests at the same time.  *)
(***************************************************************************)
EXTENDS EntryStore, FiniteSetTheorems, TLAPS

-----------------------------------------------------------------------------
(* The inductive invariant *)

\* Every pointer leads to an entry, and to one of the key it is used for.
PointersLead ==
    /\ \A k \in Keys : stored[k] # None => stored[k][1] = k /\ heap[stored[k]] # None
    /\ \A w \in Workers : worker[w].entry # None => heap[worker[w].entry] # None

\* An entry asks for one thing, and one that asks for nothing is open.
KindsOfEntries ==
    \A id \in Ids : heap[id] # None =>
        /\ None \in {heap[id].password, heap[id].totp}
        /\ ~heap[id].protected => heap[id].password = None /\ heap[id].totp = None
        /\ heap[id].enc # None => heap[id].totp = None

\* The requests that create an entry, and the keys that one may get.
Creates(r) == r.op \in {"generate", "setup"}
RandomKeySet == UNION {RandomKeys[i] : i \in DOMAIN RandomKeys}
CreatedKeys(r) ==
    IF r.op = "setup"
    THEN RandomKeySet
    ELSE {Candidates[<<r.text, r.password>>][i] : i \in DOMAIN Candidates[<<r.text, r.password>>]}

HasKey == {"view", "decrypt", "update", "reread"} \cup HalfDone
Edits == {"update", "reread"} \cup HalfDone

\* Where updateEntry replaces a ciphertext, and where it leaves a text in clear.
Sealing == {"reseal", "seal"}
Clearing == {"clear", "unsalt"}

\* What a request knows fits what it is doing: where it is in a handler, what
\* it was asked for, the entry it holds and the credential that it has checked.
RequestFits(w) ==
    LET l == worker[w]
    IN  /\ l.pc = "idle" => l.req \in Menu[w] \cup {NoRequest}
        /\ l.pc # "idle" => l.req \in Menu[w]
        /\ l.pc \in {"probe", "same", "unseal", "create"} => l.req.op = "generate"
        /\ l.pc \in {"setup", "pick", "put"} => l.req.op = "setup"
        /\ l.pc \in {"lookup"} \cup HasKey =>
               l.req.op \in {"get", "post"} /\ l.key = l.req.key
        /\ l.pc \in {"same", "unseal"} =>
               /\ l.i \in DOMAIN Candidates[TriedData(w)]
               /\ l.entry # None /\ l.entry[1] = Try(w)
               /\ stored[Try(w)] # None
        /\ l.pc \in {"create", "put"} => l.key \in CreatedKeys(l.req)
        /\ l.pc \in {"setup", "pick"} => l.i \in DOMAIN RandomKeys
        /\ l.pc \in HasKey =>
               /\ l.entry # None /\ l.entry[1] = l.key
               /\ stored[l.key] # None
        /\ l.pc \in {"decrypt"} \cup Edits => l.req.op = "post"
        /\ l.pc \in Edits => l.req.text # None

CredentialFits(w) ==
    /\ At(w, "unseal") => Req(w).password # None
    /\ At(w, "decrypt") => PasswordFits(w)
    /\ At(w, "update") => CodeFits(w) \/ PasswordFits(w)
    /\ worker[w].pc \in Sealing \cup Clearing =>
           Req(w).password # None /\ Held(w).password # None
    /\ worker[w].pc \in Sealing => worker[w].salt # None

IInv ==
    /\ TypeOK
    /\ PointersLead
    /\ KindsOfEntries
    /\ \A w \in Workers : RequestFits(w) /\ CredentialFits(w)

\* No key that generateKey yields is drawn at random.
RandomApart ==
    \A r \in Requests : r.op = "generate" => CreatedKeys(r) \cap RandomKeySet = {}

\* The requests that edit: at the same time they want different keys.
IsEdit(r) == r.op = "post" /\ r.text # None /\ ~TextOnly(r)
EditorsApart ==
    \A v, w \in Workers : v # w =>
        \A q \in Menu[v], r \in Menu[w] : IsEdit(q) /\ IsEdit(r) => q.key # r.key

\* Then what asks for a code is what has a key drawn at random, and nobody
\* takes it for an entry with a password while he edits it.
CodesApart ==
    /\ \A id \in Ids : heap[id] # None => (heap[id].totp # None <=> id[1] \in RandomKeySet)
    /\ \A w \in Workers : At(w, "write") => Held(w).password = None

-----------------------------------------------------------------------------
(* Types *)

Promises == [Keys -> [text : Texts, cred : Passwords \cup Secrets \cup {None}] \cup {None}]

LEMMA TypeParts ==
    ASSUME IInv
    PROVE  /\ stored \in [Keys -> Ids \cup {None}]
           /\ heap \in [Ids -> Entries \cup {None}]
           /\ worker \in [Workers -> Local]
           /\ answer \in [Workers -> Answer]
           /\ promise \in Promises
BY DEF IInv, TypeOK, Promises

LEMMA LocalParts ==
    ASSUME NEW l, l \in Local
    PROVE  /\ l.pc \in Pcs /\ l.req \in Requests \cup {NoRequest} /\ l.i \in Nat
           /\ l.key \in Keys \cup {None} /\ l.entry \in Ids \cup {None}
           /\ l.salt \in Salts \cup {None}
BY DEF Local

LEMMA EntryParts ==
    ASSUME NEW e, e \in Entries
    PROVE  /\ e.text \in Texts \cup {None, Torn} /\ e.enc \in Cipher \cup {None}
           /\ e.salt \in Salts \cup {None} /\ e.protected \in BOOLEAN
           /\ e.password \in Passwords \cup {None} /\ e.totp \in Secrets \cup {None}
BY DEF Entries

\* Every request that is made is one of the menus, and well formed.
LEMMA MenuType ==
    ASSUME NEW w \in Workers, NEW r \in Menu[w]
    PROVE  /\ r \in Request /\ WellFormed(r) /\ r \in Requests
           /\ r.key \in Keys \cup {None} /\ r.text \in Texts \cup {None}
           /\ r.password \in Passwords \cup {None} /\ r.code \in Secrets \cup {None}
           /\ r.secret \in Secrets \cup {None}
           /\ r.op \in {"generate", "setup", "get", "post"}
<1>1. r \in Requests /\ r \in Request
  BY StoreAssumption DEF Requests
<1> QED
  BY <1>1, StoreAssumption DEF Request

-----------------------------------------------------------------------------
(* What is new is not in use *)

LEMMA OneMore ==
    ASSUME NEW S, IsFiniteSet(S), NEW n \in Nat, Cardinality(S) <= n, NEW x
    PROVE  /\ IsFiniteSet(S \cup {x}) /\ Cardinality(S \cup {x}) \in Nat
           /\ Cardinality(S \cup {x}) <= n + 1
<1>1. /\ IsFiniteSet(S \cup {x})
      /\ \/ Cardinality(S \cup {x}) = Cardinality(S)
         \/ Cardinality(S \cup {x}) = Cardinality(S) + 1
  BY FS_AddElement
<1>2. Cardinality(S) \in Nat
  BY FS_CardinalityType
<1> QED
  BY <1>1, <1>2

LEMMA WorkersCount == Cardinality(Workers) \in Nat
BY StoreAssumption, FS_CardinalityType

LEMMA NewIdIsFree ==
    ASSUME IInv, NEW k \in Keys
    PROVE  NewId(k) \in Ids /\ NewId(k) \notin InUse /\ NewId(k)[1] = k
<1> DEFINE entries == {worker[w].entry : w \in Workers}
           held == entries \cup {stored[k]}
<1>1. IsFiniteSet(entries) /\ Cardinality(entries) <= Cardinality(Workers)
  <2> DEFINE f == [w \in Workers |-> worker[w].entry]
  <2>1. f \in Surjection(Workers, entries)
    BY DEF Surjection
  <2> QED
    BY <2>1, FS_Surjection, StoreAssumption
<1>2. /\ IsFiniteSet(held) /\ Cardinality(held) \in Nat
      /\ Cardinality(held) <= Cardinality(Workers) + 1
  BY <1>1, WorkersCount, OneMore
<1>3. Cardinality(Versions) = Cardinality(Workers) + 2
  <2> DEFINE n == Cardinality(Workers) + 2
  <2>1. 1 \in Int /\ n \in Int /\ n >= 1
    BY WorkersCount
  <2>2. Cardinality(1 .. n) = IF 1 > n THEN 0 ELSE n - 1 + 1
    BY <2>1, FS_Interval
  <2> QED
    BY <2>1, <2>2 DEF Versions
<1>4. ASSUME \A v \in Versions : <<k, v>> \in InUse
      PROVE  FALSE
  <2> DEFINE g == [v \in Versions |-> <<k, v>>]
  <2>1. ASSUME NEW v \in Versions
        PROVE  <<k, v>> \in held
    <3>1. <<k, v>> \in InUse /\ <<k, v>> \in Ids /\ <<k, v>> # None
      BY <1>4, StoreAssumption DEF Ids
    <3>2. ASSUME NEW j \in Keys, <<k, v>> = stored[j]
          PROVE  j = k
      BY <3>1, <3>2 DEF IInv, PointersLead
    <3> QED
      BY <3>1, <3>2 DEF InUse
  <2>2. g \in [Versions -> held]
    BY <2>1
  <2>3. g \in Injection(Versions, held)
    BY <2>2 DEF Injection, IsInjective
  <2>4. Cardinality(Versions) <= Cardinality(held)
    BY <1>2, <2>3, FS_Injection
  <2> QED
    BY <1>2, <1>3, <2>4, WorkersCount
<1>5. PICK v \in Versions : <<k, v>> \notin InUse
  BY <1>4
<1> DEFINE u == CHOOSE x \in Versions : <<k, x>> \notin InUse
<1>6. u \in Versions /\ <<k, u>> \notin InUse
  BY <1>5
<1>7. NewId(k) = <<k, u>>
  BY DEF NewId
<1> HIDE DEF u
<1> QED
  BY <1>6, <1>7 DEF Ids

LEMMA NewSaltIsNew ==
    ASSUME IInv, NEW id \in Ids
    PROVE  NewSalt(id) \in Salts
<1> DEFINE seen == {worker[w].salt : w \in Workers}
           others == (seen \cup {heap[id].salt}) \cup {heap[id].enc.key.salt}
<1>1. IsFiniteSet(seen) /\ Cardinality(seen) <= Cardinality(Workers)
  <2> DEFINE f == [w \in Workers |-> worker[w].salt]
  <2>1. f \in Surjection(Workers, seen)
    BY DEF Surjection
  <2> QED
    BY <2>1, FS_Surjection, StoreAssumption
<1>2. /\ IsFiniteSet(seen \cup {heap[id].salt})
      /\ Cardinality(seen \cup {heap[id].salt}) <= Cardinality(Workers) + 1
  BY <1>1, WorkersCount, OneMore
<1>3. /\ IsFiniteSet(others) /\ Cardinality(others) \in Nat
      /\ Cardinality(others) <= (Cardinality(Workers) + 1) + 1
  <2>1. Cardinality(Workers) + 1 \in Nat
    BY WorkersCount
  <2> QED
    BY <1>2, <2>1, OneMore
<1>5. ASSUME Salts \subseteq others
      PROVE  FALSE
  <2>1. Cardinality(Salts) <= Cardinality(others)
    BY <1>3, <1>5, FS_Subset
  <2>2. Cardinality(Salts) \in Nat
    BY StoreAssumption, FS_CardinalityType
  <2> QED
    BY <1>3, <2>1, <2>2, WorkersCount, StoreAssumption
<1>6. PICK s \in Salts : s \notin others
  BY <1>5
<1>7. /\ s # heap[id].salt
      /\ heap[id].enc # None => s # heap[id].enc.key.salt
      /\ \A w \in Workers : worker[w].entry = id => s # worker[w].salt
  BY <1>6
<1> QED
  BY <1>7 DEF NewSalt

LEMMA FirstSaltType == FirstSalt \in Salts
<1>1. Salts # {}
  <2> SUFFICES ASSUME Salts = {} PROVE FALSE
    OBVIOUS
  <2> QED
    BY StoreAssumption, FS_CardinalityType, FS_EmptySet
<1> QED
  BY <1>1 DEF FirstSalt

-----------------------------------------------------------------------------
(* What every step owes to the other requests *)

GoodKind(e) ==
    /\ None \in {e.password, e.totp}
    /\ ~e.protected => e.password = None /\ e.totp = None
    /\ e.enc # None => e.totp = None

SameKind(e, f) == e.password = f.password /\ e.totp = f.totp /\ e.protected = f.protected

HeapGoesOn ==
    \A id \in Ids :
        \/ heap'[id] = heap[id]
        \/ id \notin InUse /\ heap'[id] # None /\ GoodKind(heap'[id])
        \/ /\ heap[id] # None /\ heap'[id] # None
           /\ SameKind(heap'[id], heap[id]) /\ GoodKind(heap'[id])

StoreGoesOn ==
    \A k \in Keys :
        \/ stored'[k] = stored[k]
        \/ stored'[k] # None /\ stored'[k][1] = k /\ heap'[stored'[k]] # None

\* What somebody uses stays, and asks for what it asked for.
LEMMA InUseStays ==
    ASSUME IInv, HeapGoesOn, NEW id \in Ids, id \in InUse, heap[id] # None
    PROVE  heap'[id] # None /\ SameKind(heap'[id], heap[id])
BY DEF HeapGoesOn, SameKind

GoesOn(w) ==
    /\ IInv' /\ HeapGoesOn /\ StoreGoesOn
    /\ \A v \in Workers \ {w} : worker'[v] = worker[v]

LEMMA StepInv ==
    ASSUME IInv, NEW w \in Workers, NEW l \in Local,
           worker' = [worker EXCEPT ![w] = l],
           stored' \in [Keys -> Ids \cup {None}], heap' \in [Ids -> Entries \cup {None}],
           answer' \in [Workers -> Answer], promise' \in Promises,
           HeapGoesOn, StoreGoesOn,
           l.entry # None => heap'[l.entry] # None,
           RequestFits(w)', CredentialFits(w)'
    PROVE  GoesOn(w)
<1>1. /\ worker' \in [Workers -> Local] /\ worker'[w] = l
      /\ \A v \in Workers \ {w} : worker'[v] = worker[v]
  BY TypeParts
<1>2. TypeOK'
  BY <1>1 DEF TypeOK, Promises
<1>3. PointersLead'
  <2>1. ASSUME NEW k \in Keys, stored'[k] # None
        PROVE  stored'[k][1] = k /\ heap'[stored'[k]] # None
    <3>1. CASE stored'[k] = stored[k]
      <4>1. stored[k] \in Ids /\ stored[k] \in InUse /\ heap[stored[k]] # None /\ stored[k][1] = k
        BY <2>1, <3>1, TypeParts DEF IInv, PointersLead, InUse
      <4> QED
        BY <3>1, <4>1, InUseStays
    <3> QED
      BY <2>1, <3>1 DEF StoreGoesOn
  <2>2. ASSUME NEW v \in Workers \ {w}, worker'[v].entry # None
        PROVE  heap'[worker'[v].entry] # None
    <3>1. /\ worker[v].entry \in Ids /\ worker[v].entry \in InUse
          /\ heap[worker[v].entry] # None /\ worker'[v] = worker[v]
      BY <1>1, <2>2, TypeParts, LocalParts DEF IInv, PointersLead, InUse
    <3> QED
      BY <3>1, InUseStays
  <2> QED
    BY <1>1, <2>1, <2>2 DEF PointersLead
<1>4. KindsOfEntries'
  BY DEF IInv, KindsOfEntries, HeapGoesOn, GoodKind
<1>5. ASSUME NEW v \in Workers \ {w}
      PROVE  RequestFits(v)' /\ CredentialFits(v)'
  <2>1. /\ worker'[v] = worker[v] /\ RequestFits(v) /\ CredentialFits(v)
        /\ worker[v] \in Local
    BY <1>1, TypeParts DEF IInv
  <2>2. \A k \in Keys : stored[k] # None => stored'[k] # None
    BY DEF StoreGoesOn
  <2>3. worker[v].pc \in {"same", "unseal"} => Try(v) \in Keys
    <3>1. ASSUME worker[v].pc \in {"same", "unseal"}
          PROVE  Try(v) \in Keys
      <4>1. Req(v) \in Menu[v] /\ Req(v).op = "generate"
            /\ worker[v].i \in DOMAIN Candidates[TriedData(v)]
        BY <2>1, <3>1 DEF RequestFits, Req
      <4>2. TriedData(v) \in Data
        BY <4>1, MenuType, StoreAssumption DEF TriedData, Data, WellFormed
      <4> QED
        BY <4>1, <4>2, StoreAssumption DEF Try
    <3> QED
      BY <3>1
  <2>4. worker[v].pc \in HasKey => worker[v].key \in Keys
    <3>1. ASSUME worker[v].pc \in HasKey
          PROVE  worker[v].key \in Keys
      <4>1. worker[v].pc # "idle"
        BY <3>1 DEF HasKey, HalfDone
      <4>2. /\ worker[v].req \in Menu[v] /\ worker[v].req.op \in {"get", "post"}
            /\ worker[v].key = worker[v].req.key
        BY <2>1, <3>1, <4>1 DEF RequestFits
      <4> QED
        BY <4>2, MenuType DEF WellFormed
    <3> QED
      BY <3>1
  <2>5. RequestFits(v)'
    BY <2>1, <2>2, <2>3, <2>4 DEF RequestFits, Req, TriedData, Try
  <2>6. worker[v].entry # None =>
            /\ heap'[worker[v].entry].password = heap[worker[v].entry].password
            /\ heap'[worker[v].entry].totp = heap[worker[v].entry].totp
    <3>1. ASSUME worker[v].entry # None
          PROVE  /\ worker[v].entry \in Ids /\ worker[v].entry \in InUse
                 /\ heap[worker[v].entry] # None
      BY <2>1, <3>1, LocalParts DEF IInv, PointersLead, InUse
    <3> QED
      BY <3>1, InUseStays DEF SameKind
  <2>7. CredentialFits(v)'
    <3>1. worker[v].pc \in HasKey =>
              Held(v)'.password = Held(v).password /\ Held(v)'.totp = Held(v).totp
      BY <2>1, <2>6 DEF RequestFits, Held
    <3>2. Req(v)' = Req(v) /\ \A pc \in Pcs : At(v, pc)' <=> At(v, pc)
      BY <2>1 DEF Req, At
    <3> QED
      BY <2>1, <3>1, <3>2 DEF CredentialFits, At, PasswordFits, CodeFits, verifyPassword,
                              ValidateTOTP, HasKey, HalfDone, Sealing, Clearing
  <2> QED
    BY <2>5, <2>7
<1>6. IInv'
  BY <1>2, <1>3, <1>4, <1>5 DEF IInv
<1> QED
  BY <1>1, <1>6 DEF GoesOn

-----------------------------------------------------------------------------
(* The steps that the handlers share *)

LEMMA RestFits ==
    ASSUME NEW w \in Workers, NEW r \in Requests \cup {NoRequest}, r \in Menu[w] \cup {NoRequest},
           worker \in [Workers -> Local], worker' = [worker EXCEPT ![w] = Rest(r)]
    PROVE  /\ Rest(r) \in Local /\ Rest(r).entry = None
           /\ RequestFits(w)' /\ CredentialFits(w)'
<1>1. worker'[w] = Rest(r) /\ Rest(r).pc = "idle" /\ Rest(r).req = r /\ Rest(r).entry = None
  BY DEF Rest
<1>2. Rest(r) \in Local
  BY DEF Rest, Local, Pcs, HalfDone
<1>3. RequestFits(w)'
  BY <1>1 DEF RequestFits, HasKey, Edits, HalfDone
<1>4. CredentialFits(w)'
  BY <1>1 DEF CredentialFits, At, Sealing, Clearing, HalfDone
<1> QED
  BY <1>1, <1>2, <1>3, <1>4

LEMMA BusyRequest ==
    ASSUME IInv, NEW w \in Workers
    PROVE  /\ Req(w) \in Requests \cup {NoRequest} /\ Req(w) \in Menu[w] \cup {NoRequest}
           /\ ~At(w, "idle") => Req(w) \in Menu[w]
BY TypeParts, LocalParts DEF IInv, RequestFits, Req, At

LEMMA FinishInv ==
    ASSUME IInv, NEW w \in Workers, NEW a \in Answer, Finish(w, a),
           stored' \in [Keys -> Ids \cup {None}], heap' \in [Ids -> Entries \cup {None}],
           promise' \in Promises, HeapGoesOn, StoreGoesOn
    PROVE  GoesOn(w)
<1> DEFINE l == Rest(Req(w))
<1>1. worker' = [worker EXCEPT ![w] = l] /\ answer' \in [Workers -> Answer]
  BY TypeParts DEF Finish
<1>2. l \in Local /\ l.entry = None /\ RequestFits(w)' /\ CredentialFits(w)'
  BY <1>1, BusyRequest, RestFits, TypeParts
<1> HIDE DEF l
<1> QED
  BY <1>1, <1>2, StepInv

LEMMA Quiet ==
    ASSUME IInv, UNCHANGED <<stored, heap>>
    PROVE  /\ stored' \in [Keys -> Ids \cup {None}] /\ heap' \in [Ids -> Entries \cup {None}]
           /\ HeapGoesOn /\ StoreGoesOn
BY TypeParts DEF HeapGoesOn, StoreGoesOn

LEMMA QuietFinishInv ==
    ASSUME IInv, NEW w \in Workers, NEW a \in Answer, Finish(w, a),
           UNCHANGED <<stored, heap>>, promise' \in Promises
    PROVE  GoesOn(w)
BY Quiet, FinishInv

LEMMA QuietStepInv ==
    ASSUME IInv, NEW w \in Workers, NEW l \in Local,
           worker' = [worker EXCEPT ![w] = l],
           UNCHANGED <<stored, heap, promise>>, answer' \in [Workers -> Answer],
           l.entry \in {None, worker[w].entry},
           RequestFits(w)', CredentialFits(w)'
    PROVE  GoesOn(w)
<1>1. l.entry # None => heap'[l.entry] # None
  BY DEF IInv, PointersLead
<1> QED
  BY <1>1, Quiet, StepInv, TypeParts

LEMMA PromiseType ==
    ASSUME IInv, NEW k \in Keys, NEW t \in Texts, NEW c \in Passwords \cup Secrets \cup {None},
           Promise(k, t, c)
    PROVE  promise' \in Promises
<1>1. [text |-> t, cred |-> c] \in [text : Texts, cred : Passwords \cup Secrets \cup {None}]
  OBVIOUS
<1> QED
  BY <1>1, TypeParts DEF Promise, Promises

LEMMA PutGoesOn ==
    ASSUME IInv, NEW k \in Keys, NEW e \in Entries, GoodKind(e), Put(k, e)
    PROVE  /\ stored' \in [Keys -> Ids \cup {None}] /\ heap' \in [Ids -> Entries \cup {None}]
           /\ HeapGoesOn /\ StoreGoesOn
<1> DEFINE id == NewId(k)
<1>1. id \in Ids /\ id \notin InUse /\ id[1] = k /\ e # None /\ id # None
  BY NewIdIsFree, EntryAssumption, StoreAssumption
<1>2. stored' = [stored EXCEPT ![k] = id] /\ heap' = [heap EXCEPT ![id] = e]
  BY DEF Put
<1> HIDE DEF id
<1> QED
  BY <1>1, <1>2, TypeParts DEF HeapGoesOn, StoreGoesOn

\* An edit of an entry that is there.
LEMMA WriteGoesOn ==
    ASSUME IInv, NEW id \in Ids, heap[id] # None,
           NEW e \in Entries, SameKind(e, heap[id]), GoodKind(e),
           heap' = [heap EXCEPT ![id] = e], UNCHANGED stored
    PROVE  /\ stored' \in [Keys -> Ids \cup {None}] /\ heap' \in [Ids -> Entries \cup {None}]
           /\ HeapGoesOn /\ StoreGoesOn
<1>1. e # None
  BY EntryAssumption
<1> QED
  BY <1>1, TypeParts DEF HeapGoesOn, StoreGoesOn

LEMMA StoredEntry ==
    ASSUME IInv, NEW k \in Keys, stored[k] # None
    PROVE  /\ stored[k] \in Ids /\ stored[k][1] = k /\ stored[k] \in InUse
           /\ heap[stored[k]] # None /\ heap[stored[k]] \in Entries /\ GoodKind(heap[stored[k]])
BY TypeParts DEF IInv, PointersLead, KindsOfEntries, GoodKind, InUse

LEMMA HeldEntry ==
    ASSUME IInv, NEW w \in Workers, worker[w].entry # None
    PROVE  /\ worker[w].entry \in Ids /\ worker[w].entry \in InUse
           /\ Held(w) # None /\ Held(w) \in Entries /\ GoodKind(Held(w))
BY TypeParts, LocalParts DEF IInv, PointersLead, KindsOfEntries, GoodKind, InUse, Held

LEMMA GetGoesOn ==
    ASSUME IInv, NEW w \in Workers, NEW k \in Keys, stored[k] # None,
           NEW id \in Ids, NEW pc \in Pcs, GetsInto(w, k, id, pc), UNCHANGED stored
    PROVE  /\ heap' \in [Ids -> Entries \cup {None}] /\ stored' \in [Keys -> Ids \cup {None}]
           /\ HeapGoesOn /\ StoreGoesOn
           /\ id[1] = k /\ id # None /\ heap'[id] # None /\ heap'[id] = heap[stored[k]]
           /\ id = stored[k] \/ id \notin InUse
           /\ \A j \in Ids \ {id} : heap'[j] = heap[j]
<1>1. /\ stored[k] \in Ids /\ stored[k][1] = k /\ heap[stored[k]] # None
      /\ heap[stored[k]] \in Entries /\ GoodKind(heap[stored[k]])
  BY StoredEntry
<1>2. CASE Persistent
  <2>1. id = NewId(k) /\ heap' = [heap EXCEPT ![id] = heap[stored[k]]]
    BY <1>2 DEF GetsInto
  <2>2. id \notin InUse /\ id[1] = k /\ id # None
    BY <2>1, NewIdIsFree, StoreAssumption
  <2> QED
    BY <1>1, <2>1, <2>2, TypeParts DEF HeapGoesOn, StoreGoesOn
<1>3. CASE ~Persistent
  <2>1. id = stored[k] /\ UNCHANGED heap
    BY <1>3 DEF GetsInto
  <2> QED
    BY <1>1, <2>1, TypeParts, StoreAssumption DEF HeapGoesOn, StoreGoesOn
<1> QED
  BY <1>2, <1>3

EditedInto(w, e, pc, salt) ==
    \E id \in Ids :
        /\ id[1] = worker[w].key /\ id # None
        /\ id = Target(w) \/ id \notin InUse
        /\ ~Persistent => id = Target(w)
        /\ heap' = [heap EXCEPT ![id] = e] /\ heap'[id] = e
        /\ worker' = [worker EXCEPT ![w] =
               [worker[w] EXCEPT !.entry = id, !.pc = pc, !.salt = salt]]

LEMMA EditGoesOn ==
    ASSUME IInv, NEW w \in Workers, worker[w].key \in Keys, stored[worker[w].key] # None,
           NEW e \in Entries, SameKind(e, heap[Target(w)]), GoodKind(e),
           NEW pc \in Pcs, NEW salt \in Salts \cup {None},
           EditsInto(w, e, pc, salt), UNCHANGED stored
    PROVE  /\ heap' \in [Ids -> Entries \cup {None}] /\ stored' \in [Keys -> Ids \cup {None}]
           /\ HeapGoesOn /\ StoreGoesOn
           /\ EditedInto(w, e, pc, salt)
<1> DEFINE id == IF Persistent THEN NewId(worker[w].key) ELSE Target(w)
<1>1. e # None /\ Target(w) \in Ids /\ Target(w)[1] = worker[w].key /\ heap[Target(w)] # None
  BY EntryAssumption, StoredEntry DEF Target
<1>2. /\ id \in Ids /\ id[1] = worker[w].key /\ id # None
      /\ ~Persistent => id = Target(w)
      /\ Persistent => id \notin InUse
  BY <1>1, NewIdIsFree, StoreAssumption
<1>3. /\ heap' = [heap EXCEPT ![id] = e]
      /\ worker' = [worker EXCEPT ![w].entry = id, ![w].pc = pc, ![w].salt = salt]
  BY DEF EditsInto
<1> HIDE DEF id
<1>4. worker' = [worker EXCEPT ![w] =
          [worker[w] EXCEPT !.entry = id, !.pc = pc, !.salt = salt]]
  BY <1>3, TypeParts
<1>5. heap' \in [Ids -> Entries \cup {None}] /\ heap'[id] = e
  BY <1>2, <1>3, TypeParts
<1>6. HeapGoesOn
  BY <1>1, <1>2, <1>3, TypeParts, StoreAssumption DEF HeapGoesOn
<1>7. stored' \in [Keys -> Ids \cup {None}] /\ StoreGoesOn
  BY TypeParts DEF StoreGoesOn
<1> QED
  BY <1>2, <1>3, <1>4, <1>5, <1>6, <1>7, StoreAssumption DEF EditedInto

-----------------------------------------------------------------------------
(* What a request knows at each point *)

LEMMA Generating ==
    ASSUME IInv, NEW w \in Workers, worker[w].pc \in {"probe", "same", "unseal", "create"}
    PROVE  /\ Req(w) \in Menu[w] /\ Req(w).op = "generate" /\ Req(w).text \in Texts
           /\ Req(w).password \in Passwords \cup {None}
           /\ CreatedKeys(Req(w)) \subseteq Keys
           /\ worker[w].i \in DOMAIN Candidates[TriedData(w)]
                  => Try(w) \in Keys /\ Try(w) \in CreatedKeys(Req(w))
<1>1. Req(w) \in Menu[w] /\ Req(w).op = "generate"
  BY DEF IInv, RequestFits, Req
<1>2. Req(w).text \in Texts /\ Req(w).password \in Passwords \cup {None}
  BY <1>1, MenuType DEF WellFormed
<1>3. TriedData(w) \in Data
  BY <1>2 DEF TriedData, Data
<1>4. Candidates[TriedData(w)] \in Seq(Keys)
  BY <1>3, StoreAssumption
<1>5. CreatedKeys(Req(w)) =
          {Candidates[TriedData(w)][i] : i \in DOMAIN Candidates[TriedData(w)]}
  BY <1>1 DEF CreatedKeys, TriedData
<1> QED
  BY <1>1, <1>2, <1>4, <1>5 DEF Try

LEMMA SettingUp ==
    ASSUME IInv, NEW w \in Workers, worker[w].pc \in {"setup", "pick", "put"}
    PROVE  /\ Req(w) \in Menu[w] /\ Req(w).op = "setup" /\ Req(w).text \in Texts
           /\ Req(w).secret \in Secrets
           /\ CreatedKeys(Req(w)) = RandomKeySet /\ RandomKeySet \subseteq Keys
<1>1. Req(w) \in Menu[w] /\ Req(w).op = "setup"
  BY DEF IInv, RequestFits, Req
<1>2. Req(w).text \in Texts /\ Req(w).secret \in Secrets
  BY <1>1, MenuType DEF WellFormed
<1> QED
  BY <1>1, <1>2, StoreAssumption DEF CreatedKeys, RandomKeySet

LEMMA Opening ==
    ASSUME IInv, NEW w \in Workers, worker[w].pc \in {"lookup"} \cup HasKey
    PROVE  /\ Req(w) \in Menu[w] /\ Req(w).op \in {"get", "post"}
           /\ worker[w].key \in Keys /\ worker[w].key = Req(w).key
           /\ None \notin {Req(w).password, Req(w).code} => Req(w).op = "get"
           /\ Presented(Req(w)) \in Passwords \cup Secrets \cup {None}
           /\ worker[w].pc \in HasKey =>
                 /\ worker[w].entry # None /\ worker[w].entry[1] = worker[w].key
                 /\ stored[worker[w].key] # None
<1>1. Req(w) \in Menu[w] /\ Req(w).op \in {"get", "post"} /\ worker[w].key = Req(w).key
  BY DEF IInv, RequestFits, Req, HasKey, HalfDone
<1>2. worker[w].key \in Keys
  BY <1>1, MenuType DEF WellFormed
<1>3. Presented(Req(w)) \in Passwords \cup Secrets \cup {None}
  BY <1>1, MenuType DEF Presented
<1>4. None \notin {Req(w).password, Req(w).code} => Req(w).op = "get"
  BY <1>1, MenuType DEF WellFormed
<1>5. worker[w].pc \in HasKey =>
          /\ worker[w].entry # None /\ worker[w].entry[1] = worker[w].key
          /\ stored[worker[w].key] # None
  BY DEF IInv, RequestFits
<1> QED
  BY <1>1, <1>2, <1>3, <1>4, <1>5

LEMMA EditingText ==
    ASSUME IInv, NEW w \in Workers, worker[w].pc \in Edits
    PROVE  Req(w).op = "post" /\ Req(w).text \in Texts
<1>1. Req(w).op = "post" /\ Req(w).text # None /\ Req(w) \in Menu[w]
  BY DEF IInv, RequestFits, Req, Edits, HalfDone
<1> QED
  BY <1>1, MenuType

-----------------------------------------------------------------------------
(* Every step keeps the invariant: handleGenerate *)

LEMMA AcceptInv ==
    ASSUME IInv, NEW w \in Workers, NEW r \in Menu[w], Accept(w, r)
    PROVE  GoesOn(w)
<1> DEFINE l == [Rest(r) EXCEPT !.i = 1, !.key = r.key,
                                !.pc = CASE r.op = "generate" -> "probe"
                                         [] r.op = "setup" -> "setup"
                                         [] OTHER -> "lookup"]
<1>1. r \in Requests /\ r.op \in {"generate", "setup", "get", "post"} /\ r.key \in Keys \cup {None}
  BY MenuType
<1>2. /\ l.pc \in {"probe", "setup", "lookup"} /\ l.req = r /\ l.i = 1 /\ l.key = r.key
      /\ l.entry = None /\ l.salt = None
      /\ l.pc = "probe" => r.op = "generate"
      /\ l.pc = "setup" => r.op = "setup"
      /\ l.pc = "lookup" => r.op \in {"get", "post"}
  BY <1>1 DEF Rest
<1>3. l \in Local
  BY <1>1, <1>2 DEF Local, Pcs, Rest, HalfDone
<1>4. worker' = [worker EXCEPT ![w] = l] /\ UNCHANGED <<stored, heap, promise>>
  BY DEF Accept
<1>5. answer' \in [Workers -> Answer]
  BY TypeParts DEF Accept, NoAnswer, Answer
<1> HIDE DEF l
<1>6. worker'[w] = l
  BY <1>4, TypeParts
<1>7. RequestFits(w)'
  <2>1. 1 \in DOMAIN RandomKeys
    BY StoreAssumption
  <2> QED
    BY <1>2, <1>6, <2>1 DEF RequestFits, HasKey, Edits, HalfDone
<1>8. CredentialFits(w)'
  BY <1>2, <1>6 DEF CredentialFits, At, Sealing, Clearing, HalfDone
<1> QED
  BY <1>2, <1>3, <1>4, <1>5, <1>7, <1>8, QuietStepInv

LEMMA RestAt ==
    ASSUME NEW r \in Requests \cup {NoRequest}, NEW pc \in Pcs, NEW i \in Nat
    PROVE  [Rest(r) EXCEPT !.pc = pc, !.i = i] \in Local
BY DEF Rest, Local, Pcs, HalfDone

LEMMA NextTryInv ==
    ASSUME IInv, NEW w \in Workers, NextTry(w), worker[w].pc \in {"same", "unseal"}
    PROVE  GoesOn(w)
<1> DEFINE l == [Rest(Req(w)) EXCEPT !.pc = "probe", !.i = worker[w].i + 1]
<1>1. /\ Req(w) \in Menu[w] /\ Req(w).op = "generate" /\ Req(w) \in Requests
      /\ worker[w].i \in Nat
  BY Generating, MenuType, TypeParts, LocalParts
<1>2. l.pc = "probe" /\ l.req = Req(w) /\ l.entry = None
  BY DEF Rest
<1>3. l \in Local
  <2>1. worker[w].i + 1 \in Nat /\ "probe" \in Pcs
    BY <1>1 DEF Pcs, HalfDone
  <2> QED
    BY <1>1, <2>1, RestAt
<1>4. worker' = [worker EXCEPT ![w] = l] /\ UNCHANGED <<stored, heap, answer, promise>>
  BY DEF NextTry
<1> HIDE DEF l
<1>5. worker'[w] = l
  BY <1>4, TypeParts
<1>6. RequestFits(w)' /\ CredentialFits(w)'
  BY <1>1, <1>2, <1>5 DEF RequestFits, CredentialFits, At, HasKey, Edits, HalfDone, Sealing,
                          Clearing
<1> QED
  BY <1>2, <1>3, <1>4, <1>6, QuietStepInv, TypeParts

LEMMA ProbeEmptyInv ==
    ASSUME IInv, NEW w \in Workers, ProbeEmpty(w)
    PROVE  GoesOn(w)
<1> DEFINE l == [worker[w] EXCEPT !.key = Try(w), !.pc = "create"]
<1>1. /\ Req(w) \in Menu[w] /\ Req(w).op = "generate" /\ Try(w) \in Keys
      /\ Try(w) \in CreatedKeys(Req(w)) /\ worker[w] \in Local
  BY Generating, TypeParts DEF ProbeEmpty, Probing, At
<1>2. worker' = [worker EXCEPT ![w] = l] /\ UNCHANGED <<stored, heap, answer, promise>>
  BY TypeParts DEF ProbeEmpty
<1>3. /\ l \in Local /\ l.pc = "create" /\ l.key = Try(w) /\ l.req = Req(w)
      /\ l.entry = worker[w].entry
  BY <1>1 DEF Local, Pcs, Req, HalfDone
<1> HIDE DEF l
<1>4. worker'[w] = l
  BY <1>2, TypeParts
<1>5. RequestFits(w)' /\ CredentialFits(w)'
  BY <1>1, <1>3, <1>4 DEF RequestFits, CredentialFits, At, HasKey, Edits, HalfDone, Sealing,
                          Clearing
<1> QED
  BY <1>2, <1>3, <1>5, QuietStepInv, TypeParts

LEMMA ProbeTakenInv ==
    ASSUME IInv, NEW w \in Workers, ProbeTaken(w)
    PROVE  GoesOn(w)
<1>1. /\ Req(w) \in Menu[w] /\ Req(w).op = "generate" /\ Try(w) \in Keys
      /\ worker[w] \in Local /\ worker[w].i \in DOMAIN Candidates[TriedData(w)]
      /\ stored[Try(w)] # None
  BY Generating, TypeParts DEF ProbeTaken, Probing, At
<1>2. PICK id \in Ids : GetsInto(w, Try(w), id, "same")
  BY DEF ProbeTaken
<1> DEFINE l == [worker[w] EXCEPT !.entry = id, !.pc = "same"]
<1>3. worker' = [worker EXCEPT ![w] = l] /\ UNCHANGED <<stored, answer, promise>>
  BY <1>2, TypeParts DEF ProbeTaken, GetsInto
<1>4. /\ l \in Local /\ l.pc = "same" /\ l.i = worker[w].i /\ l.req = Req(w) /\ l.entry = id
  BY <1>1 DEF Local, Pcs, Req, HalfDone
<1> HIDE DEF l
<1>5. worker'[w] = l
  BY <1>3, TypeParts
<1>6. /\ heap' \in [Ids -> Entries \cup {None}] /\ stored' \in [Keys -> Ids \cup {None}]
      /\ HeapGoesOn /\ StoreGoesOn /\ id[1] = Try(w) /\ id # None /\ heap'[id] # None
  BY <1>1, <1>2, <1>3, GetGoesOn DEF Pcs, HalfDone
<1>7. RequestFits(w)' /\ CredentialFits(w)'
  BY <1>1, <1>3, <1>4, <1>5, <1>6 DEF RequestFits, CredentialFits, At, HasKey, Edits,
                                      Try, TriedData, Req, HalfDone, Sealing, Clearing
<1> QED
  BY <1>3, <1>4, <1>6, <1>7, StepInv, TypeParts

LEMMA FoundSameInv ==
    ASSUME IInv, NEW w \in Workers, FoundSame(w), worker[w].pc \in {"same", "unseal"}
    PROVE  GoesOn(w)
<1>1. Try(w) \in Keys /\ Req(w).text \in Texts /\ Req(w).password \in Passwords \cup {None}
  BY Generating DEF IInv, RequestFits
<1>2. Redirect(Try(w)) \in Answer
  BY <1>1 DEF Redirect, NoAnswer, Answer
<1>3. promise' \in Promises
  BY <1>1, PromiseType DEF FoundSame
<1> QED
  BY <1>2, <1>3, QuietFinishInv DEF FoundSame

LEMMA CompareSealedInv ==
    ASSUME IInv, NEW w \in Workers, CompareSealed(w)
    PROVE  GoesOn(w)
<1> DEFINE l == [worker[w] EXCEPT !.salt = Held(w).salt, !.pc = "unseal"]
<1>1. /\ worker[w] \in Local /\ worker[w].pc = "same" /\ worker[w].entry # None
      /\ RequestFits(w)
  BY TypeParts DEF CompareSealed, At, IInv, RequestFits
<1>2. Held(w).salt \in Salts \cup {None} /\ Held(w).password = Req(w).password
      /\ Req(w).password # None
  BY <1>1, HeldEntry, EntryParts DEF CompareSealed, verifyPassword
<1>3. worker' = [worker EXCEPT ![w] = l] /\ UNCHANGED <<stored, heap, answer, promise>>
  BY TypeParts DEF CompareSealed
<1>4. /\ l \in Local /\ l.pc = "unseal" /\ l.req = worker[w].req /\ l.i = worker[w].i
      /\ l.entry = worker[w].entry /\ l.key = worker[w].key
  BY <1>1, <1>2 DEF Local, Pcs, HalfDone
<1> HIDE DEF l
<1>5. worker'[w] = l
  BY <1>3, TypeParts
<1>6. RequestFits(w)'
  BY <1>1, <1>3, <1>4, <1>5 DEF RequestFits, HasKey, Edits, Try, TriedData, Req, HalfDone
<1>7. CredentialFits(w)'
  BY <1>2, <1>4, <1>5 DEF CredentialFits, At, Req, Sealing, Clearing, HalfDone
<1> QED
  BY <1>3, <1>4, <1>6, <1>7, QuietStepInv, TypeParts

LEMMA CompareInv ==
    ASSUME IInv, NEW w \in Workers, CompareDecrypted(w) \/ ComparePlain(w) \/ CompareOther(w)
    PROVE  GoesOn(w)
<1>1. worker[w].pc \in {"same", "unseal"}
  BY DEF CompareDecrypted, ComparePlain, CompareOther, At
<1>2. FoundSame(w) \/ NextTry(w)
  BY DEF CompareDecrypted, ComparePlain, CompareOther
<1> QED
  BY <1>1, <1>2, FoundSameInv, NextTryInv

LEMMA NewEntryType ==
    ASSUME NEW t \in Texts, NEW p \in Passwords \cup {None}
    PROVE  /\ PublicEntry(t) \in Entries /\ GoodKind(PublicEntry(t))
           /\ \A s \in Secrets : TotpEntry(t, s) \in Entries /\ GoodKind(TotpEntry(t, s))
           /\ p # None =>
                 /\ PasswordEntry(t, p, FirstSalt) \in Entries
                 /\ GoodKind(PasswordEntry(t, p, FirstSalt))
                 /\ UnsealedEntry(t, p) \in Entries /\ GoodKind(UnsealedEntry(t, p))
<1>1. PublicEntry(t) \in Entries /\ GoodKind(PublicEntry(t))
  BY DEF PublicEntry, Entries, GoodKind
<1>2. \A s \in Secrets : TotpEntry(t, s) \in Entries /\ GoodKind(TotpEntry(t, s))
  BY DEF TotpEntry, PublicEntry, Entries, GoodKind
<1>3. ASSUME p # None
      PROVE  /\ PasswordEntry(t, p, FirstSalt) \in Entries
             /\ GoodKind(PasswordEntry(t, p, FirstSalt))
             /\ UnsealedEntry(t, p) \in Entries /\ GoodKind(UnsealedEntry(t, p))
  <2>1. hashPassword(p) \in Passwords \cup {None}
    BY DEF hashPassword
  <2>2. encrypt(t, deriveKey(p, FirstSalt)) \in Cipher
    BY <1>3, FirstSaltType DEF encrypt, deriveKey, Cipher, CipherKey
  <2> HIDE DEF hashPassword, encrypt
  <2>3. PasswordEntry(t, p, FirstSalt) \in Entries
    BY <2>1, <2>2, FirstSaltType DEF PasswordEntry, PublicEntry, Entries
  <2>4. GoodKind(PasswordEntry(t, p, FirstSalt))
    BY <2>1, <2>2 DEF PasswordEntry, PublicEntry, GoodKind
  <2>5. UnsealedEntry(t, p) \in Entries /\ GoodKind(UnsealedEntry(t, p))
    BY <2>1 DEF UnsealedEntry, PublicEntry, Entries, GoodKind
  <2> QED
    BY <2>3, <2>4, <2>5
<1> QED
  BY <1>1, <1>2, <1>3

LEMMA CreateInv ==
    ASSUME IInv, NEW w \in Workers, Create(w)
    PROVE  GoesOn(w)
<1> DEFINE k == worker[w].key
           p == Req(w).password
           t == Req(w).text
<1>1. k \in Keys /\ t \in Texts /\ p \in Passwords \cup {None}
  BY Generating DEF Create, At, IInv, RequestFits, Req
<1>2. /\ Finish(w, Redirect(k)) /\ Promise(k, t, p)
      /\ \E e \in Entries : GoodKind(e) /\ Put(k, e)
  BY <1>1, NewEntryType DEF Create
<1>3. Redirect(k) \in Answer
  BY <1>1 DEF Redirect, NoAnswer, Answer
<1>4. promise' \in Promises
  BY <1>1, <1>2, PromiseType
<1> QED
  BY <1>1, <1>2, <1>3, <1>4, PutGoesOn, FinishInv

-----------------------------------------------------------------------------
(* handleSetupTOTP *)

LEMMA PageType ==
    /\ \A p \in {"none", "redirect", "home", "lock", "wrong", "shown"} : Page(p) \in Answer
    /\ \A t \in Texts \cup {None, Torn}, u \in BOOLEAN : Shown(t, u) \in Answer
BY DEF Page, Shown, NoAnswer, Answer

LEMMA SetupRefusedInv ==
    ASSUME IInv, NEW w \in Workers, SetupRefused(w)
    PROVE  GoesOn(w)
BY QuietFinishInv, PageType, TypeParts DEF SetupRefused

LEMMA GotoFits ==
    ASSUME IInv, NEW w \in Workers, NEW pc \in Pcs, Goto(w, pc)
    PROVE  \E l \in Local :
               /\ worker' = [worker EXCEPT ![w] = l] /\ worker'[w] = l
               /\ l.pc = pc /\ l.req = worker[w].req /\ l.i = worker[w].i
               /\ l.key = worker[w].key /\ l.entry = worker[w].entry /\ l.salt = worker[w].salt
<1> DEFINE l == [worker[w] EXCEPT !.pc = pc]
<1>1. worker[w] \in Local
  BY TypeParts
<1>2. l \in Local
  BY <1>1 DEF Local
<1>3. /\ l.pc = pc /\ l.req = worker[w].req /\ l.i = worker[w].i
      /\ l.key = worker[w].key /\ l.entry = worker[w].entry /\ l.salt = worker[w].salt
  BY <1>1 DEF Local
<1>4. worker' = [worker EXCEPT ![w] = l] /\ worker'[w] = l
  BY TypeParts DEF Goto
<1> QED
  BY <1>2, <1>3, <1>4

LEMMA SetupVerifiedInv ==
    ASSUME IInv, NEW w \in Workers, SetupVerified(w)
    PROVE  GoesOn(w)
<1>1. RequestFits(w) /\ worker[w].pc = "setup" /\ UNCHANGED <<stored, heap, answer, promise>>
  BY DEF IInv, SetupVerified, At
<1>2. PICK l \in Local :
          /\ worker' = [worker EXCEPT ![w] = l] /\ worker'[w] = l
          /\ l.pc = "pick" /\ l.req = worker[w].req /\ l.i = worker[w].i
          /\ l.key = worker[w].key /\ l.entry = worker[w].entry /\ l.salt = worker[w].salt
  <2>1. Goto(w, "pick") /\ "pick" \in Pcs
    BY DEF SetupVerified, Pcs, HalfDone
  <2> QED
    BY <2>1, GotoFits
<1>3. RequestFits(w)' /\ CredentialFits(w)'
  BY <1>1, <1>2 DEF RequestFits, CredentialFits, At, HasKey, Edits, HalfDone, Sealing, Clearing
<1> QED
  BY <1>1, <1>2, <1>3, QuietStepInv, TypeParts

LEMMA PickKeyInv ==
    ASSUME IInv, NEW w \in Workers, PickKey(w)
    PROVE  GoesOn(w)
<1> DEFINE i == worker[w].i
<1>1. /\ RequestFits(w) /\ worker[w].pc = "pick" /\ UNCHANGED <<stored, heap, answer, promise>>
      /\ worker[w] \in Local /\ i \in DOMAIN RandomKeys /\ Req(w).op = "setup"
  BY TypeParts, SettingUp DEF IInv, PickKey, At, RequestFits
<1>2. PICK k \in RandomKeys[i] :
          /\ i = Len(RandomKeys) => stored[k] = None
          /\ worker' = IF stored[k] = None
                       THEN [worker EXCEPT ![w].key = k, ![w].pc = "put"]
                       ELSE [worker EXCEPT ![w].i = i + 1]
  BY DEF PickKey
<1>3. k \in RandomKeySet /\ k \in Keys /\ CreatedKeys(Req(w)) = RandomKeySet
  BY <1>1, <1>2, SettingUp DEF RandomKeySet
<1>4. CASE stored[k] = None
  <2> DEFINE l == [worker[w] EXCEPT !.key = k, !.pc = "put"]
  <2>1. worker' = [worker EXCEPT ![w] = l]
    BY <1>2, <1>4, TypeParts
  <2>2. l \in Local /\ l.pc = "put" /\ l.key = k /\ l.req = Req(w) /\ l.entry = worker[w].entry
    BY <1>1, <1>3 DEF Local, Pcs, Req, HalfDone
  <2> HIDE DEF l
  <2>3. worker'[w] = l
    BY <2>1, TypeParts
  <2>4. RequestFits(w)' /\ CredentialFits(w)'
    BY <1>1, <1>3, <2>2, <2>3 DEF RequestFits, CredentialFits, At, HasKey, Edits, Req, HalfDone,
                                  Sealing, Clearing
  <2> QED
    BY <1>1, <2>1, <2>2, <2>4, QuietStepInv, TypeParts
<1>5. CASE stored[k] # None
  <2>1. i # Len(RandomKeys) /\ i + 1 \in DOMAIN RandomKeys /\ i + 1 \in Nat
    BY <1>1, <1>2, <1>5, StoreAssumption
  <2> DEFINE n == i + 1
             l == [worker[w] EXCEPT !.i = n]
  <2>2. n \in DOMAIN RandomKeys /\ n \in Nat
    BY <2>1
  <2>3. worker' = [worker EXCEPT ![w].i = n]
    BY <1>2, <1>5
  <2> HIDE DEF n
  <2>4. worker' = [worker EXCEPT ![w] = l]
    BY <2>3, TypeParts
  <2>5. l \in Local /\ l.pc = "pick" /\ l.i = n /\ l.req = Req(w) /\ l.entry = worker[w].entry
    BY <1>1, <2>2 DEF Local, Req
  <2> HIDE DEF l
  <2>6. worker'[w] = l
    BY <2>4, TypeParts
  <2>7. RequestFits(w)' /\ CredentialFits(w)'
    BY <1>1, <2>2, <2>5, <2>6 DEF RequestFits, CredentialFits, At, HasKey, Edits, Req, HalfDone,
                                  Sealing, Clearing
  <2> QED
    BY <1>1, <2>4, <2>5, <2>7, QuietStepInv, TypeParts
<1> QED
  BY <1>4, <1>5

LEMMA PutTOTPInv ==
    ASSUME IInv, NEW w \in Workers, PutTOTP(w)
    PROVE  GoesOn(w)
<1> DEFINE k == worker[w].key
<1>1. k \in Keys /\ Req(w).text \in Texts /\ Req(w).secret \in Secrets
  BY SettingUp DEF PutTOTP, At, IInv, RequestFits, Req
<1>2. /\ Finish(w, Redirect(k)) /\ Promise(k, Req(w).text, Req(w).secret)
      /\ \E e \in Entries : GoodKind(e) /\ Put(k, e)
  <2>1. /\ TotpEntry(Req(w).text, Req(w).secret) \in Entries
        /\ GoodKind(TotpEntry(Req(w).text, Req(w).secret))
    BY <1>1, NewEntryType
  <2> QED
    BY <2>1 DEF PutTOTP
<1>3. Redirect(k) \in Answer
  BY <1>1 DEF Redirect, NoAnswer, Answer
<1>4. promise' \in Promises
  BY <1>1, <1>2, PromiseType
<1> QED
  BY <1>1, <1>2, <1>3, <1>4, PutGoesOn, FinishInv

-----------------------------------------------------------------------------
(* handleView *)

LEMMA LookupNothingInv ==
    ASSUME IInv, NEW w \in Workers, LookupNothing(w)
    PROVE  GoesOn(w)
BY QuietFinishInv, PageType, TypeParts DEF LookupNothing

LEMMA LookupInv ==
    ASSUME IInv, NEW w \in Workers, Lookup(w)
    PROVE  GoesOn(w)
<1> DEFINE k == worker[w].key
<1>1. /\ Req(w) \in Menu[w] /\ Req(w).op \in {"get", "post"} /\ k \in Keys /\ k = Req(w).key
      /\ worker[w] \in Local /\ stored[k] # None
  BY Opening, TypeParts DEF Lookup, At
<1>2. PICK id \in Ids : GetsInto(w, k, id, "view")
  BY DEF Lookup
<1> DEFINE l == [worker[w] EXCEPT !.entry = id, !.pc = "view"]
<1>3. worker' = [worker EXCEPT ![w] = l] /\ UNCHANGED <<stored, answer, promise>>
  BY <1>2, TypeParts DEF Lookup, GetsInto
<1>4. /\ l \in Local /\ l.pc = "view" /\ l.key = k /\ l.req = Req(w) /\ l.entry = id
  BY <1>1 DEF Local, Pcs, Req, HalfDone
<1> HIDE DEF l
<1>5. worker'[w] = l
  BY <1>3, TypeParts
<1>6. /\ heap' \in [Ids -> Entries \cup {None}] /\ stored' \in [Keys -> Ids \cup {None}]
      /\ HeapGoesOn /\ StoreGoesOn /\ id[1] = k /\ id # None /\ heap'[id] # None
  BY <1>1, <1>2, <1>3, GetGoesOn DEF Pcs, HalfDone
<1>7. RequestFits(w)' /\ CredentialFits(w)'
  BY <1>1, <1>3, <1>4, <1>5, <1>6 DEF RequestFits, CredentialFits, At, HasKey, Edits, HalfDone,
                                      Sealing, Clearing
<1> QED
  BY <1>3, <1>4, <1>6, <1>7, StepInv, TypeParts

LEMMA HeldTextType ==
    ASSUME IInv, NEW w \in Workers, worker[w].pc \in HasKey
    PROVE  Held(w).text \in Texts \cup {None, Torn} /\ Held(w).salt \in Salts \cup {None}
BY Opening, HeldEntry, EntryParts

LEMMA ShowOrLockInv ==
    ASSUME IInv, NEW w \in Workers, ShowOrLock(w)
    PROVE  GoesOn(w)
<1>1. Held(w).text \in Texts \cup {None, Torn}
  BY HeldTextType DEF ShowOrLock, At, HasKey, HalfDone
<1>2. PICK a \in Answer : Finish(w, a)
  BY <1>1, PageType DEF ShowOrLock
<1> QED
  BY <1>2, QuietFinishInv, TypeParts DEF ShowOrLock

\* A credential that fits takes an edit on to updateEntry.
LEMMA GoUpdateInv ==
    ASSUME IInv, NEW w \in Workers, Goto(w, "update"), worker[w].pc \in {"view", "decrypt"},
           Req(w).op = "post", Req(w).text # None, CodeFits(w) \/ PasswordFits(w),
           UNCHANGED <<stored, heap, answer, promise>>
    PROVE  GoesOn(w)
<1>1. RequestFits(w) /\ worker[w].pc \in HasKey
  BY DEF IInv, HasKey, HalfDone
<1>2. PICK l \in Local :
          /\ worker' = [worker EXCEPT ![w] = l] /\ worker'[w] = l
          /\ l.pc = "update" /\ l.req = worker[w].req /\ l.i = worker[w].i
          /\ l.key = worker[w].key /\ l.entry = worker[w].entry /\ l.salt = worker[w].salt
  <2>1. "update" \in Pcs
    BY DEF Pcs, HalfDone
  <2> QED
    BY <2>1, GotoFits
<1>3. RequestFits(w)'
  BY <1>1, <1>2 DEF RequestFits, HasKey, Edits, Req, HalfDone
<1>4. Held(w)' = Held(w) /\ Req(w)' = Req(w)
  BY <1>2 DEF Held, Req
<1>5. CredentialFits(w)'
  BY <1>2, <1>4 DEF CredentialFits, At, CodeFits, PasswordFits, Sealing, Clearing, HalfDone
<1> QED
  BY <1>2, <1>3, <1>5, QuietStepInv, TypeParts

LEMMA ShowOrUpdateInv ==
    ASSUME IInv, NEW w \in Workers, NEW text \in Texts \cup {None, Torn}, ShowOrUpdate(w, text),
           worker[w].pc \in {"view", "decrypt"}, Req(w).op = "post",
           CodeFits(w) \/ PasswordFits(w), UNCHANGED <<stored, heap, promise>>
    PROVE  GoesOn(w)
<1>1. CASE Req(w).text = None
  <2>1. Finish(w, Shown(text, FALSE)) /\ Shown(text, FALSE) \in Answer
    BY <1>1, PageType DEF ShowOrUpdate
  <2> QED
    BY <2>1, QuietFinishInv, TypeParts
<1>2. CASE Req(w).text # None
  BY <1>2, GoUpdateInv DEF ShowOrUpdate
<1> QED
  BY <1>1, <1>2

LEMMA ShowTOTPInv ==
    ASSUME IInv, NEW w \in Workers, ShowTOTP(w)
    PROVE  GoesOn(w)
<1>1. worker[w].pc = "view" /\ Req(w).op = "post" /\ CodeFits(w)
  BY DEF ShowTOTP, Presents, At
<1>2. Held(w).text \in Texts \cup {None, Torn}
  BY <1>1, HeldTextType DEF HasKey, HalfDone
<1> QED
  BY <1>1, <1>2, ShowOrUpdateInv DEF ShowTOTP, ShowOrUpdate

LEMMA ReadSaltInv ==
    ASSUME IInv, NEW w \in Workers, ReadSalt(w)
    PROVE  GoesOn(w)
<1> DEFINE l == [worker[w] EXCEPT !.salt = Held(w).salt, !.pc = "decrypt"]
<1>1. /\ worker[w] \in Local /\ worker[w].pc = "view" /\ Req(w).op = "post"
      /\ RequestFits(w) /\ PasswordFits(w) /\ UNCHANGED <<stored, heap, answer, promise>>
  BY TypeParts DEF IInv, ReadSalt, Presents, At
<1>2. Held(w).salt \in Salts \cup {None}
  BY <1>1, HeldTextType DEF HasKey, HalfDone
<1>3. worker' = [worker EXCEPT ![w] = l]
  BY TypeParts DEF ReadSalt
<1>4. /\ l \in Local /\ l.pc = "decrypt" /\ l.req = worker[w].req
      /\ l.entry = worker[w].entry /\ l.key = worker[w].key
  BY <1>1, <1>2 DEF Local, Pcs, HalfDone
<1> HIDE DEF l
<1>5. worker'[w] = l
  BY <1>3, TypeParts
<1>6. RequestFits(w)'
  BY <1>1, <1>4, <1>5 DEF RequestFits, HasKey, Edits, Req, HalfDone
<1>7. CredentialFits(w)'
  BY <1>1, <1>4, <1>5 DEF CredentialFits, At, PasswordFits, Held, Req, Sealing, Clearing, HalfDone
<1> QED
  BY <1>1, <1>3, <1>4, <1>6, <1>7, QuietStepInv, TypeParts

LEMMA ShowUnsealedInv ==
    ASSUME IInv, NEW w \in Workers, ShowUnsealed(w)
    PROVE  GoesOn(w)
<1>1. worker[w].pc = "view" /\ Req(w).op = "post" /\ PasswordFits(w)
  BY DEF ShowUnsealed, Presents, At
<1>2. Held(w).text \in Texts \cup {None, Torn}
  BY <1>1, HeldTextType DEF HasKey, HalfDone
<1> QED
  BY <1>1, <1>2, ShowOrUpdateInv DEF ShowUnsealed

LEMMA UnsealType ==
    ASSUME NEW enc \in Cipher \cup {None}, NEW salt, NEW p
    PROVE  Unseal(enc, salt, p) \in Texts \cup {Failed}
BY DEF Unseal, decrypt, Cipher

LEMMA DecryptInv ==
    ASSUME IInv, NEW w \in Workers, Decrypt(w)
    PROVE  GoesOn(w)
<1> DEFINE text == Unseal(Held(w).enc, worker[w].salt, Req(w).password)
<1>1. worker[w].pc = "decrypt" /\ Req(w).op = "post" /\ PasswordFits(w)
  BY DEF IInv, Decrypt, At, RequestFits, CredentialFits, Req, Sealing, Clearing, HalfDone
<1>2. Held(w).enc \in Cipher \cup {None}
  BY <1>1, Opening, HeldEntry, EntryParts DEF HasKey, HalfDone
<1>3. text \in Texts \cup {Failed}
  BY <1>2, UnsealType
<1>4. CASE text = Failed
  BY <1>4, PageType, QuietFinishInv, TypeParts DEF Decrypt
<1>5. CASE text # Failed
  <2>1. ShowOrUpdate(w, text) /\ UNCHANGED <<stored, heap, promise>>
    BY <1>5 DEF Decrypt
  <2> HIDE DEF text
  <2> QED
    BY <1>1, <1>3, <1>5, <2>1, ShowOrUpdateInv
<1> QED
  BY <1>4, <1>5

LEMMA WrongCredentialInv ==
    ASSUME IInv, NEW w \in Workers, WrongCredential(w)
    PROVE  GoesOn(w)
BY QuietFinishInv, PageType, TypeParts DEF WrongCredential

-----------------------------------------------------------------------------
(* updateEntry *)

\* The entry that updateEntry gets, for someone whose credential fits the one
\* he has seen.
LEMMA Updating ==
    ASSUME IInv, NEW w \in Workers, At(w, "update")
    PROVE  /\ worker[w].key \in Keys /\ stored[worker[w].key] # None
           /\ Req(w).op = "post" /\ Req(w).text \in Texts
           /\ Target(w) \in Ids /\ heap[Target(w)] # None /\ heap[Target(w)] \in Entries
           /\ GoodKind(heap[Target(w)])
<1>1. worker[w].pc \in Edits /\ worker[w].pc \in HasKey
  BY DEF At, Edits, HasKey, HalfDone
<1>2. worker[w].key \in Keys /\ stored[worker[w].key] # None
  BY <1>1, Opening
<1> QED
  BY <1>1, <1>2, EditingText, StoredEntry DEF Target

LEMMA EditPasswordFits ==
    ASSUME IInv, NEW w \in Workers, At(w, "update"), EditPassword(w) # None
    PROVE  Req(w).password = EditPassword(w) /\ Req(w).password \in Passwords
<1>1. Req(w) \in Menu[w]
  BY Opening DEF At, HasKey, HalfDone
<1> QED
  BY <1>1, MenuType DEF EditPassword

\* A new salt, or half of a text, is in the entry: who did it comes back.
LEMMA EditStepInv ==
    ASSUME IInv, NEW w \in Workers, At(w, "update"),
           NEW e \in Entries, SameKind(e, heap[Target(w)]), GoodKind(e),
           NEW pc \in {"reseal", "clear", "write"}, NEW salt \in Salts \cup {None},
           EditsInto(w, e, pc, salt), UNCHANGED <<stored, answer, promise>>,
           pc # "write" => Req(w).password # None /\ e.password # None,
           pc = "reseal" => salt # None
    PROVE  GoesOn(w)
<1>1. /\ worker[w].key \in Keys /\ stored[worker[w].key] # None /\ pc \in Pcs
      /\ RequestFits(w) /\ worker[w] \in Local /\ worker[w].pc = "update"
  BY Updating, TypeParts DEF IInv, At, Pcs, HalfDone
<1>2. /\ heap' \in [Ids -> Entries \cup {None}] /\ stored' \in [Keys -> Ids \cup {None}]
      /\ HeapGoesOn /\ StoreGoesOn /\ EditedInto(w, e, pc, salt)
  BY <1>1, EditGoesOn
<1>3. PICK id \in Ids :
          /\ id[1] = worker[w].key /\ id # None /\ heap'[id] = e
          /\ worker' = [worker EXCEPT ![w] =
                 [worker[w] EXCEPT !.entry = id, !.pc = pc, !.salt = salt]]
  BY <1>2 DEF EditedInto
<1> DEFINE l == [worker[w] EXCEPT !.entry = id, !.pc = pc, !.salt = salt]
<1>4. /\ l \in Local /\ l.pc = pc /\ l.req = worker[w].req /\ l.key = worker[w].key
      /\ l.entry = id /\ l.salt = salt
  BY <1>1 DEF Local
<1>5. worker' = [worker EXCEPT ![w] = l]
  BY <1>3
<1> HIDE DEF l
<1>6. worker'[w] = l
  BY <1>5, TypeParts
<1>7. RequestFits(w)'
  BY <1>1, <1>3, <1>4, <1>6 DEF RequestFits, HasKey, Edits, Req, HalfDone
<1>8. CredentialFits(w)'
  BY <1>3, <1>4, <1>6 DEF CredentialFits, At, Held, Req, Sealing, Clearing, HalfDone
<1>9. e # None
  BY EntryAssumption
<1> QED
  BY <1>2, <1>3, <1>4, <1>5, <1>7, <1>8, <1>9, StepInv, TypeParts

LEMMA UpdateSaltInv ==
    ASSUME IInv, NEW w \in Workers, UpdateSalt(w)
    PROVE  GoesOn(w)
<1> DEFINE s == NewSalt(Target(w))
           e == [heap[Target(w)] EXCEPT !.salt = s]
<1>1. At(w, "update") /\ Sealed(w) /\ EditsInto(w, e, "reseal", s)
      /\ UNCHANGED <<stored, answer, promise>>
  BY DEF UpdateSalt
<1>2. Target(w) \in Ids /\ heap[Target(w)] \in Entries /\ GoodKind(heap[Target(w)])
  BY <1>1, Updating
<1>3. s \in Salts /\ s # None
  BY <1>2, NewSaltIsNew, EntryAssumption
<1>4. heap[Target(w)].password # None /\ EditPassword(w) # None /\ Req(w).password # None
  BY <1>1, EditPasswordFits DEF Sealed
<1> HIDE DEF s
<1>5. e \in Entries /\ SameKind(e, heap[Target(w)]) /\ GoodKind(e) /\ e.password # None
  BY <1>2, <1>3, <1>4 DEF Entries, SameKind, GoodKind
<1> HIDE DEF e
<1> QED
  BY <1>1, <1>3, <1>4, <1>5, EditStepInv

LEMMA WriteTextInv ==
    ASSUME IInv, NEW w \in Workers, WriteText(w)
    PROVE  GoesOn(w)
<1> DEFINE e == [heap[Target(w)] EXCEPT !.text = Torn, !.begun = Req(w).text]
<1>1. At(w, "update") /\ EditsInto(w, e, "write", None) /\ UNCHANGED <<stored, answer, promise>>
  BY DEF WriteText
<1>2. heap[Target(w)] \in Entries /\ GoodKind(heap[Target(w)]) /\ Req(w).text \in Texts
  BY <1>1, Updating
<1>3. e \in Entries /\ SameKind(e, heap[Target(w)]) /\ GoodKind(e)
  BY <1>2 DEF Entries, SameKind, GoodKind
<1> HIDE DEF e
<1> QED
  BY <1>1, <1>3, EditStepInv

LEMMA UpdateUnsealedInv ==
    ASSUME IInv, NEW w \in Workers, UpdateUnsealed(w)
    PROVE  GoesOn(w)
<1> DEFINE e == WithText(heap[Target(w)], Req(w).text)
<1>1. /\ At(w, "update") /\ Sealed(w) /\ EditsInto(w, e, "clear", None)
      /\ UNCHANGED <<stored, answer, promise>>
  BY DEF UpdateUnsealed
<1>2. heap[Target(w)] \in Entries /\ GoodKind(heap[Target(w)]) /\ Req(w).text \in Texts
  BY <1>1, Updating
<1>3. heap[Target(w)].password # None /\ Req(w).password # None
  BY <1>1, EditPasswordFits DEF Sealed
<1>4. e \in Entries /\ SameKind(e, heap[Target(w)]) /\ GoodKind(e) /\ e.password # None
  BY <1>2, <1>3 DEF WithText, Entries, SameKind, GoodKind
<1> HIDE DEF e
<1> QED
  BY <1>1, <1>3, <1>4, EditStepInv

\* The fields that follow, once the salt or the text is written.
FieldStep(w) ==
    Reseal(w) \/ Seal(w) \/ ResealFailed(w) \/ ClearCipher(w) \/ ClearSalt(w)

LEMMA HalfWritten ==
    ASSUME IInv, NEW w \in Workers, worker[w].pc \in Sealing \cup Clearing
    PROVE  /\ worker[w].key \in Keys /\ Req(w).text \in Texts /\ Req(w).password \in Passwords
           /\ worker[w].entry \in Ids /\ worker[w].entry # None
           /\ worker[w].entry \in InUse /\ worker[w].entry[1] = worker[w].key
           /\ Held(w) = heap[worker[w].entry] /\ Held(w) \in Entries /\ Held(w) # None
           /\ GoodKind(Held(w)) /\ Held(w).password # None /\ Held(w).totp = None
           /\ worker[w].pc \in Sealing => worker[w].salt \in Salts
<1>1. worker[w].pc \in HasKey /\ worker[w].pc \in Edits
  BY DEF HasKey, Edits, HalfDone, Sealing, Clearing
<1>2. /\ worker[w].key \in Keys /\ Req(w) \in Menu[w] /\ worker[w].entry # None
      /\ Req(w).text \in Texts /\ worker[w].entry[1] = worker[w].key
  BY <1>1, Opening, EditingText
<1>3. /\ worker[w].entry \in Ids /\ worker[w].entry \in InUse
      /\ Held(w) \in Entries /\ Held(w) # None /\ GoodKind(Held(w))
  BY <1>2, HeldEntry
<1>4. /\ Req(w).password # None /\ Held(w).password # None
      /\ worker[w].pc \in Sealing => worker[w].salt # None
  BY DEF IInv, CredentialFits
<1>5. Req(w).password \in Passwords /\ worker[w].salt \in Salts \cup {None}
  BY <1>2, <1>4, MenuType, TypeParts, LocalParts
<1>6. Held(w).totp = None
  BY <1>3, <1>4 DEF GoodKind
<1> QED
  BY <1>2, <1>3, <1>4, <1>5, <1>6 DEF Held

NewCipher(w) == encrypt(Req(w).text, deriveKey(Req(w).password, worker[w].salt))

\* Each writes a field or two of the entry it holds: a text that the request
\* brings or none, its ciphertext or none, no salt; the rest is as it was.
Field(w, e) ==
    /\ e \in Entries /\ SameKind(e, Held(w)) /\ GoodKind(e)
    /\ \/ At(w, "reseal") /\ e.text = None /\ e.enc = Held(w).enc /\ e.salt = Held(w).salt
       \/ At(w, "reseal") /\ SaltMayFail /\ e.text = Req(w).text /\ e.enc = Held(w).enc
             /\ e.salt = Held(w).salt
       \/ At(w, "seal") /\ e.text = Held(w).text /\ e.enc = NewCipher(w) /\ e.enc \in Cipher
             /\ e.salt = Held(w).salt
       \/ At(w, "clear") /\ e.text = Held(w).text /\ e.enc = None /\ e.salt = Held(w).salt
       \/ At(w, "unsalt") /\ e.text = Held(w).text /\ e.enc = Held(w).enc /\ e.salt = None

FieldNext(w, e, pc) ==
    /\ GoesOnWriting(w, e, pc)
    /\ \/ pc = "seal" /\ At(w, "reseal") /\ e.text = None
       \/ pc = "clear" /\ At(w, "reseal") /\ e.text = Req(w).text /\ SaltMayFail
       \/ pc = "unsalt" /\ At(w, "clear")

LEMMA FieldWritten ==
    ASSUME IInv, NEW w \in Workers, FieldStep(w)
    PROVE  /\ worker[w].pc \in Sealing \cup Clearing
           /\ \E e \in Entries :
                  /\ Field(w, e)
                  /\ \/ \E pc \in {"seal", "clear", "unsalt"} : FieldNext(w, e, pc)
                     \/ LastWrite(w, e) /\ worker[w].pc \in {"seal", "unsalt"}
<1>1. worker[w].pc \in Sealing \cup Clearing
  BY DEF FieldStep, Reseal, Seal, ResealFailed, ClearCipher, ClearSalt, At, Sealing, Clearing
<1>2. /\ Held(w) \in Entries /\ GoodKind(Held(w)) /\ Held(w).totp = None
      /\ Req(w).text \in Texts /\ Req(w).password \in Passwords
      /\ worker[w].pc \in Sealing => worker[w].salt \in Salts
  BY <1>1, HalfWritten
<1> DEFINE Goal == \E e \in Entries :
               /\ Field(w, e)
               /\ \/ \E pc \in {"seal", "clear", "unsalt"} : FieldNext(w, e, pc)
                  \/ LastWrite(w, e) /\ worker[w].pc \in {"seal", "unsalt"}
<1>3. ASSUME Reseal(w)
      PROVE  Goal
  <2> DEFINE e == WithText(Held(w), None)
  <2>1. At(w, "reseal") /\ GoesOnWriting(w, e, "seal")
    BY <1>3 DEF Reseal
  <2>2. /\ e \in Entries /\ SameKind(e, Held(w)) /\ GoodKind(e)
        /\ e.text = None /\ e.enc = Held(w).enc /\ e.salt = Held(w).salt
    BY <1>2 DEF WithText, Entries, SameKind, GoodKind
  <2> HIDE DEF e
  <2> QED
    BY <2>1, <2>2 DEF Field, FieldNext
<1>4. ASSUME ResealFailed(w)
      PROVE  Goal
  <2> DEFINE e == WithText(Held(w), Req(w).text)
  <2>1. At(w, "reseal") /\ SaltMayFail /\ GoesOnWriting(w, e, "clear")
    BY <1>4 DEF ResealFailed
  <2>2. /\ e \in Entries /\ SameKind(e, Held(w)) /\ GoodKind(e)
        /\ e.text = Req(w).text /\ e.enc = Held(w).enc /\ e.salt = Held(w).salt
    BY <1>2 DEF WithText, Entries, SameKind, GoodKind
  <2> HIDE DEF e
  <2> QED
    BY <2>1, <2>2 DEF Field, FieldNext
<1>5. ASSUME ClearCipher(w)
      PROVE  Goal
  <2> DEFINE e == [Held(w) EXCEPT !.enc = None]
  <2>1. At(w, "clear") /\ GoesOnWriting(w, e, "unsalt")
    BY <1>5 DEF ClearCipher
  <2>2. /\ e \in Entries /\ SameKind(e, Held(w)) /\ GoodKind(e)
        /\ e.text = Held(w).text /\ e.enc = None /\ e.salt = Held(w).salt
    BY <1>2 DEF Entries, SameKind, GoodKind
  <2> HIDE DEF e
  <2> QED
    BY <2>1, <2>2 DEF Field, FieldNext
<1>6. ASSUME ClearSalt(w)
      PROVE  Goal
  <2> DEFINE e == [Held(w) EXCEPT !.salt = None]
  <2>1. At(w, "unsalt") /\ LastWrite(w, e)
    BY <1>6 DEF ClearSalt
  <2>2. /\ e \in Entries /\ SameKind(e, Held(w)) /\ GoodKind(e)
        /\ e.text = Held(w).text /\ e.enc = Held(w).enc /\ e.salt = None
    BY <1>2 DEF Entries, SameKind, GoodKind
  <2> HIDE DEF e
  <2> QED
    BY <2>1, <2>2 DEF Field, At
<1>7. ASSUME Seal(w)
      PROVE  Goal
  <2> DEFINE c == NewCipher(w)
             e == [Held(w) EXCEPT !.enc = c]
  <2>1. At(w, "seal") /\ LastWrite(w, e)
    BY <1>7 DEF Seal, NewCipher
  <2>2. worker[w].salt \in Salts
    BY <1>2, <2>1 DEF At, Sealing
  <2>3. c \in Cipher
    BY <1>2, <2>2 DEF NewCipher, encrypt, deriveKey, Cipher, CipherKey
  <2> HIDE DEF c
  <2>4. /\ e \in Entries /\ SameKind(e, Held(w)) /\ GoodKind(e)
        /\ e.text = Held(w).text /\ e.enc = c /\ e.salt = Held(w).salt
    BY <1>2, <2>3 DEF Entries, SameKind, GoodKind
  <2> HIDE DEF e
  <2> QED
    BY <2>1, <2>3, <2>4 DEF Field, At, c
<1> QED
  BY <1>1, <1>3, <1>4, <1>5, <1>6, <1>7 DEF FieldStep

LEMMA FieldInv ==
    ASSUME IInv, NEW w \in Workers, FieldStep(w)
    PROVE  GoesOn(w)
<1> DEFINE id == worker[w].entry
<1>1. worker[w].pc \in Sealing \cup Clearing /\ RequestFits(w) /\ CredentialFits(w)
  BY FieldWritten DEF IInv
<1>2. PICK e \in Entries :
          /\ Field(w, e)
          /\ \/ \E pc \in {"seal", "clear", "unsalt"} : FieldNext(w, e, pc)
             \/ LastWrite(w, e)
  BY FieldWritten
<1>3. /\ worker[w].key \in Keys /\ Req(w).text \in Texts /\ Req(w).password \in Passwords
      /\ id \in Ids /\ id # None /\ Held(w) = heap[id] /\ Held(w) # None
  BY <1>1, HalfWritten
<1>4. /\ heap' = [heap EXCEPT ![id] = e] /\ UNCHANGED stored
      /\ SameKind(e, heap[id]) /\ GoodKind(e) /\ e # None
  BY <1>2, <1>3, EntryAssumption DEF Field, FieldNext, GoesOnWriting, LastWrite, Writes
<1>5. /\ stored' \in [Keys -> Ids \cup {None}] /\ heap' \in [Ids -> Entries \cup {None}]
      /\ HeapGoesOn /\ StoreGoesOn
  BY <1>3, <1>4, WriteGoesOn
<1>6. CASE LastWrite(w, e)
  <2>1. /\ Finish(w, Shown(Req(w).text, TRUE))
        /\ Promise(worker[w].key, Req(w).text, Req(w).password)
    BY <1>6 DEF LastWrite
  <2>2. promise' \in Promises /\ Shown(Req(w).text, TRUE) \in Answer
    BY <1>3, <2>1, PromiseType, PageType
  <2> QED
    BY <1>5, <2>1, <2>2, FinishInv
<1>7. CASE \E pc \in {"seal", "clear", "unsalt"} : FieldNext(w, e, pc)
  <2>1. PICK pc \in {"seal", "clear", "unsalt"} : FieldNext(w, e, pc)
    BY <1>7
  <2>2. /\ Goto(w, pc) /\ pc \in Pcs /\ UNCHANGED <<answer, promise>>
        /\ pc = "seal" => worker[w].pc \in Sealing
    BY <2>1 DEF FieldNext, GoesOnWriting, Pcs, HalfDone, At, Sealing
  <2>3. PICK l \in Local :
          /\ worker' = [worker EXCEPT ![w] = l] /\ worker'[w] = l
          /\ l.pc = pc /\ l.req = worker[w].req /\ l.i = worker[w].i
          /\ l.key = worker[w].key /\ l.entry = worker[w].entry /\ l.salt = worker[w].salt
    BY <2>2, GotoFits
  <2>4. RequestFits(w)'
    BY <1>1, <1>4, <2>3 DEF RequestFits, HasKey, Edits, HalfDone, Sealing, Clearing
  <2>5. Held(w)' = e /\ Req(w)' = Req(w) /\ Held(w)'.password = Held(w).password
    BY <1>3, <1>4, <2>3, TypeParts DEF Held, Req, SameKind
  <2>6. CredentialFits(w)'
    BY <1>1, <2>2, <2>3, <2>5 DEF CredentialFits, At, Sealing, Clearing
  <2>7. heap'[l.entry] # None
    BY <1>3, <1>4, <2>3, TypeParts
  <2> QED
    BY <1>5, <2>2, <2>3, <2>4, <2>6, <2>7, StepInv, TypeParts
<1> QED
  BY <1>2, <1>6, <1>7

LEMMA WriteRestInv ==
    ASSUME IInv, NEW w \in Workers, WriteRest(w)
    PROVE  GoesOn(w)
<1> DEFINE id == worker[w].entry
<1>1. /\ worker[w].pc = "write" /\ worker[w].pc \in HasKey /\ worker[w].pc \in Edits
      /\ UNCHANGED stored /\ RequestFits(w)
  BY DEF IInv, WriteRest, At, HasKey, Edits, HalfDone
<1>2. /\ worker[w].key \in Keys /\ Req(w).text \in Texts
      /\ Presented(Req(w)) \in Passwords \cup Secrets \cup {None}
      /\ id \in Ids /\ Held(w) = heap[id] /\ id # None
      /\ Held(w) \in Entries /\ Held(w) # None /\ GoodKind(Held(w))
  BY <1>1, Opening, EditingText, HeldEntry DEF Held
<1>3. PICK t \in Texts \cup {Torn} : heap' = [heap EXCEPT ![id].text = t]
  BY <1>2 DEF WriteRest
<1> DEFINE e == [Held(w) EXCEPT !.text = t]
<1>4. heap' = [heap EXCEPT ![id] = e]
  BY <1>2, <1>3, TypeParts
<1>5. e \in Entries /\ SameKind(e, Held(w)) /\ GoodKind(e) /\ e # None
  <2>1. e \in Entries /\ SameKind(e, Held(w)) /\ GoodKind(e)
    BY <1>2 DEF Entries, SameKind, GoodKind
  <2> QED
    BY <2>1, EntryAssumption
<1> HIDE DEF e
<1>6. /\ stored' \in [Keys -> Ids \cup {None}] /\ heap' \in [Ids -> Entries \cup {None}]
      /\ HeapGoesOn /\ StoreGoesOn
  BY <1>1, <1>2, <1>4, <1>5, WriteGoesOn
<1>7. promise' \in Promises
  <2>1. Promise(worker[w].key, Req(w).text, Presented(Req(w)))
    BY DEF WriteRest
  <2> QED
    BY <1>2, <2>1, PromiseType
<1>8. CASE Req(w).code = None
  <2>1. Finish(w, Shown(Req(w).text, TRUE)) /\ Shown(Req(w).text, TRUE) \in Answer
    BY <1>2, <1>8, PageType DEF WriteRest
  <2> QED
    BY <1>6, <1>7, <2>1, FinishInv
<1>9. CASE Req(w).code # None
  <2>1. Goto(w, "reread") /\ UNCHANGED answer /\ "reread" \in Pcs
    BY <1>9 DEF WriteRest, Pcs, HalfDone
  <2>2. PICK l \in Local :
          /\ worker' = [worker EXCEPT ![w] = l] /\ worker'[w] = l
          /\ l.pc = "reread" /\ l.req = worker[w].req /\ l.i = worker[w].i
          /\ l.key = worker[w].key /\ l.entry = worker[w].entry /\ l.salt = worker[w].salt
    BY <2>1, GotoFits
  <2>3. RequestFits(w)' /\ CredentialFits(w)'
    BY <1>1, <2>2 DEF RequestFits, CredentialFits, At, HasKey, Edits, Req, HalfDone, Sealing,
                      Clearing
  <2>4. heap'[l.entry] # None
    BY <1>2, <1>4, <1>5, <2>2, TypeParts
  <2> QED
    BY <1>6, <1>7, <2>1, <2>2, <2>3, <2>4, StepInv, TypeParts
<1> QED
  BY <1>8, <1>9

LEMMA RereadInv ==
    ASSUME IInv, NEW w \in Workers, Reread(w)
    PROVE  GoesOn(w)
<1>1. worker[w].pc \in HasKey
  BY DEF Reread, At, HasKey, HalfDone
<1>2. heap[Target(w)] \in Entries
  BY <1>1, Opening, StoredEntry DEF Target
<1>3. Shown(heap[Target(w)].text, TRUE) \in Answer
  BY <1>2, EntryParts, PageType
<1> QED
  BY <1>3, QuietFinishInv, TypeParts DEF Reread

-----------------------------------------------------------------------------

LEMMA InitInv == Init => IInv
<1> SUFFICES ASSUME Init
             PROVE  IInv
  OBVIOUS
<1>1. \A w \in Workers : worker[w] = Rest(NoRequest)
  BY DEF Init
<1>2. TypeOK
  <2>1. Rest(NoRequest) \in Local /\ NoAnswer \in Answer
    BY DEF Rest, Local, Pcs, NoAnswer, Answer, HalfDone
  <2> QED
    BY <2>1 DEF Init, TypeOK
<1>3. PointersLead /\ KindsOfEntries
  BY <1>1 DEF Init, PointersLead, KindsOfEntries, Rest
<1>4. ASSUME NEW w \in Workers
      PROVE  RequestFits(w) /\ CredentialFits(w)
  BY <1>1 DEF RequestFits, CredentialFits, At, Rest, HasKey, Edits, HalfDone, Sealing, Clearing
<1> QED
  BY <1>2, <1>3, <1>4 DEF IInv

LEMMA StepGoesOn ==
    ASSUME IInv, NEW w \in Workers, Step(w)
    PROVE  GoesOn(w)
BY ProbeEmptyInv, ProbeTakenInv, CompareSealedInv, CompareInv, CreateInv,
   SetupRefusedInv, SetupVerifiedInv, PickKeyInv, PutTOTPInv, LookupNothingInv, LookupInv,
   ShowOrLockInv, ShowTOTPInv, ReadSaltInv, ShowUnsealedInv, DecryptInv,
   WrongCredentialInv, UpdateSaltInv, UpdateUnsealedInv, FieldInv, WriteTextInv,
   WriteRestInv, RereadInv DEF Step, FieldStep

LEMMA NextInv == IInv /\ [Next]_vars => IInv'
<1> SUFFICES ASSUME IInv, [Next]_vars
             PROVE  IInv'
  OBVIOUS
<1>1. ASSUME NEW w \in Workers, Step(w)
      PROVE  GoesOn(w)
  BY <1>1, StepGoesOn
<1>2. ASSUME NEW w \in Workers, NEW r \in Menu[w], Accept(w, r)
      PROVE  GoesOn(w)
  BY <1>2, AcceptInv
<1>3. CASE UNCHANGED vars
  BY <1>3 DEF vars, IInv, TypeOK, PointersLead, KindsOfEntries, RequestFits, CredentialFits,
              CodeFits, PasswordFits, Held, Req, At, Try, TriedData, Sealing, Clearing, HalfDone
<1> QED
  BY <1>1, <1>2, <1>3 DEF Next, GoesOn

\* The inductive invariant holds however the requests interleave: what each
\* handler knows of its entry stays true of it.
THEOREM Invariance == Spec => []IInv
BY InitInv, NextInv, PTL DEF Spec

\* Whatever the requests do to one another, every variable has the values that
\* the code can give it: no pointer is dangling, no index is out of range.
THEOREM TypeCorrect == Spec => []TypeOK
<1>1. IInv => TypeOK
  BY DEF IInv
<1> QED
  BY <1>1, Invariance, PTL

-----------------------------------------------------------------------------
(* Steps that leave the entries alone *)

QuietStep(w) ==
    \/ ProbeEmpty(w) \/ CompareSealed(w) \/ CompareDecrypted(w) \/ ComparePlain(w)
    \/ CompareOther(w) \/ SetupRefused(w) \/ SetupVerified(w) \/ PickKey(w)
    \/ LookupNothing(w) \/ ShowOrLock(w) \/ ShowTOTP(w) \/ ReadSalt(w) \/ ShowUnsealed(w)
    \/ Decrypt(w) \/ WrongCredential(w) \/ Reread(w) \/ \E r \in Menu[w] : Accept(w, r)

LEMMA QuietSteps ==
    ASSUME NEW w \in Workers, QuietStep(w)
    PROVE  UNCHANGED <<stored, heap>>
BY DEF QuietStep, ProbeEmpty, CompareSealed, CompareDecrypted, ComparePlain, CompareOther,
       SetupRefused, SetupVerified, PickKey, LookupNothing, ShowOrLock, ShowTOTP, ReadSalt,
       ShowUnsealed, Decrypt, WrongCredential, Reread, Accept, FoundSame, NextTry

\* None of them begins to write, and one of them to put.
LEMMA QuietPcs ==
    ASSUME IInv, NEW w \in Workers, QuietStep(w)
    PROVE  /\ worker'[w].pc \notin HalfDone
           /\ worker'[w].pc = "put" => PickKey(w)
           /\ worker'[w].pc = "create" => ProbeEmpty(w)
<1> DEFINE Goal == /\ worker'[w].pc \notin HalfDone
                   /\ worker'[w].pc = "put" => PickKey(w)
                   /\ worker'[w].pc = "create" => ProbeEmpty(w)
<1>1. worker \in [Workers -> [pc : Pcs, req : Requests \cup {NoRequest}, i : Nat,
                              key : Keys \cup {None}, entry : Ids \cup {None},
                              salt : Salts \cup {None}]]
  BY TypeParts DEF Local
<1>2. ASSUME NEW r \in Menu[w], Accept(w, r)
      PROVE  Goal
  BY <1>1, <1>2 DEF Accept, Rest, HalfDone
<1>3. ASSUME NEW a, Finish(w, a)
      PROVE  Goal
  BY <1>1, <1>3 DEF Finish, Rest, HalfDone
<1>4. CASE NextTry(w)
  BY <1>1, <1>4 DEF NextTry, Rest, HalfDone
<1>5. CASE Goto(w, "pick") \/ Goto(w, "update")
  BY <1>1, <1>5 DEF Goto, HalfDone
<1>6. CASE ProbeEmpty(w)
  BY <1>1, <1>6 DEF ProbeEmpty, HalfDone
<1>7. CASE CompareSealed(w)
  BY <1>1, <1>7 DEF CompareSealed, HalfDone
<1>8. CASE PickKey(w)
  BY <1>1, <1>8 DEF PickKey, At, HalfDone
<1>9. CASE ReadSalt(w)
  BY <1>1, <1>9 DEF ReadSalt, HalfDone
<1>10. CASE CompareDecrypted(w) \/ ComparePlain(w) \/ CompareOther(w)
  <2>1. FoundSame(w) \/ NextTry(w)
    BY <1>10 DEF CompareDecrypted, ComparePlain, CompareOther
  <2> QED
    BY <1>3, <1>4, <2>1 DEF FoundSame
<1>11. CASE SetupRefused(w) \/ SetupVerified(w) \/ LookupNothing(w) \/ ShowOrLock(w)
            \/ WrongCredential(w) \/ Reread(w)
  BY <1>3, <1>5, <1>11 DEF SetupRefused, SetupVerified, LookupNothing, ShowOrLock,
                          WrongCredential, Reread
<1>12. CASE ShowTOTP(w) \/ ShowUnsealed(w) \/ Decrypt(w)
  BY <1>3, <1>5, <1>12 DEF ShowTOTP, ShowUnsealed, Decrypt, ShowOrUpdate
<1> QED
  BY <1>2, <1>4, <1>6, <1>7, <1>8, <1>9, <1>10, <1>11, <1>12 DEF QuietStep

-----------------------------------------------------------------------------
(* Passwords and codes *)

EntryApart(id, e) == e.totp # None <=> id[1] \in RandomKeySet

LEMMA ApartEntries ==
    ASSUME CodesApart, NEW id \in Ids, heap[id] # None
    PROVE  EntryApart(id, heap[id])
BY DEF CodesApart, EntryApart

\* What a step owes to this invariant.
LEMMA ApartStep ==
    ASSUME IInv, CodesApart, NEW w \in Workers, GoesOn(w),
           \A id \in Ids : heap'[id] # None /\ heap'[id] # heap[id] => EntryApart(id, heap'[id]),
           At(w, "write")' => Held(w)'.password = None
    PROVE  CodesApart'
<1>1. ASSUME NEW id \in Ids, heap'[id] # None
      PROVE  EntryApart(id, heap'[id])
  BY <1>1, ApartEntries
<1>2. ASSUME NEW v \in Workers \ {w}, At(v, "write")
      PROVE  Held(v)'.password = None
  <2>1. worker'[v] = worker[v] /\ worker[v].entry # None
    BY <1>2 DEF GoesOn, IInv, RequestFits, At, HasKey, HalfDone
  <2>2. worker[v].entry \in Ids /\ worker[v].entry \in InUse /\ Held(v) # None
    BY <2>1, HeldEntry
  <2>3. Held(v)'.password = Held(v).password
    BY <2>1, <2>2, InUseStays DEF GoesOn, Held, SameKind
  <2> QED
    BY <1>2, <2>3 DEF CodesApart
<1>3. \A v \in Workers \ {w} : At(v, "write")' => At(v, "write")
  BY DEF GoesOn, At
<1> QED
  BY <1>1, <1>2, <1>3 DEF CodesApart, EntryApart

LEMMA QuietApart ==
    ASSUME IInv, CodesApart, NEW w \in Workers, GoesOn(w), QuietStep(w)
    PROVE  CodesApart'
<1>1. UNCHANGED heap /\ ~At(w, "write")'
  BY QuietSteps, QuietPcs DEF At, HalfDone
<1> QED
  BY <1>1, ApartStep

LEMMA GetApart ==
    ASSUME IInv, CodesApart, NEW w \in Workers, GoesOn(w),
           NEW k \in Keys, stored[k] # None, NEW pc \in Pcs \ {"write"},
           NEW id \in Ids, GetsInto(w, k, id, pc), UNCHANGED stored
    PROVE  CodesApart'
<1>1. /\ id[1] = k /\ heap'[id] = heap[stored[k]]
      /\ \A j \in Ids \ {id} : heap'[j] = heap[j]
  BY GetGoesOn
<1>2. EntryApart(stored[k], heap[stored[k]]) /\ stored[k][1] = k
  BY StoredEntry, ApartEntries
<1>3. EntryApart(id, heap'[id])
  BY <1>1, <1>2 DEF EntryApart
<1>4. ~At(w, "write")'
  <2>1. worker \in [Workers -> [pc : Pcs, req : Requests \cup {NoRequest}, i : Nat,
                              key : Keys \cup {None}, entry : Ids \cup {None},
                              salt : Salts \cup {None}]]
    BY TypeParts DEF Local
  <2> QED
    BY <2>1 DEF At, GetsInto
<1> QED
  BY <1>1, <1>3, <1>4, ApartStep

LEMMA PutApart ==
    ASSUME IInv, CodesApart, NEW w \in Workers, GoesOn(w),
           NEW k \in Keys, NEW e, EntryApart(NewId(k), e), Put(k, e), NEW a, Finish(w, a)
    PROVE  CodesApart'
<1> DEFINE id == NewId(k)
<1>1. heap' = [heap EXCEPT ![id] = e] /\ id \in Ids /\ EntryApart(id, e)
  BY NewIdIsFree DEF Put
<1> HIDE DEF id
<1>2. \A j \in Ids : heap'[j] # None /\ heap'[j] # heap[j] => EntryApart(j, heap'[j])
  BY <1>1, TypeParts
<1>3. ~At(w, "write")'
  BY TypeParts DEF At, Finish, Rest
<1> QED
  BY <1>2, <1>3, ApartStep

LEMMA CreateApart ==
    ASSUME RandomApart, IInv, CodesApart, NEW w \in Workers, GoesOn(w), Create(w)
    PROVE  CodesApart'
<1> DEFINE k == worker[w].key
           p == Req(w).password
           t == Req(w).text
           id == NewId(k)
<1>1. /\ k \in Keys /\ Req(w) \in Requests /\ k \in CreatedKeys(Req(w))
      /\ Req(w).op = "generate"
  BY Generating, MenuType DEF Create, At, IInv, RequestFits, Req
<1>2. k \notin RandomKeySet /\ NewId(k)[1] = k
  BY <1>1, NewIdIsFree DEF RandomApart
<1>3. /\ EntryApart(id, PublicEntry(t)) /\ EntryApart(id, PasswordEntry(t, p, FirstSalt))
      /\ EntryApart(id, UnsealedEntry(t, p))
  BY <1>2 DEF EntryApart, PublicEntry, PasswordEntry, UnsealedEntry
<1>4. PICK e : EntryApart(id, e) /\ Put(k, e)
  BY <1>3 DEF Create
<1>5. Finish(w, Redirect(k))
  BY DEF Create
<1> QED
  BY <1>1, <1>4, <1>5, PutApart

LEMMA PutTOTPApart ==
    ASSUME IInv, CodesApart, NEW w \in Workers, GoesOn(w), PutTOTP(w)
    PROVE  CodesApart'
<1> DEFINE k == worker[w].key
           e == TotpEntry(Req(w).text, Req(w).secret)
<1>1. k \in RandomKeySet /\ k \in Keys /\ Req(w).secret \in Secrets
  BY SettingUp DEF PutTOTP, At, IInv, RequestFits, Req
<1>2. NewId(k)[1] = k /\ Req(w).secret # None
  BY <1>1, NewIdIsFree, EntryAssumption
<1>3. EntryApart(NewId(k), e)
  BY <1>1, <1>2 DEF EntryApart, TotpEntry, PublicEntry
<1>4. Put(k, e) /\ Finish(w, Redirect(k))
  BY DEF PutTOTP
<1> HIDE DEF e
<1> QED
  BY <1>1, <1>3, <1>4, PutApart

\* updateEntry writes to an entry of the key, one that asks for the same.
LEMMA EditApart ==
    ASSUME IInv, CodesApart, NEW w \in Workers, GoesOn(w), At(w, "update"),
           NEW e \in Entries, SameKind(e, heap[Target(w)]), GoodKind(e),
           NEW pc \in {"reseal", "clear", "write"}, NEW salt \in Salts \cup {None},
           EditsInto(w, e, pc, salt), UNCHANGED stored,
           pc = "write" => e.password = None
    PROVE  CodesApart'
<1>1. /\ worker[w].key \in Keys /\ stored[worker[w].key] # None /\ pc \in Pcs
      /\ Target(w) \in Ids /\ heap[Target(w)] # None
  BY Updating DEF Pcs, HalfDone
<1>2. EditedInto(w, e, pc, salt)
  BY <1>1, EditGoesOn
<1>3. PICK id \in Ids :
          /\ id[1] = worker[w].key /\ heap' = [heap EXCEPT ![id] = e] /\ heap'[id] = e
          /\ worker' = [worker EXCEPT ![w] =
                 [worker[w] EXCEPT !.entry = id, !.pc = pc, !.salt = salt]]
  BY <1>2 DEF EditedInto
<1>4. EntryApart(Target(w), heap[Target(w)]) /\ Target(w)[1] = worker[w].key
  BY <1>1, ApartEntries, StoredEntry DEF Target
<1>5. EntryApart(id, e)
  BY <1>3, <1>4 DEF EntryApart, SameKind
<1>6. \A j \in Ids : heap'[j] # heap[j] => j = id
  BY <1>3, TypeParts
<1>7. worker'[w].entry = id /\ worker'[w].pc = pc
  <2>1. worker \in [Workers -> [pc : Pcs, req : Requests \cup {NoRequest}, i : Nat,
                              key : Keys \cup {None}, entry : Ids \cup {None},
                              salt : Salts \cup {None}]]
    BY TypeParts DEF Local
  <2> QED
    BY <1>3, <2>1
<1>8. At(w, "write")' => Held(w)'.password = None
  BY <1>3, <1>7 DEF At, Held
<1> QED
  BY <1>3, <1>5, <1>6, <1>8, ApartStep

LEMMA UpdateSaltApart ==
    ASSUME IInv, CodesApart, NEW w \in Workers, GoesOn(w), UpdateSalt(w)
    PROVE  CodesApart'
<1> DEFINE s == NewSalt(Target(w))
           e == [heap[Target(w)] EXCEPT !.salt = s]
<1>1. At(w, "update") /\ EditsInto(w, e, "reseal", s) /\ UNCHANGED stored
  BY DEF UpdateSalt
<1>2. /\ Target(w) \in Ids /\ heap[Target(w)] # None /\ heap[Target(w)] \in Entries
      /\ GoodKind(heap[Target(w)])
  BY <1>1, Updating
<1>3. s \in Salts
  BY <1>2, NewSaltIsNew
<1> HIDE DEF s
<1>4. e \in Entries /\ SameKind(e, heap[Target(w)]) /\ GoodKind(e)
  BY <1>2, <1>3 DEF Entries, SameKind, GoodKind
<1> HIDE DEF e
<1> QED
  BY <1>1, <1>3, <1>4, EditApart

\* The crux: a text is written as it is only to an entry without a password.
LEMMA WriteTextApart ==
    ASSUME IInv, CodesApart, NEW w \in Workers, GoesOn(w), WriteText(w)
    PROVE  CodesApart'
<1> DEFINE e == [heap[Target(w)] EXCEPT !.text = Torn, !.begun = Req(w).text]
<1>1. At(w, "update") /\ ~Sealed(w) /\ EditsInto(w, e, "write", None) /\ UNCHANGED stored
  BY DEF WriteText
<1>2. /\ Target(w) \in Ids /\ heap[Target(w)] # None /\ heap[Target(w)] \in Entries
      /\ GoodKind(heap[Target(w)]) /\ Target(w)[1] = worker[w].key /\ Req(w).text \in Texts
  BY <1>1, Updating, StoredEntry DEF Target
<1>3. /\ worker[w].entry # None /\ worker[w].entry[1] = worker[w].key
      /\ CodeFits(w) \/ PasswordFits(w)
  BY <1>1 DEF IInv, RequestFits, CredentialFits, At, HasKey, HalfDone, Sealing, Clearing
<1>4. heap[Target(w)].password = None
  <2>1. CASE CodeFits(w)
    <3>1. worker[w].entry \in Ids /\ Held(w) # None /\ Held(w).totp # None
      BY <1>3, <2>1, HeldEntry DEF CodeFits
    <3>2. worker[w].key \in RandomKeySet
      BY <1>3, <3>1, ApartEntries DEF Held, EntryApart
    <3>3. heap[Target(w)].totp # None
      BY <1>2, <3>2, ApartEntries DEF EntryApart
    <3> QED
      BY <1>2, <3>3 DEF GoodKind
  <2>2. CASE PasswordFits(w)
    BY <1>1, <2>2 DEF PasswordFits, Sealed, EditPassword
  <2> QED
    BY <1>3, <2>1, <2>2
<1>5. e \in Entries /\ SameKind(e, heap[Target(w)]) /\ GoodKind(e) /\ e.password = None
  BY <1>2, <1>4 DEF Entries, SameKind, GoodKind
<1> HIDE DEF e
<1> QED
  BY <1>1, <1>5, EditApart

LEMMA UpdateUnsealedApart ==
    ASSUME IInv, CodesApart, NEW w \in Workers, GoesOn(w), UpdateUnsealed(w)
    PROVE  CodesApart'
<1> DEFINE e == WithText(heap[Target(w)], Req(w).text)
<1>1. At(w, "update") /\ EditsInto(w, e, "clear", None) /\ UNCHANGED stored
  BY DEF UpdateUnsealed
<1>2. heap[Target(w)] \in Entries /\ GoodKind(heap[Target(w)]) /\ Req(w).text \in Texts
  BY <1>1, Updating
<1>3. e \in Entries /\ SameKind(e, heap[Target(w)]) /\ GoodKind(e)
  BY <1>2 DEF WithText, Entries, SameKind, GoodKind
<1> HIDE DEF e
<1> QED
  BY <1>1, <1>3, EditApart

\* Where such a step leaves the request.
LEMMA FieldPcs ==
    ASSUME IInv, NEW w \in Workers, FieldStep(w)
    PROVE  worker'[w].pc \in {"idle", "seal", "clear", "unsalt"}
<1>1. worker \in [Workers -> [pc : Pcs, req : Requests \cup {NoRequest}, i : Nat,
                              key : Keys \cup {None}, entry : Ids \cup {None},
                              salt : Salts \cup {None}]]
  BY TypeParts DEF Local
<1>2. PICK e \in Entries :
          \/ \E pc \in {"seal", "clear", "unsalt"} : FieldNext(w, e, pc)
          \/ LastWrite(w, e)
  BY FieldWritten
<1>3. CASE \E pc \in {"seal", "clear", "unsalt"} : FieldNext(w, e, pc)
  <2>1. PICK pc \in {"seal", "clear", "unsalt"} : Goto(w, pc)
    BY <1>3 DEF FieldNext, GoesOnWriting
  <2> QED
    BY <1>1, <2>1 DEF Goto
<1>4. CASE LastWrite(w, e)
  BY <1>1, <1>4 DEF LastWrite, Finish, Rest
<1> QED
  BY <1>2, <1>3, <1>4

LEMMA FieldApart ==
    ASSUME IInv, CodesApart, NEW w \in Workers, GoesOn(w), FieldStep(w)
    PROVE  CodesApart'
<1> DEFINE id == worker[w].entry
<1>1. id \in Ids /\ Held(w) = heap[id] /\ Held(w) # None
  BY FieldWritten, HalfWritten
<1>2. PICK e \in Entries : heap' = [heap EXCEPT ![id] = e] /\ SameKind(e, Held(w))
  BY FieldWritten DEF Field, FieldNext, GoesOnWriting, LastWrite, Writes
<1>3. EntryApart(id, e)
  BY <1>1, <1>2, ApartEntries DEF EntryApart, SameKind
<1>4. \A j \in Ids : heap'[j] # None /\ heap'[j] # heap[j] => EntryApart(j, heap'[j])
  BY <1>1, <1>2, <1>3, TypeParts
<1>5. ~At(w, "write")'
  BY FieldPcs DEF At
<1> QED
  BY <1>4, <1>5, ApartStep

LEMMA WriteRestApart ==
    ASSUME IInv, CodesApart, NEW w \in Workers, GoesOn(w), WriteRest(w)
    PROVE  CodesApart'
<1> DEFINE id == worker[w].entry
<1>1. At(w, "write") /\ worker[w].pc \in HasKey
  BY DEF WriteRest, At, HasKey, HalfDone
<1>2. /\ id \in Ids /\ Held(w) = heap[id] /\ Held(w) \in Entries /\ Held(w) # None
      /\ Held(w).password = None
  BY <1>1, Opening, HeldEntry DEF Held, CodesApart
<1>3. PICK t : heap' = [heap EXCEPT ![id].text = t]
  BY DEF WriteRest
<1> DEFINE e == [Held(w) EXCEPT !.text = t]
<1>4. heap' = [heap EXCEPT ![id] = e]
  BY <1>2, <1>3, TypeParts
<1>5. EntryApart(id, Held(w))
  BY <1>2, ApartEntries
<1>6. EntryApart(id, e)
  BY <1>2, <1>5 DEF EntryApart, Entries
<1> HIDE DEF e
<1>7. \A j \in Ids : heap'[j] # None /\ heap'[j] # heap[j] => EntryApart(j, heap'[j])
  BY <1>2, <1>4, <1>6, TypeParts
<1>8. ~At(w, "write")'
  <2>1. CASE \E a : Finish(w, a)
    BY <2>1, TypeParts DEF At, Finish, Rest
  <2>2. CASE Goto(w, "reread")
    <3>1. "reread" \in Pcs
      BY DEF Pcs, HalfDone
    <3> QED
      BY <2>2, <3>1, GotoFits DEF At
  <2> QED
    BY <2>1, <2>2 DEF WriteRest
<1> QED
  BY <1>7, <1>8, ApartStep

LEMMA StepApart ==
    ASSUME RandomApart, IInv, CodesApart, NEW w \in Workers, Step(w)
    PROVE  CodesApart'
<1>1. GoesOn(w)
  BY StepGoesOn
<1>2. CASE QuietStep(w)
  BY <1>1, <1>2, QuietApart
<1>3. CASE ProbeTaken(w)
  <2>1. /\ Try(w) \in Keys /\ stored[Try(w)] # None /\ UNCHANGED stored
        /\ \E id \in Ids : GetsInto(w, Try(w), id, "same")
    BY <1>3, Generating DEF ProbeTaken, Probing, At
  <2> QED
    BY <1>1, <2>1, GetApart DEF Pcs, HalfDone
<1>4. CASE Lookup(w)
  <2>1. /\ worker[w].key \in Keys /\ stored[worker[w].key] # None /\ UNCHANGED stored
        /\ \E id \in Ids : GetsInto(w, worker[w].key, id, "view")
    BY <1>4, Opening DEF Lookup, At
  <2> QED
    BY <1>1, <2>1, GetApart DEF Pcs, HalfDone
<1> QED
  BY <1>1, <1>2, <1>3, <1>4, CreateApart, PutTOTPApart, UpdateSaltApart, UpdateUnsealedApart,
     FieldApart, WriteTextApart, WriteRestApart DEF Step, QuietStep, FieldStep

LEMMA InitApart == Init => CodesApart
BY DEF Init, CodesApart, At, Rest

LEMMA NextApart ==
    ASSUME RandomApart, IInv, CodesApart, [Next]_vars
    PROVE  CodesApart'
<1>1. ASSUME NEW w \in Workers, Step(w)
      PROVE  CodesApart'
  BY <1>1, StepApart
<1>2. ASSUME NEW w \in Workers, NEW r \in Menu[w], Accept(w, r)
      PROVE  CodesApart'
  BY <1>2, AcceptInv, QuietApart DEF QuietStep
<1>3. CASE UNCHANGED vars
  BY <1>3 DEF vars, CodesApart, At, Held
<1> QED
  BY <1>1, <1>2, <1>3 DEF Next
-----------------------------------------------------------------------------
(* What a request holds *)

Locals == [Workers -> [pc : Pcs, req : Requests \cup {NoRequest}, i : Nat,
                       key : Keys \cup {None}, entry : Ids \cup {None},
                       salt : Salts \cup {None}]]

LEMMA LocalsType == ASSUME IInv PROVE worker \in Locals
BY TypeParts DEF Local, Locals

LEMMA FinishedPc ==
    ASSUME IInv, NEW w \in Workers, NEW a, Finish(w, a)
    PROVE  worker'[w].pc = "idle"
BY TypeParts DEF Finish, Rest

LEMMA QuietHolds ==
    ASSUME IInv, NEW w \in Workers, QuietStep(w)
    PROVE  worker'[w].entry \in {None, worker[w].entry}
<1> DEFINE Goal == worker'[w].entry \in {None, worker[w].entry}
<1>1. worker \in Locals
  BY LocalsType
<1>2. ASSUME NEW r \in Menu[w], Accept(w, r)
      PROVE  Goal
  BY <1>1, <1>2 DEF Accept, Rest, Locals
<1>3. ASSUME NEW a, Finish(w, a)
      PROVE  Goal
  BY <1>1, <1>3 DEF Finish, Rest, Locals
<1>4. CASE NextTry(w)
  BY <1>1, <1>4 DEF NextTry, Rest, Locals
<1>5. CASE Goto(w, "pick") \/ Goto(w, "update")
  BY <1>1, <1>5 DEF Goto, Locals
<1>6. CASE ProbeEmpty(w) \/ CompareSealed(w) \/ ReadSalt(w)
  BY <1>1, <1>6 DEF ProbeEmpty, CompareSealed, ReadSalt, Locals
<1>7. CASE PickKey(w)
  <2>1. PICK k \in RandomKeys[worker[w].i] :
            worker' = IF stored[k] = None
                      THEN [worker EXCEPT ![w].key = k, ![w].pc = "put"]
                      ELSE [worker EXCEPT ![w].i = worker[w].i + 1]
    BY <1>7 DEF PickKey
  <2>2. CASE stored[k] = None
    BY <1>1, <2>1, <2>2 DEF Locals
  <2>3. CASE stored[k] # None
    BY <1>1, <2>1, <2>3 DEF Locals
  <2> QED
    BY <2>2, <2>3
<1>8. CASE CompareDecrypted(w) \/ ComparePlain(w) \/ CompareOther(w)
  <2>1. FoundSame(w) \/ NextTry(w)
    BY <1>8 DEF CompareDecrypted, ComparePlain, CompareOther
  <2> QED
    BY <1>3, <1>4, <2>1 DEF FoundSame
<1>9. CASE SetupRefused(w) \/ LookupNothing(w) \/ ShowOrLock(w) \/ WrongCredential(w) \/ Reread(w)
  BY <1>3, <1>9 DEF SetupRefused, LookupNothing, ShowOrLock, WrongCredential, Reread
<1>10. CASE SetupVerified(w) \/ ShowTOTP(w) \/ ShowUnsealed(w) \/ Decrypt(w)
  BY <1>3, <1>5, <1>10 DEF SetupVerified, ShowTOTP, ShowUnsealed, Decrypt, ShowOrUpdate
<1> QED
  BY <1>2, <1>4, <1>6, <1>7, <1>8, <1>9, <1>10 DEF QuietStep

LEMMA CreatorKeys ==
    ASSUME IInv, NEW w \in Workers, worker[w].pc \in {"create", "put"}
    PROVE  /\ worker[w].key \in Keys /\ worker[w].key \in CreatedKeys(Req(w))
           /\ Req(w) \in Menu[w] /\ Creates(Req(w))
           /\ Req(w).op = "setup" => At(w, "put")
BY Generating, SettingUp DEF IInv, RequestFits, Req, Creates, At

-----------------------------------------------------------------------------
(* What a step may touch *)

\* New entries, or the one of the key that w edits, or its own copy of that.
Touches(w) ==
    \A id \in Ids : heap'[id] # heap[id] =>
        \/ id \notin InUse
        \/ /\ worker[w].pc \in Edits /\ id[1] = worker[w].key
           /\ Persistent \/ worker[w].pc # "update" => id = worker[w].entry

LEMMA StepTouches ==
    ASSUME IInv, NEW w \in Workers, Step(w) \/ \E r \in Menu[w] : Accept(w, r)
    PROVE  Touches(w)
<1>1. CASE QuietStep(w)
  BY <1>1, QuietSteps DEF Touches
<1>2. ASSUME NEW k \in Keys, NEW e, Put(k, e)
      PROVE  Touches(w)
  BY <1>2, NewIdIsFree, TypeParts DEF Put, Touches
<1>3. CASE Create(w) \/ PutTOTP(w)
  <2>1. worker[w].key \in Keys
    BY <1>3, CreatorKeys DEF Create, PutTOTP, At
  <2> QED
    BY <1>2, <1>3, <2>1 DEF Create, PutTOTP
<1>4. CASE Lookup(w) \/ ProbeTaken(w)
  <2>1. PICK k \in Keys, id \in Ids, pc \in Pcs :
            stored[k] # None /\ GetsInto(w, k, id, pc) /\ UNCHANGED stored
    <3>1. CASE Lookup(w)
      BY <3>1, Opening DEF Lookup, At, Pcs
    <3>2. CASE ProbeTaken(w)
      BY <3>2, Generating DEF ProbeTaken, Probing, At, Pcs
    <3> QED
      BY <1>4, <3>1, <3>2
  <2>2. /\ heap'[id] = heap[stored[k]] /\ (id = stored[k] \/ id \notin InUse)
        /\ \A j \in Ids \ {id} : heap'[j] = heap[j]
    BY <2>1, GetGoesOn
  <2> QED
    BY <2>2 DEF Touches
<1>5. ASSUME NEW e, NEW pc, NEW salt, At(w, "update"), EditsInto(w, e, pc, salt)
      PROVE  Touches(w)
  <2>1. worker[w].key \in Keys /\ Target(w) \in Ids /\ Target(w)[1] = worker[w].key
    BY <1>5, Updating, StoredEntry DEF Target
  <2>2. NewId(worker[w].key) \in Ids /\ NewId(worker[w].key) \notin InUse
    BY <2>1, NewIdIsFree
  <2>3. worker[w].pc \in Edits /\ worker[w].pc = "update"
    BY <1>5 DEF At, Edits
  <2> QED
    BY <1>5, <2>1, <2>2, <2>3, TypeParts DEF EditsInto, Touches
<1>6. CASE UpdateSalt(w) \/ WriteText(w) \/ UpdateUnsealed(w)
  BY <1>5, <1>6 DEF UpdateSalt, WriteText, UpdateUnsealed
<1>7. ASSUME NEW e, Writes(w, e), worker[w].pc \in HalfDone
      PROVE  Touches(w)
  <2>1. worker[w].pc \in Edits /\ worker[w].pc \in HasKey
    BY <1>7 DEF Edits, HasKey
  <2>2. worker[w].entry \in Ids /\ worker[w].entry[1] = worker[w].key
    BY <2>1, Opening, HeldEntry
  <2> QED
    BY <1>7, <2>1, <2>2, TypeParts DEF Writes, Touches
<1>8. CASE FieldStep(w)
  <2>1. /\ worker[w].pc \in HalfDone
        /\ \E e \in Entries : Writes(w, e)
    BY <1>8, FieldWritten DEF FieldNext, GoesOnWriting, LastWrite, Sealing, Clearing, HalfDone
  <2> QED
    BY <1>7, <2>1
<1>9. CASE WriteRest(w)
  <2>1. worker[w].pc \in Edits /\ worker[w].pc \in HasKey
    BY <1>9 DEF WriteRest, At, Edits, HasKey, HalfDone
  <2>2. worker[w].entry \in Ids /\ worker[w].entry[1] = worker[w].key
    BY <2>1, Opening, HeldEntry
  <2>3. \A j \in Ids : j # worker[w].entry => heap'[j] = heap[j]
    BY <1>9, <2>2, TypeParts DEF WriteRest
  <2> QED
    BY <2>1, <2>2, <2>3 DEF Touches
<1> QED
  BY <1>1, <1>3, <1>4, <1>6, <1>8, <1>9 DEF Step, QuietStep, FieldStep

\* Where a field leaves the request that writes it.
LEMMA FieldMoves ==
    ASSUME IInv, NEW w \in Workers, FieldStep(w)
    PROVE  /\ UNCHANGED stored
           /\ \/ worker'[w].pc = "idle" /\ worker'[w].entry = None
              \/ /\ worker'[w].pc \in {"seal", "clear", "unsalt"}
                 /\ worker'[w].entry = worker[w].entry /\ worker'[w].key = worker[w].key
                 /\ worker'[w].req = worker[w].req /\ worker'[w].salt = worker[w].salt
<1>1. worker \in Locals
  BY LocalsType
<1>2. PICK e \in Entries :
          \/ \E pc \in {"seal", "clear", "unsalt"} : FieldNext(w, e, pc)
          \/ LastWrite(w, e)
  BY FieldWritten
<1>3. CASE \E pc \in {"seal", "clear", "unsalt"} : FieldNext(w, e, pc)
  <2>1. PICK pc \in {"seal", "clear", "unsalt"} : Goto(w, pc) /\ UNCHANGED stored
    BY <1>3 DEF FieldNext, GoesOnWriting
  <2> QED
    BY <1>1, <2>1 DEF Goto, Locals
<1>4. CASE LastWrite(w, e)
  BY <1>1, <1>4 DEF LastWrite, Finish, Rest, Locals
<1> QED
  BY <1>2, <1>3, <1>4

LEMMA WriteRestMoves ==
    ASSUME IInv, NEW w \in Workers, WriteRest(w)
    PROVE  /\ UNCHANGED stored
           /\ worker'[w].pc \in {"idle", "reread"}
           /\ worker'[w].entry \in {None, worker[w].entry}
<1> DEFINE Goal == /\ worker'[w].pc \in {"idle", "reread"}
                   /\ worker'[w].entry \in {None, worker[w].entry}
<1>1. worker \in Locals
  BY LocalsType
<1>2. ASSUME NEW a, Finish(w, a)
      PROVE  Goal
  BY <1>1, <1>2 DEF Finish, Rest, Locals
<1>3. ASSUME Goto(w, "reread")
      PROVE  Goal
  BY <1>1, <1>3 DEF Goto, Locals
<1> QED
  BY <1>2, <1>3 DEF WriteRest

\* A key is put at with a pointer that nobody has, and where Get makes a copy,
\* that is not held by anybody else.
LEMMA PointersMove ==
    ASSUME IInv, NEW w \in Workers, Step(w) \/ \E r \in Menu[w] : Accept(w, r)
    PROVE  /\ \A k \in Keys : stored'[k] # stored[k] =>
                  stored'[k] \notin InUse /\ worker'[w].entry = None
           /\ worker'[w].entry \in {None, worker[w].entry}
                  \/ (Persistent => worker'[w].entry \notin InUse)
<1> DEFINE Goal == /\ \A k \in Keys : stored'[k] # stored[k] =>
                          stored'[k] \notin InUse /\ worker'[w].entry = None
                   /\ worker'[w].entry \in {None, worker[w].entry}
                          \/ (Persistent => worker'[w].entry \notin InUse)
<1>0. worker \in Locals
  BY LocalsType
<1>1. CASE QuietStep(w)
  BY <1>1, QuietSteps, QuietHolds
<1>2. ASSUME Create(w) \/ PutTOTP(w)
      PROVE  Goal
  <2>1. worker[w].key \in Keys
    BY <1>2, CreatorKeys DEF Create, PutTOTP, At
  <2>2. stored' = [stored EXCEPT ![worker[w].key] = NewId(worker[w].key)]
    BY <1>2 DEF Create, PutTOTP, Put
  <2>3. \E a : Finish(w, a)
    BY <1>2 DEF Create, PutTOTP
  <2>4. worker'[w].entry = None
    BY <1>0, <2>3 DEF Finish, Rest, Locals
  <2> QED
    BY <2>1, <2>2, <2>4, NewIdIsFree, TypeParts
<1>3. ASSUME Lookup(w) \/ ProbeTaken(w)
      PROVE  Goal
  <2>1. PICK k \in Keys, id \in Ids, pc \in Pcs : GetsInto(w, k, id, pc) /\ UNCHANGED stored
    <3>1. CASE Lookup(w)
      BY <3>1, Opening DEF Lookup, At, Pcs
    <3>2. CASE ProbeTaken(w)
      BY <3>2, Generating DEF ProbeTaken, Probing, At, Pcs
    <3> QED
      BY <1>3, <3>1, <3>2
  <2>2. worker'[w].entry = id /\ (Persistent => id = NewId(k))
    BY <1>0, <2>1 DEF GetsInto, Locals
  <2> QED
    BY <2>1, <2>2, NewIdIsFree
<1>4. ASSUME UpdateSalt(w) \/ WriteText(w) \/ UpdateUnsealed(w)
      PROVE  Goal
  <2>1. /\ At(w, "update") /\ UNCHANGED stored
        /\ \E e, pc, salt : EditsInto(w, e, pc, salt)
    BY <1>4 DEF UpdateSalt, WriteText, UpdateUnsealed
  <2>2. Persistent => worker'[w].entry = NewId(worker[w].key)
    BY <1>0, <2>1 DEF EditsInto, Locals
  <2>3. worker[w].key \in Keys
    BY <2>1, Updating
  <2> QED
    BY <2>1, <2>2, <2>3, NewIdIsFree
<1>5. CASE FieldStep(w) \/ WriteRest(w)
  BY <1>5, FieldMoves, WriteRestMoves
<1> QED
  BY <1>1, <1>2, <1>3, <1>4, <1>5 DEF Step, QuietStep, FieldStep

-----------------------------------------------------------------------------
(* Texts in clear *)

\* A copy that somebody holds is nobody else's, and not the file.
CopiesApart ==
    Persistent => \A w \in Workers : worker[w].entry # None =>
        /\ \A k \in Keys : stored[k] # worker[w].entry
        /\ \A v \in Workers \ {w} : worker[v].entry # worker[w].entry

\* What an edit that is half done has written stays until it ends.
HalfClear(w) ==
    /\ At(w, "seal") => Held(w).text = None
    /\ worker[w].pc \in Clearing => SaltMayFail
    /\ At(w, "unsalt") => Held(w).enc = None

ClearInv == CopiesApart /\ NoPlaintext /\ \A w \in Workers : HalfClear(w)

\* Encryption does not fail, or nobody writes the fields of an entry that
\* another request is writing.
FailsAlone == ~SaltMayFail \/ Persistent \/ EditorsApart

LEMMA CopiesStep ==
    ASSUME IInv, CopiesApart, NEW w \in Workers, GoesOn(w),
           Step(w) \/ \E r \in Menu[w] : Accept(w, r)
    PROVE  CopiesApart'
<1> SUFFICES ASSUME Persistent, NEW u \in Workers, worker'[u].entry # None
             PROVE  /\ \A k \in Keys : stored'[k] # worker'[u].entry
                    /\ \A v \in Workers \ {u} : worker'[v].entry # worker'[u].entry
  BY DEF CopiesApart
<1>1. \A v \in Workers \ {w} : worker'[v] = worker[v]
  BY DEF GoesOn
<1>2. \A v \in Workers : worker[v].entry \in InUse
  BY DEF InUse
<1>3. \A k \in Keys : stored[k] \in InUse
  BY DEF InUse
<1>4. /\ \A k \in Keys : stored'[k] # stored[k] =>
             stored'[k] \notin InUse /\ worker'[w].entry = None
      /\ worker'[w].entry \in {None, worker[w].entry} \/ worker'[w].entry \notin InUse
  BY PointersMove
<1>5. CASE u = w
  <2>1. \A k \in Keys : stored'[k] = stored[k]
    BY <1>4, <1>5
  <2>2. CASE worker'[w].entry = worker[w].entry
    BY <1>1, <1>5, <2>1, <2>2 DEF CopiesApart
  <2>3. CASE worker'[w].entry \notin InUse
    BY <1>1, <1>2, <1>3, <1>5, <2>1, <2>3
  <2> QED
    BY <1>4, <1>5, <2>2, <2>3
<1>6. CASE u # w
  <2>1. worker'[u].entry = worker[u].entry /\ worker[u].entry \in InUse
    BY <1>1, <1>2, <1>6
  <2>2. \A k \in Keys : stored'[k] # worker[u].entry
    BY <1>4, <2>1 DEF CopiesApart
  <2>3. worker'[w].entry # worker[u].entry
    BY <1>4, <1>6, <2>1 DEF CopiesApart
  <2> QED
    BY <1>1, <1>6, <2>1, <2>2, <2>3 DEF CopiesApart
<1> QED
  BY <1>5, <1>6

\* Nobody else writes to an entry while its fields are being written.
LEMMA OthersKeepOff ==
    ASSUME FailsAlone, SaltMayFail, IInv, CodesApart, CopiesApart,
           NEW w \in Workers, Step(w) \/ \E r \in Menu[w] : Accept(w, r),
           NEW v \in Workers \ {w}, worker[v].pc \in Sealing \cup Clearing
    PROVE  heap'[worker[v].entry] = heap[worker[v].entry]
<1> DEFINE id == worker[v].entry
<1>1. /\ id \in Ids /\ id # None /\ id \in InUse /\ id[1] = worker[v].key
      /\ heap[id].password # None /\ Req(v).password # None
  BY HalfWritten, EntryAssumption
<1>2. SUFFICES ASSUME heap'[id] # heap[id]
               PROVE  FALSE
  OBVIOUS
<1>3. /\ worker[w].pc \in Edits /\ id[1] = worker[w].key
      /\ Persistent \/ worker[w].pc # "update" => id = worker[w].entry
  BY <1>1, <1>2, StepTouches DEF Touches
<1>4. ~Persistent
  BY <1>1, <1>3 DEF CopiesApart
<1>5. ~At(w, "write")
  BY <1>1, <1>3 DEF CodesApart, At, Held
<1>6. ~At(w, "reread")
  <2>1. ASSUME At(w, "reread")
        PROVE  Reread(w)
    BY <2>1 DEF Step, At, ProbeEmpty, ProbeTaken, CompareSealed, CompareDecrypted, ComparePlain,
                CompareOther, Create, SetupRefused, SetupVerified, PickKey, PutTOTP,
                LookupNothing, Lookup, ShowOrLock, ShowTOTP, ReadSalt, ShowUnsealed, Decrypt,
                WrongCredential, UpdateSalt, Reseal, Seal, UpdateUnsealed, ResealFailed,
                ClearCipher, ClearSalt, WriteText, WriteRest, Accept, Presents, Probing
  <2> QED
    BY <1>2, <2>1 DEF Reread
<1>7. Req(w).password # None \/ Req(w).code # None
  <2>1. CASE At(w, "update")
    BY <2>1 DEF IInv, CredentialFits, CodeFits, PasswordFits
  <2>2. CASE worker[w].pc \in Sealing \cup Clearing
    BY <2>2, HalfWritten, EntryAssumption
  <2> QED
    BY <1>3, <1>5, <1>6, <2>1, <2>2 DEF Edits, HalfDone, Sealing, Clearing, At
<1>8. /\ Req(v) \in Menu[v] /\ Req(v).key = worker[v].key
      /\ Req(w) \in Menu[w] /\ Req(w).key = worker[w].key
      /\ Req(v).op = "post" /\ Req(v).text # None /\ Req(w).op = "post" /\ Req(w).text # None
  BY <1>3, Opening, EditingText, EntryAssumption
     DEF Edits, HasKey, HalfDone, Sealing, Clearing
<1>9. EditorsApart
  BY <1>4 DEF FailsAlone
<1> QED
  BY <1>1, <1>3, <1>7, <1>8, <1>9 DEF EditorsApart, IsEdit, TextOnly

\* An entry that may stand as it is.
Hidden(e) == e.password # None => e.text = None \/ (SaltMayFail /\ e.enc = None)

\* What a step of w owes to this invariant.
LEMMA ClearStep ==
    ASSUME FailsAlone, IInv, CodesApart, ClearInv, NEW w \in Workers, GoesOn(w),
           Step(w) \/ \E r \in Menu[w] : Accept(w, r),
           \A id \in Ids : heap'[id] # None /\ heap'[id] # heap[id] =>
               \/ Hidden(heap'[id])
               \/ SaltMayFail /\ At(w, "clear")' /\ id = worker'[w].entry
               \/ /\ SaltMayFail
                  /\ \E v \in Workers \ {w} : At(v, "clear") /\ worker[v].entry = id,
           At(w, "clear") => Hidden(heap'[worker[w].entry]),
           HalfClear(w)'
    PROVE  ClearInv'
<1>1. /\ \A v \in Workers \ {w} : worker'[v] = worker[v]
      /\ IInv'
  BY DEF GoesOn
<1>2. ASSUME NEW id \in Ids, heap'[id] # None, heap'[id].password # None
      PROVE  \/ heap'[id].text = None
             \/ SaltMayFail /\ heap'[id].enc = None
             \/ SaltMayFail /\ \E v \in Workers : At(v, "clear")' /\ worker'[v].entry = id
  <2>1. CASE heap'[id] # heap[id]
    BY <1>1, <1>2, <2>1 DEF Hidden, At
  <2>2. CASE heap'[id] = heap[id] /\ ~(At(w, "clear") /\ worker[w].entry = id)
    BY <1>1, <1>2, <2>2 DEF ClearInv, NoPlaintext, At
  <2>3. CASE At(w, "clear") /\ worker[w].entry = id
    BY <1>2, <2>3 DEF Hidden
  <2> QED
    BY <2>1, <2>2, <2>3
<1>3. NoPlaintext'
  BY <1>2 DEF NoPlaintext
<1>4. ASSUME NEW v \in Workers \ {w}
      PROVE  HalfClear(v)'
  <2>1. worker'[v] = worker[v] /\ HalfClear(v)
    BY <1>1 DEF ClearInv
  <2>2. CASE worker[v].pc \notin Sealing \cup Clearing
    BY <2>1, <2>2 DEF HalfClear, At, Sealing, Clearing
  <2>3. CASE worker[v].pc \in Sealing \cup Clearing /\ SaltMayFail
    <3>1. Held(v)' = Held(v)
      BY <2>1, <2>3, OthersKeepOff DEF ClearInv, Held
    <3> QED
      BY <2>1, <3>1 DEF HalfClear, At
  <2>4. CASE worker[v].pc \in Sealing \cup Clearing /\ ~SaltMayFail
    <3>1. worker'[v].pc \in Sealing /\ worker[v].pc \notin Clearing
      BY <2>1, <2>4 DEF HalfClear
    <3>2. /\ Held(v)' = heap'[worker'[v].entry] /\ worker'[v].entry \in Ids
          /\ Held(v)' # None /\ Held(v)'.password # None
      <4>1. /\ worker[v].entry \in Ids /\ worker[v].entry # None /\ worker[v].entry \in InUse
            /\ heap[worker[v].entry] # None /\ heap[worker[v].entry].password # None
        BY <2>4, HalfWritten
      <4>2. heap'[worker[v].entry] # None /\ heap'[worker[v].entry].password # None
        BY <4>1, InUseStays DEF GoesOn, SameKind
      <4> QED
        BY <2>1, <4>1, <4>2 DEF Held
    <3>3. Held(v)'.text = None
      BY <1>2, <2>4, <3>2
    <3> QED
      BY <2>1, <3>1, <3>3 DEF HalfClear, At, Clearing
  <2> QED
    BY <2>2, <2>3, <2>4
<1>5. CopiesApart'
  BY CopiesStep DEF ClearInv
<1> QED
  BY <1>3, <1>4, <1>5 DEF ClearInv

\* Steps after which w is not inside an edit.
LEMMA NotHalfDone ==
    ASSUME FailsAlone, IInv, CodesApart, ClearInv, NEW w \in Workers, GoesOn(w),
           Step(w) \/ \E r \in Menu[w] : Accept(w, r),
           \A id \in Ids : heap'[id] # None /\ heap'[id] # heap[id] => Hidden(heap'[id]),
           ~At(w, "clear"), worker'[w].pc \notin Sealing \cup Clearing
    PROVE  ClearInv'
<1>1. HalfClear(w)'
  BY DEF HalfClear, At, Sealing, Clearing
<1> QED
  BY <1>1, ClearStep

LEMMA StoredHidden ==
    ASSUME ClearInv, IInv, Persistent, NEW k \in Keys, stored[k] # None
    PROVE  Hidden(heap[stored[k]])
<1>1. stored[k] \in Ids /\ heap[stored[k]] # None
  BY StoredEntry
<1>2. \A w \in Workers : worker[w].entry # stored[k]
  BY DEF ClearInv, CopiesApart
<1> QED
  BY <1>1, <1>2 DEF ClearInv, NoPlaintext, Hidden

LEMMA QuietClear ==
    ASSUME FailsAlone, IInv, CodesApart, ClearInv, NEW w \in Workers, GoesOn(w), QuietStep(w),
           Step(w) \/ \E r \in Menu[w] : Accept(w, r)
    PROVE  ClearInv'
<1>1. UNCHANGED heap
  BY QuietSteps
<1>2. worker'[w].pc \notin Sealing \cup Clearing
  BY QuietPcs DEF HalfDone, Sealing, Clearing
<1>3. ~At(w, "clear")
  BY DEF QuietStep, ProbeEmpty, CompareSealed, CompareDecrypted, ComparePlain, CompareOther,
         SetupRefused, SetupVerified, PickKey, LookupNothing, ShowOrLock, ShowTOTP, ReadSalt,
         ShowUnsealed, Decrypt, WrongCredential, Reread, Accept, Presents, Probing, At
<1> QED
  BY <1>1, <1>2, <1>3, NotHalfDone

LEMMA PutClear ==
    ASSUME FailsAlone, IInv, CodesApart, ClearInv, NEW w \in Workers, GoesOn(w),
           Create(w) \/ PutTOTP(w)
    PROVE  ClearInv'
<1>1. worker[w].key \in Keys /\ ~At(w, "clear")
  BY CreatorKeys DEF Create, PutTOTP, At
<1>2. PICK e : Hidden(e) /\ Put(worker[w].key, e)
  <2>1. CASE Create(w)
    BY <2>1 DEF Create, Hidden, PublicEntry, PasswordEntry, UnsealedEntry
  <2>2. CASE PutTOTP(w)
    BY <2>2 DEF PutTOTP, Hidden, TotpEntry, PublicEntry
  <2> QED
    BY <2>1, <2>2
<1>3. \A id \in Ids : heap'[id] # None /\ heap'[id] # heap[id] => Hidden(heap'[id])
  BY <1>1, <1>2, NewIdIsFree, TypeParts DEF Put
<1>4. worker'[w].pc \notin Sealing \cup Clearing
  BY FinishedPc DEF Create, PutTOTP, Sealing, Clearing
<1>5. Step(w)
  BY DEF Step
<1> QED
  BY <1>1, <1>3, <1>4, <1>5, NotHalfDone

LEMMA GetClear ==
    ASSUME FailsAlone, IInv, CodesApart, ClearInv, NEW w \in Workers, GoesOn(w),
           Lookup(w) \/ ProbeTaken(w)
    PROVE  ClearInv'
<1>1. PICK k \in Keys, id \in Ids, pc \in {"view", "same"} :
          stored[k] # None /\ GetsInto(w, k, id, pc) /\ UNCHANGED stored
  <2>1. CASE Lookup(w)
    BY <2>1, Opening DEF Lookup, At
  <2>2. CASE ProbeTaken(w)
    BY <2>2, Generating DEF ProbeTaken, Probing, At
  <2> QED
    BY <2>1, <2>2
<1>2. \A j \in Ids : heap'[j] # heap[j] => Persistent /\ heap'[j] = heap[stored[k]]
  BY <1>1, TypeParts DEF GetsInto
<1>3. \A j \in Ids : heap'[j] # None /\ heap'[j] # heap[j] => Hidden(heap'[j])
  BY <1>1, <1>2, StoredHidden
<1>4. worker'[w].pc \notin Sealing \cup Clearing /\ ~At(w, "clear")
  <2>1. worker'[w].pc = pc
    BY <1>1, LocalsType DEF GetsInto, Locals
  <2>2. worker[w].pc \in {"lookup", "probe"}
    BY DEF Lookup, ProbeTaken, Probing, At
  <2> QED
    BY <2>1, <2>2 DEF Sealing, Clearing, At
<1>5. Step(w)
  BY DEF Step
<1> QED
  BY <1>3, <1>4, <1>5, NotHalfDone

LEMMA EditHidden ==
    ASSUME IInv, NEW w \in Workers, At(w, "update"),
           NEW e \in Entries, SameKind(e, heap[Target(w)]), GoodKind(e),
           NEW pc \in {"reseal", "clear", "write"}, NEW salt \in Salts \cup {None},
           EditsInto(w, e, pc, salt), UNCHANGED stored
    PROVE  \E id \in Ids :
               /\ worker'[w].entry = id /\ worker'[w].pc = pc
               /\ ~Persistent => id = Target(w)
               /\ heap'[id] = e /\ \A j \in Ids : heap'[j] # heap[j] => j = id
<1>1. /\ worker[w].key \in Keys /\ stored[worker[w].key] # None /\ pc \in Pcs
      /\ Target(w) \in Ids
  BY Updating DEF Pcs, HalfDone
<1>2. EditedInto(w, e, pc, salt)
  BY <1>1, EditGoesOn
<1>3. PICK id \in Ids :
          /\ ~Persistent => id = Target(w)
          /\ heap' = [heap EXCEPT ![id] = e] /\ heap'[id] = e
          /\ worker' = [worker EXCEPT ![w] =
                 [worker[w] EXCEPT !.entry = id, !.pc = pc, !.salt = salt]]
  BY <1>2 DEF EditedInto
<1>4. worker'[w].entry = id /\ worker'[w].pc = pc
  BY <1>3, LocalsType DEF Locals
<1> QED
  BY <1>3, <1>4, TypeParts

LEMMA UpdateSaltClear ==
    ASSUME FailsAlone, IInv, CodesApart, ClearInv, NEW w \in Workers, GoesOn(w), UpdateSalt(w)
    PROVE  ClearInv'
<1> DEFINE s == NewSalt(Target(w))
           e == [heap[Target(w)] EXCEPT !.salt = s]
<1>1. At(w, "update") /\ EditsInto(w, e, "reseal", s) /\ UNCHANGED stored /\ Step(w)
  BY DEF UpdateSalt, Step
<1>2. /\ Target(w) \in Ids /\ heap[Target(w)] \in Entries /\ heap[Target(w)] # None
      /\ GoodKind(heap[Target(w)]) /\ worker[w].key \in Keys /\ stored[worker[w].key] # None
  BY <1>1, Updating
<1>3. s \in Salts
  BY <1>2, NewSaltIsNew
<1> HIDE DEF s
<1>4. /\ e \in Entries /\ SameKind(e, heap[Target(w)]) /\ GoodKind(e)
      /\ e.text = heap[Target(w)].text /\ e.enc = heap[Target(w)].enc
      /\ e.password = heap[Target(w)].password
  BY <1>2, <1>3 DEF Entries, SameKind, GoodKind
<1> HIDE DEF e
<1>5. PICK id \in Ids :
          /\ worker'[w].pc = "reseal" /\ (~Persistent => id = Target(w))
          /\ heap'[id] = e /\ \A j \in Ids : heap'[j] # heap[j] => j = id
  BY <1>1, <1>3, <1>4, EditHidden
<1>6. \/ Hidden(heap[Target(w)])
      \/ /\ SaltMayFail /\ ~Persistent
         /\ \E v \in Workers \ {w} : At(v, "clear") /\ worker[v].entry = Target(w)
  <2>1. CASE Persistent
    BY <1>2, <2>1, StoredHidden DEF Target
  <2>2. CASE ~Persistent
    BY <1>1, <1>2, <2>2 DEF ClearInv, NoPlaintext, Hidden, At
  <2> QED
    BY <2>1, <2>2
<1>7. \/ Hidden(e)
      \/ SaltMayFail /\ \E v \in Workers \ {w} : At(v, "clear") /\ worker[v].entry = id
  BY <1>4, <1>5, <1>6 DEF Hidden
<1>8. HalfClear(w)' /\ ~At(w, "clear")
  BY <1>1, <1>5 DEF HalfClear, At, Clearing
<1> QED
  BY <1>1, <1>5, <1>7, <1>8, ClearStep

\* The crux: a text is written as it is only to an entry without a password, or
\* to one that is losing its ciphertext.
LEMMA WriteTextClear ==
    ASSUME FailsAlone, IInv, CodesApart, CodesApart', ClearInv, NEW w \in Workers, GoesOn(w),
           WriteText(w)
    PROVE  ClearInv'
<1> DEFINE e == [heap[Target(w)] EXCEPT !.text = Torn, !.begun = Req(w).text]
<1>1. At(w, "update") /\ EditsInto(w, e, "write", None) /\ UNCHANGED stored /\ Step(w)
  BY DEF WriteText, Step
<1>2. heap[Target(w)] \in Entries /\ GoodKind(heap[Target(w)]) /\ Req(w).text \in Texts
  BY <1>1, Updating
<1>3. e \in Entries /\ SameKind(e, heap[Target(w)]) /\ GoodKind(e)
  BY <1>2 DEF Entries, SameKind, GoodKind
<1> HIDE DEF e
<1>4. PICK id \in Ids :
          /\ worker'[w].entry = id /\ worker'[w].pc = "write"
          /\ heap'[id] = e /\ \A j \in Ids : heap'[j] # heap[j] => j = id
  BY <1>1, <1>3, EditHidden
<1>5. e.password = None
  BY <1>4 DEF CodesApart, At, Held
<1>6. /\ worker'[w].pc \notin Sealing \cup Clearing /\ ~At(w, "clear")
      /\ \A j \in Ids : heap'[j] # None /\ heap'[j] # heap[j] => Hidden(heap'[j])
  BY <1>1, <1>4, <1>5 DEF At, Sealing, Clearing, Hidden
<1> QED
  BY <1>1, <1>6, NotHalfDone

LEMMA UpdateUnsealedClear ==
    ASSUME FailsAlone, IInv, CodesApart, ClearInv, NEW w \in Workers, GoesOn(w),
           UpdateUnsealed(w)
    PROVE  ClearInv'
<1> DEFINE e == WithText(heap[Target(w)], Req(w).text)
<1>1. /\ At(w, "update") /\ EditsInto(w, e, "clear", None) /\ UNCHANGED stored
      /\ SaltMayFail /\ Step(w)
  BY DEF UpdateUnsealed, Step
<1>2. heap[Target(w)] \in Entries /\ GoodKind(heap[Target(w)]) /\ Req(w).text \in Texts
  BY <1>1, Updating
<1>3. e \in Entries /\ SameKind(e, heap[Target(w)]) /\ GoodKind(e)
  BY <1>2 DEF WithText, Entries, SameKind, GoodKind
<1> HIDE DEF e
<1>4. PICK id \in Ids :
          /\ worker'[w].entry = id /\ worker'[w].pc = "clear"
          /\ \A j \in Ids : heap'[j] # heap[j] => j = id
  BY <1>1, <1>3, EditHidden
<1>5. HalfClear(w)' /\ ~At(w, "clear") /\ At(w, "clear")'
  BY <1>1, <1>4 DEF HalfClear, At
<1> QED
  BY <1>1, <1>4, <1>5, ClearStep

LEMMA FieldClear ==
    ASSUME FailsAlone, IInv, CodesApart, ClearInv, NEW w \in Workers, GoesOn(w), FieldStep(w)
    PROVE  ClearInv'
<1> DEFINE id == worker[w].entry
<1>1. /\ id \in Ids /\ Held(w) = heap[id] /\ Held(w) # None /\ HalfClear(w)
      /\ Held(w).password # None /\ worker[w].pc \in Sealing \cup Clearing
  BY FieldWritten, HalfWritten DEF ClearInv
<1>2. PICK e \in Entries :
          /\ Field(w, e)
          /\ \/ \E pc \in {"seal", "clear", "unsalt"} : FieldNext(w, e, pc)
             \/ LastWrite(w, e) /\ worker[w].pc \in {"seal", "unsalt"}
  BY FieldWritten
<1>3. /\ heap'[id] = e /\ \A j \in Ids : heap'[j] # heap[j] => j = id
  <2>1. Writes(w, e)
    BY <1>2 DEF FieldNext, GoesOnWriting, LastWrite
  <2> QED
    BY <1>1, <2>1, TypeParts DEF Writes
<1>4. Step(w)
  BY DEF Step, FieldStep
<1>5. /\ At(w, "clear") \/ At(w, "unsalt") => SaltMayFail /\ e.enc = None
      /\ At(w, "seal") => e.text = None
  BY <1>1, <1>2 DEF HalfClear, Field, At, Clearing
<1>6. CASE LastWrite(w, e) /\ worker[w].pc \in {"seal", "unsalt"}
  <2>1. Hidden(e) /\ ~At(w, "clear")
    BY <1>5, <1>6 DEF Hidden, At
  <2>2. worker'[w].pc \notin Sealing \cup Clearing
    BY <1>6, FinishedPc DEF LastWrite, Sealing, Clearing
  <2> QED
    BY <1>3, <1>4, <2>1, <2>2, NotHalfDone
<1>7. CASE \E pc \in {"seal", "clear", "unsalt"} : FieldNext(w, e, pc)
  <2>1. PICK pc \in {"seal", "clear", "unsalt"} : FieldNext(w, e, pc)
    BY <1>7
  <2>2. Goto(w, pc) /\ (pc = "clear" => SaltMayFail) /\ (pc = "seal" => e.text = None)
    BY <2>1 DEF FieldNext, GoesOnWriting
  <2>3. worker'[w].pc = pc /\ worker'[w].entry = id
    BY <2>2, LocalsType DEF Goto, Locals
  <2>4. Held(w)' = e
    BY <1>3, <2>3 DEF Held
  <2>5. pc = "unsalt" => At(w, "clear")
    BY <2>1 DEF FieldNext
  <2>6. HalfClear(w)'
    BY <1>5, <2>2, <2>3, <2>4, <2>5 DEF HalfClear, At, Clearing
  <2>7. \/ Hidden(e)
        \/ SaltMayFail /\ At(w, "clear")'
    BY <1>5, <2>2, <2>3, <2>5 DEF Hidden, At
  <2>8. At(w, "clear") => Hidden(heap'[id])
    BY <1>3, <1>5 DEF Hidden
  <2> QED
    BY <1>3, <1>4, <2>3, <2>6, <2>7, <2>8, ClearStep
<1> QED
  BY <1>2, <1>6, <1>7

LEMMA WriteRestClear ==
    ASSUME FailsAlone, IInv, CodesApart, ClearInv, NEW w \in Workers, GoesOn(w), WriteRest(w)
    PROVE  ClearInv'
<1> DEFINE id == worker[w].entry
<1>1. At(w, "write") /\ worker[w].pc \in HasKey /\ Step(w)
  BY DEF WriteRest, At, HasKey, HalfDone, Step
<1>2. /\ id \in Ids /\ Held(w) = heap[id] /\ Held(w) \in Entries
      /\ Held(w).password = None
  BY <1>1, Opening, HeldEntry DEF Held, CodesApart
<1>3. PICK t : heap' = [heap EXCEPT ![id].text = t]
  BY DEF WriteRest
<1>4. heap'[id].password = None /\ \A j \in Ids : heap'[j] # heap[j] => j = id
  <2>1. heap' = [heap EXCEPT ![id] = [Held(w) EXCEPT !.text = t]]
    BY <1>2, <1>3, TypeParts
  <2> QED
    BY <1>2, <2>1, TypeParts DEF Entries
<1>5. worker'[w].pc \notin Sealing \cup Clearing /\ ~At(w, "clear")
  BY <1>1, WriteRestMoves DEF Sealing, Clearing, At
<1>6. \A j \in Ids : heap'[j] # None /\ heap'[j] # heap[j] => Hidden(heap'[j])
  BY <1>4 DEF Hidden
<1> QED
  BY <1>1, <1>5, <1>6, NotHalfDone

LEMMA StepClear ==
    ASSUME RandomApart, FailsAlone, IInv, CodesApart, ClearInv, NEW w \in Workers,
           Step(w) \/ \E r \in Menu[w] : Accept(w, r)
    PROVE  ClearInv'
<1>1. GoesOn(w)
  BY StepGoesOn, AcceptInv
<1>2. CodesApart'
  BY <1>1, StepApart, QuietApart DEF QuietStep
<1>3. CASE QuietStep(w)
  BY <1>1, <1>3, QuietClear
<1>4. CASE FieldStep(w)
  BY <1>1, <1>4, FieldClear
<1> QED
  BY <1>1, <1>2, <1>3, <1>4, PutClear, GetClear, UpdateSaltClear, UpdateUnsealedClear,
     WriteTextClear, WriteRestClear DEF Step, QuietStep, FieldStep

LEMMA InitClear == Init => ClearInv
<1> SUFFICES ASSUME Init
             PROVE  ClearInv
  OBVIOUS
<1>1. \A w \in Workers : worker[w].pc = "idle" /\ worker[w].entry = None
  BY DEF Init, Rest
<1>2. CopiesApart /\ NoPlaintext
  BY <1>1 DEF Init, CopiesApart, NoPlaintext
<1>3. \A w \in Workers : HalfClear(w)
  BY <1>1 DEF HalfClear, At, Clearing
<1> QED
  BY <1>2, <1>3 DEF ClearInv

LEMMA NextClear ==
    ASSUME RandomApart, FailsAlone, IInv, CodesApart, ClearInv, [Next]_vars
    PROVE  ClearInv'
<1>1. CASE UNCHANGED vars
  BY <1>1 DEF vars, ClearInv, CopiesApart, NoPlaintext, HalfClear, At, Held
<1> QED
  BY <1>1, StepClear DEF Next

\* createEntry and updateEntry leave no text in clear in an entry with a password
\* (unless encryption failed, and then there is no ciphertext once the edit has
\* cleared it), however the requests that create, open and edit entries
\* interleave, and each edit writes one field at a time.  No key of generateKey
\* is drawn for a TOTP entry too; and encryption does not fail, or each edit is
\* on a copy of its own (FileStore), or no two requests edit an entry at the
\* same time: without any of these, the edit that fails writes its text, or
\* clears the ciphertext, between the two fields of another.
THEOREM NoPlaintextStored ==
    ASSUME RandomApart, FailsAlone
    PROVE  Spec => []NoPlaintext
<1>1. IInv /\ CodesApart /\ ClearInv /\ [Next]_vars => (IInv /\ CodesApart /\ ClearInv)'
  BY NextInv, NextApart, NextClear
<1>2. ClearInv => NoPlaintext
  BY DEF ClearInv
<1> QED
  BY <1>1, <1>2, InitInv, InitApart, InitClear, PTL DEF Spec
=============================================================================
