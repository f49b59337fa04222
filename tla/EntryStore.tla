----------------------------- MODULE EntryStore -----------------------------
(***************************************************************************)
(* The entries of the server and the requests that create, open and edit   *)
(* them at the same time: handleGenerate, handleSetupTOTP and handleView   *)
(* of handlers.go over a Store.                                            *)
(*                                                                         *)
(* Every request runs on a goroutine of its own.  The store's lock covers  *)
(* one Get or one Put; an Entry that Get returned is read and written with *)
(* no lock at all.  So a request takes one step per access to what it      *)
(* shares with others: a Get, a Put, a field of an entry.  The slow calls  *)
(* (bcrypt, Argon2id) lie between those steps.                             *)
(*                                                                         *)
(* Left out here: CSRF tokens and rate limits, which decide whether a      *)
(* request gets this far (Csrf.tla, RateLimiter.tla), UpdatedAt, and how   *)
(* pages look.  A limiter that refuses shows the page of a wrong password. *)
(***************************************************************************)
EXTENDS Entry, FiniteSets, Sequences

CONSTANTS
    Keys,           \* shortcodes, in lower case
    Workers,        \* bound: requests handled at the same time
    Menu,           \* bound: Menu[w], the requests that worker w is given
    Candidates,     \* Candidates[d]: the keys generateKey yields for data d, in order
    RandomKeys,     \* RandomKeys[i]: keys of minLen+i-1 characters; the last is the fallback's
    Persistent,     \* TRUE: a FileStore, whose Get parses a fresh copy
    SaltMayFail,    \* whether generateSalt or encrypt may return an error
    RandomRepeats   \* whether random keys may repeat: one in 36^3 at the least

Versions == 1 .. Cardinality(Workers) + 2
Ids == Keys \X Versions             \* pointers to entries

Data == Texts \X (Passwords \cup {None})

Request == [op : {"generate", "setup", "get", "post"},
            key : Keys \cup {None},
            text : Texts \cup {None},
            password : Passwords \cup {None},
            secret : Secrets \cup {None},
            code : Secrets \cup {None}]

\* The fields that the forms of each kind send; a form that opens an entry asks
\* for a password or for a code.
WellFormed(r) ==
    /\ r.op \in {"generate", "setup"} => r.text \in Texts
    /\ r.op = "setup" => r.secret \in Secrets
    /\ r.op = "generate" => r.code = None
    /\ r.op \in {"get", "post"} => r.key \in Keys
    /\ r.op = "post" => None \in {r.password, r.code}

Requests == UNION {Menu[w] : w \in Workers}

NoRequest == [op |-> "none", key |-> None, text |-> None, password |-> None,
              secret |-> None, code |-> None]
GenerateRequest(t, p) ==
    [NoRequest EXCEPT !.op = "generate", !.text = t, !.password = p]
SetupRequest(t, s, c) ==
    [NoRequest EXCEPT !.op = "setup", !.text = t, !.secret = s, !.code = c]
GetRequest(k) == [NoRequest EXCEPT !.op = "get", !.key = k]
PostRequest(k, t, p, c) ==
    [NoRequest EXCEPT !.op = "post", !.key = k, !.text = t, !.password = p, !.code = c]

ASSUME StoreAssumption ==
    /\ IsFiniteSet(Workers)
    /\ Menu \in [Workers -> SUBSET Request]
    /\ \A r \in Requests : WellFormed(r)
    /\ Candidates \in [Data -> Seq(Keys)]
    /\ RandomKeys \in Seq(SUBSET Keys)
    /\ Len(RandomKeys) > 0 /\ \A i \in DOMAIN RandomKeys : RandomKeys[i] # {}
    /\ {Persistent, SaltMayFail, RandomRepeats} \subseteq BOOLEAN
    /\ None \notin Keys /\ None \notin Ids
    /\ IsFiniteSet(Salts) /\ Cardinality(Salts) > Cardinality(Workers) + 2

VARIABLES
    stored,     \* the store: key -> pointer
    heap,       \* pointer -> entry
    worker,     \* where each request is, and its local variables
    answer,     \* the page each request was answered with
    promise     \* history: what the last acknowledged request left at a key

vars == <<stored, heap, worker, answer, promise>>

\* Inside an edit: some fields of the entry are written, others are not.
HalfDone == {"reseal", "seal", "clear", "unsalt", "write"}

Pcs == {"idle", "probe", "same", "unseal", "create", "setup", "pick", "put", "lookup",
        "view", "decrypt", "update", "reread"} \cup HalfDone

Local == [pc : Pcs, req : Requests \cup {NoRequest}, i : Nat,
          key : Keys \cup {None}, entry : Ids \cup {None}, salt : Salts \cup {None}]

Answer == [page : {"none", "redirect", "home", "lock", "wrong", "shown"},
           key : Keys \cup {None}, text : Texts \cup {None, Torn}, updated : BOOLEAN]

NoAnswer == [page |-> "none", key |-> None, text |-> None, updated |-> FALSE]
Page(p) == [NoAnswer EXCEPT !.page = p]
Redirect(k) == [NoAnswer EXCEPT !.page = "redirect", !.key = k]
Shown(t, u) == [NoAnswer EXCEPT !.page = "shown", !.text = t, !.updated = u]

Rest(r) == [pc |-> "idle", req |-> r, i |-> 0, key |-> None, entry |-> None,
            salt |-> None]

TypeOK ==
    /\ stored \in [Keys -> Ids \cup {None}]
    /\ heap \in [Ids -> Entries \cup {None}]
    /\ worker \in [Workers -> Local]
    /\ answer \in [Workers -> Answer]
    /\ promise \in [Keys -> [text : Texts, cred : Passwords \cup Secrets \cup {None}]
                              \cup {None}]

Init ==
    /\ stored = [k \in Keys |-> None]
    /\ heap = [id \in Ids |-> None]
    /\ worker = [w \in Workers |-> Rest(NoRequest)]
    /\ answer = [w \in Workers |-> NoAnswer]
    /\ promise = [k \in Keys |-> None]

-----------------------------------------------------------------------------
(* Steps that several handlers share *)

At(w, pc) == worker[w].pc = pc
Req(w) == worker[w].req
Goto(w, pc) == worker' = [worker EXCEPT ![w].pc = pc]

Finish(w, a) ==
    /\ worker' = [worker EXCEPT ![w] = Rest(Req(w))]
    /\ answer' = [answer EXCEPT ![w] = a]

\* A key now holds this text, for whoever presents this credential.
Promise(k, t, c) == promise' = [promise EXCEPT ![k] = [text |-> t, cred |-> c]]

InUse == {stored[k] : k \in Keys} \cup {worker[w].entry : w \in Workers}
NewId(k) == <<k, CHOOSE v \in Versions : <<k, v>> \notin InUse>>

\* Salts meet only inside an entry, so a new one need only differ from those
\* its entry has or had when someone read them.
FirstSalt == CHOOSE s \in Salts : TRUE
NewSalt(id) ==
    CHOOSE s \in Salts :
        /\ s # heap[id].salt
        /\ heap[id].enc # None => s # heap[id].enc.key.salt
        /\ \A w \in Workers : worker[w].entry = id => s # worker[w].salt

\* Put, and the new entry it stores.
Put(k, e) ==
    LET id == NewId(k)
    IN  /\ stored' = [stored EXCEPT ![k] = id]
        /\ heap' = [heap EXCEPT ![id] = e]

\* Get(k), when it is not nil: the pointer itself, or that of a copy.
GetsInto(w, k, id, pc) ==
    /\ worker' = [worker EXCEPT ![w].entry = id, ![w].pc = pc]
    /\ IF Persistent
       THEN id = NewId(k) /\ heap' = [heap EXCEPT ![id] = heap[stored[k]]]
       ELSE id = stored[k] /\ UNCHANGED heap

Held(w) == heap[worker[w].entry]

-----------------------------------------------------------------------------
(* A request arrives *)

\* Bound: a request that may need a key comes only while enough are left.
Free(S) == {k \in S : stored[k] = None}
Busy(w) == {v \in Workers \ {w} : ~At(v, "idle") /\ Req(v).op \in {"generate", "setup"}}
Tries(r) ==
    IF r.op = "generate"
    THEN {Candidates[<<r.text, r.password>>][i] :
             i \in DOMAIN Candidates[<<r.text, r.password>>]}
    ELSE RandomKeys[Len(RandomKeys)]
HasRoom(w, r) ==
    r.op \in {"generate", "setup"} => Cardinality(Free(Tries(r))) > Cardinality(Busy(w))

Accept(w, r) ==
    /\ At(w, "idle")
    /\ HasRoom(w, r)
    /\ worker' = [worker EXCEPT ![w] =
           [Rest(r) EXCEPT !.i = 1, !.key = r.key,
                           !.pc = CASE r.op = "generate" -> "probe"
                                    [] r.op = "setup" -> "setup"
                                    [] OTHER -> "lookup"]]
    /\ answer' = [answer EXCEPT ![w] = NoAnswer]
    /\ UNCHANGED <<stored, heap, promise>>

-----------------------------------------------------------------------------
(* handleGenerate: GenerateShortcode *)

TriedData(w) == <<Req(w).text, Req(w).password>>
Try(w) == Candidates[TriedData(w)][worker[w].i]

\* Bound: Candidates has the first keys of an endless loop.
Probing(w) == At(w, "probe") /\ worker[w].i \in DOMAIN Candidates[TriedData(w)]

NextTry(w) ==
    /\ worker' = [worker EXCEPT ![w] =
           [Rest(Req(w)) EXCEPT !.pc = "probe", !.i = worker[w].i + 1]]
    /\ UNCHANGED <<stored, heap, answer, promise>>

\* Mutant of ProbeEmpty: does not ask the store.
ProbeUnchecked(w) ==
    /\ At(w, "probe")
    /\ worker' = [worker EXCEPT ![w].key = Try(w), ![w].pc = "create"]
    /\ UNCHANGED <<stored, heap, answer, promise>>

\* store.Get of the next key: an empty slot, or an entry to compare with.
ProbeEmpty(w) ==
    /\ Probing(w)
    /\ stored[Try(w)] = None
    /\ worker' = [worker EXCEPT ![w].key = Try(w), ![w].pc = "create"]
    /\ UNCHANGED <<stored, heap, answer, promise>>

ProbeTaken(w) ==
    /\ Probing(w)
    /\ stored[Try(w)] # None
    /\ \E id \in Ids : GetsInto(w, Try(w), id, "same")
    /\ UNCHANGED <<stored, answer, promise>>

\* isSameEntry found the text: the key is the answer.
FoundSame(w) ==
    /\ Finish(w, Redirect(Try(w)))
    /\ Promise(Try(w), Req(w).text, Req(w).password)
    /\ UNCHANGED <<stored, heap>>

\* Mutant of CompareSealed: the password alone makes two entries the same.
ComparePasswordOnly(w) ==
    /\ At(w, "same")
    /\ verifyPassword(Held(w).password, Req(w).password)
    /\ Held(w).enc # None
    /\ FoundSame(w)

\* Mutant of CompareSealed: ciphertexts are never the same.
CompareSealedNever(w) ==
    /\ At(w, "same")
    /\ verifyPassword(Held(w).password, Req(w).password)
    /\ Held(w).enc # None
    /\ NextTry(w)

\* isSameEntry up to the read of the salt.
CompareSealed(w) ==
    /\ At(w, "same")
    /\ verifyPassword(Held(w).password, Req(w).password)
    /\ Held(w).enc # None
    /\ worker' = [worker EXCEPT ![w].salt = Held(w).salt, ![w].pc = "unseal"]
    /\ UNCHANGED <<stored, heap, answer, promise>>

\* The rest of isSameEntry: read the ciphertext, decrypt it and compare.
CompareDecrypted(w) ==
    /\ At(w, "unseal")
    /\ IF Unseal(Held(w).enc, worker[w].salt, Req(w).password) = Req(w).text
       THEN FoundSame(w)
       ELSE NextTry(w)

\* isSameEntry without a password: the texts are compared, whether or not a
\* TOTP secret protects the entry.
ComparePlain(w) ==
    /\ At(w, "same")
    /\ Req(w).password = None
    /\ IF Held(w).password = None /\ Held(w).text = Req(w).text
       THEN FoundSame(w)
       ELSE NextTry(w)

\* isSameEntry with a password that does not fit, or an entry left in clear.
CompareOther(w) ==
    /\ At(w, "same")
    /\ Req(w).password # None
    /\ \/ ~verifyPassword(Held(w).password, Req(w).password) /\ NextTry(w)
       \/ /\ verifyPassword(Held(w).password, Req(w).password)
          /\ Held(w).enc = None
          /\ IF Held(w).text = Req(w).text THEN FoundSame(w) ELSE NextTry(w)

\* createEntry, Argon2id and all, then its Put: what the key held when it was
\* probed is not looked at again.
Create(w) ==
    LET k == worker[w].key
        p == Req(w).password
    IN  /\ At(w, "create")
        /\ \/ /\ p = None
              /\ Put(k, PublicEntry(Req(w).text))
           \/ /\ p # None
              /\ Put(k, PasswordEntry(Req(w).text, p, FirstSalt))
           \/ /\ p # None /\ SaltMayFail
              /\ Put(k, UnsealedEntry(Req(w).text, p))
        /\ Finish(w, Redirect(k))
        /\ Promise(k, Req(w).text, p)

-----------------------------------------------------------------------------
(* handleSetupTOTP: POST *)

\* The limiter refuses, or the code is not the secret's.
SetupRefused(w) ==
    /\ At(w, "setup")
    /\ Finish(w, Page("wrong"))
    /\ UNCHANGED <<stored, heap, promise>>

SetupVerified(w) ==
    /\ At(w, "setup")
    /\ ValidateTOTP(Req(w).secret, Req(w).code)
    /\ Goto(w, "pick")
    /\ UNCHANGED <<stored, heap, answer, promise>>

Drawn(w) == {worker[v].key : v \in {u \in Workers \ {w} : At(u, "put")}}

\* Mutant of PickKey: takes the first key it draws.
PickUnchecked(w) ==
    /\ At(w, "pick")
    /\ \E k \in RandomKeys[worker[w].i] :
          worker' = [worker EXCEPT ![w].key = k, ![w].pc = "put"]
    /\ UNCHANGED <<stored, heap, answer, promise>>

\* Mutant of PickKey: draws again at the same length.
PickSameLength(w) ==
    /\ At(w, "pick")
    /\ \E k \in RandomKeys[worker[w].i] :
          worker' = IF stored[k] = None
                    THEN [worker EXCEPT ![w].key = k, ![w].pc = "put"]
                    ELSE worker
    /\ UNCHANGED <<stored, heap, answer, promise>>

\* GenerateRandomShortcode, one length: a key is taken if Get returns nil, and
\* at the last length without asking.  Bound: the 36^8 keys of that length are
\* never exhausted, so it is a free one.
PickKey(w) ==
    LET i == worker[w].i
    IN  /\ At(w, "pick")
        /\ \E k \in RandomKeys[i] :
              /\ RandomRepeats \/ k \notin Drawn(w)
              /\ i = Len(RandomKeys) => stored[k] = None
              /\ worker' = IF stored[k] = None
                           THEN [worker EXCEPT ![w].key = k, ![w].pc = "put"]
                           ELSE [worker EXCEPT ![w].i = i + 1]
        /\ UNCHANGED <<stored, heap, answer, promise>>

PutTOTP(w) ==
    LET k == worker[w].key
    IN  /\ At(w, "put")
        /\ Put(k, TotpEntry(Req(w).text, Req(w).secret))
        /\ Finish(w, Redirect(k))
        /\ Promise(k, Req(w).text, Req(w).secret)

-----------------------------------------------------------------------------
(* handleView *)

LookupNothing(w) ==
    /\ At(w, "lookup")
    /\ stored[worker[w].key] = None
    /\ Finish(w, Page("home"))
    /\ UNCHANGED <<stored, heap, promise>>

Lookup(w) ==
    /\ At(w, "lookup")
    /\ stored[worker[w].key] # None
    /\ \E id \in Ids : GetsInto(w, worker[w].key, id, "view")
    /\ UNCHANGED <<stored, answer, promise>>

TextOnly(r) == r.op = "post" /\ r.text # None /\ r.password = None /\ r.code = None

\* Mutant of ShowOrLock: only a password locks an entry.
ShowOrLockPassword(w) ==
    /\ At(w, "view")
    /\ Req(w).op = "get" \/ TextOnly(Req(w))
    /\ Finish(w, IF Held(w).password # None THEN Page("lock") ELSE Shown(Held(w).text, FALSE))
    /\ UNCHANGED <<stored, heap, promise>>

\* A GET, or a POST that presents nothing: the page, or the form that asks.
ShowOrLock(w) ==
    /\ At(w, "view")
    /\ Req(w).op = "get" \/ TextOnly(Req(w))
    /\ Finish(w, IF Held(w).protected THEN Page("lock") ELSE Shown(Held(w).text, FALSE))
    /\ UNCHANGED <<stored, heap, promise>>

Presents(w) == At(w, "view") /\ Req(w).op = "post" /\ ~TextOnly(Req(w))

CodeFits(w) ==
    Held(w).totp # None /\ Req(w).code # None /\ ValidateTOTP(Held(w).totp, Req(w).code)

PasswordFits(w) ==
    /\ Held(w).totp = None
    /\ Req(w).password # None
    /\ verifyPassword(Held(w).password, Req(w).password)

\* A right code shows the text, or goes on to replace it.
ShowTOTP(w) ==
    /\ Presents(w) /\ CodeFits(w)
    /\ IF Req(w).text = None
       THEN Finish(w, Shown(Held(w).text, FALSE))
       ELSE Goto(w, "update") /\ UNCHANGED answer
    /\ UNCHANGED <<stored, heap, promise>>

\* Mutant of ReadSalt: takes every entry with a password for a sealed one.
ReadSaltAlways(w) ==
    /\ Presents(w) /\ PasswordFits(w)
    /\ worker' = [worker EXCEPT ![w].salt = Held(w).salt, ![w].pc = "decrypt"]
    /\ UNCHANGED <<stored, heap, answer, promise>>

\* A right password reads the salt for DecryptWithPassword.
ReadSalt(w) ==
    /\ Presents(w) /\ PasswordFits(w)
    /\ Held(w).enc # None
    /\ worker' = [worker EXCEPT ![w].salt = Held(w).salt, ![w].pc = "decrypt"]
    /\ UNCHANGED <<stored, heap, answer, promise>>

ShowOrUpdate(w, text) ==
    IF Req(w).text = None
    THEN Finish(w, Shown(text, FALSE))
    ELSE Goto(w, "update") /\ UNCHANGED answer

\* An entry left in clear by a failed encryption.
ShowUnsealed(w) ==
    /\ Presents(w) /\ PasswordFits(w)
    /\ Held(w).enc = None
    /\ ShowOrUpdate(w, Held(w).text)
    /\ UNCHANGED <<stored, heap, promise>>

\* Argon2id is done: read the ciphertext and decrypt it.
Decrypt(w) ==
    LET text == Unseal(Held(w).enc, worker[w].salt, Req(w).password)
    IN  /\ At(w, "decrypt")
        /\ IF text = Failed THEN Finish(w, Page("wrong")) ELSE ShowOrUpdate(w, text)
        /\ UNCHANGED <<stored, heap, promise>>

\* The form again, for a wrong credential and for any at a public entry.
WrongCredential(w) ==
    /\ Presents(w) /\ ~CodeFits(w) /\ ~PasswordFits(w)
    /\ Finish(w, Page("wrong"))
    /\ UNCHANGED <<stored, heap, promise>>

-----------------------------------------------------------------------------
(* updateEntry, which gets the entry anew and edits what it is given *)

\* The password handleView passes to updateEntry: "" after a TOTP code.
EditPassword(w) == IF Held(w).totp # None THEN None ELSE Req(w).password
Presented(r) == IF r.code # None THEN r.code ELSE r.password

Target(w) == stored[worker[w].key]
Sealed(w) == heap[Target(w)].password # None /\ EditPassword(w) # None

\* updateEntry's Get: the entry that is edited, or a copy of it, with edits e.
EditsInto(w, e, pc, salt) ==
    LET id == IF Persistent THEN NewId(worker[w].key) ELSE Target(w)
    IN  /\ heap' = [heap EXCEPT ![id] = e]
        /\ worker' = [worker EXCEPT ![w].entry = id, ![w].pc = pc, ![w].salt = salt]

\* Mutant of UpdateSalt: the entry keeps its old salt.
UpdateSaltForgotten(w) ==
    LET s == NewSalt(Target(w))
    IN  /\ At(w, "update") /\ Sealed(w)
        /\ EditsInto(w, heap[Target(w)], "reseal", s)
        /\ UNCHANGED <<stored, answer, promise>>

\* The new salt is in the entry before the new ciphertext is made.
UpdateSalt(w) ==
    LET s == NewSalt(Target(w))
    IN  /\ At(w, "update") /\ Sealed(w)
        /\ EditsInto(w, [heap[Target(w)] EXCEPT !.salt = s], "reseal", s)
        /\ UNCHANGED <<stored, answer, promise>>

\* The text of an entry is assigned to, both words of it.
WithText(e, text) == [e EXCEPT !.text = text, !.begun = text]

\* One field of the entry that is edited, and then another.
Writes(w, e) == heap' = [heap EXCEPT ![worker[w].entry] = e]
GoesOnWriting(w, e, pc) ==
    /\ Writes(w, e)
    /\ Goto(w, pc)
    /\ UNCHANGED <<stored, answer, promise>>
LastWrite(w, e) ==
    /\ Writes(w, e)
    /\ Finish(w, Shown(Req(w).text, TRUE))
    /\ Promise(worker[w].key, Req(w).text, Req(w).password)
    /\ UNCHANGED stored

\* generateSalt failed: the entry is left in clear.  First the text, then the
\* ciphertext and the salt, as after a failed encrypt.
UpdateUnsealed(w) ==
    /\ At(w, "update") /\ Sealed(w) /\ SaltMayFail
    /\ EditsInto(w, WithText(heap[Target(w)], Req(w).text), "clear", None)
    /\ UNCHANGED <<stored, answer, promise>>

ResealFailed(w) ==
    /\ At(w, "reseal") /\ SaltMayFail
    /\ GoesOnWriting(w, WithText(Held(w), Req(w).text), "clear")

\* Mutant of ClearCipher: the old ciphertext stays.
ClearNothing(w) ==
    /\ At(w, "clear")
    /\ GoesOnWriting(w, Held(w), "unsalt")

ClearCipher(w) ==
    /\ At(w, "clear")
    /\ GoesOnWriting(w, [Held(w) EXCEPT !.enc = None], "unsalt")

ClearSalt(w) ==
    /\ At(w, "unsalt")
    /\ LastWrite(w, [Held(w) EXCEPT !.salt = None])

\* Argon2id is done and the text encrypted: what may be left in clear goes ...
Reseal(w) ==
    /\ At(w, "reseal")
    /\ GoesOnWriting(w, WithText(Held(w), None), "seal")

\* Mutant of Seal: no key is derived.
SealWithoutKey(w) ==
    /\ At(w, "seal")
    /\ LastWrite(w, [Held(w) EXCEPT !.enc = encrypt(Req(w).text, None)])

\* ... and the ciphertext follows, under the salt of this request.
Seal(w) ==
    /\ At(w, "seal")
    /\ LastWrite(w, [Held(w) EXCEPT
           !.enc = encrypt(Req(w).text, deriveKey(Req(w).password, worker[w].salt))])

\* Without a password the text is written as it is: first one word of the
\* string, then the other.
WriteText(w) ==
    /\ At(w, "update") /\ ~Sealed(w)
    /\ EditsInto(w, [heap[Target(w)] EXCEPT !.text = Torn, !.begun = Req(w).text], "write", None)
    /\ UNCHANGED <<stored, answer, promise>>

\* The first word may be that of another writer by now, who may be done.
WriteRest(w) ==
    /\ At(w, "write")
    /\ heap' = [heap EXCEPT ![worker[w].entry].text =
           IF Held(w).begun = Req(w).text THEN Req(w).text ELSE Torn]
    /\ Promise(worker[w].key, Req(w).text, Presented(Req(w)))
    /\ IF Req(w).code # None
       THEN Goto(w, "reread") /\ UNCHANGED answer
       ELSE Finish(w, Shown(Req(w).text, TRUE))
    /\ UNCHANGED stored

\* After a TOTP edit the page shows what a new Get returns.
Reread(w) ==
    /\ At(w, "reread")
    /\ Finish(w, Shown(heap[Target(w)].text, TRUE))
    /\ UNCHANGED <<stored, heap, promise>>

-----------------------------------------------------------------------------
Step(w) ==
    \/ ProbeEmpty(w) \/ ProbeTaken(w)
    \/ CompareSealed(w) \/ CompareDecrypted(w) \/ ComparePlain(w) \/ CompareOther(w)
    \/ Create(w)
    \/ SetupRefused(w) \/ SetupVerified(w) \/ PickKey(w) \/ PutTOTP(w)
    \/ LookupNothing(w) \/ Lookup(w)
    \/ ShowOrLock(w) \/ ShowTOTP(w) \/ ReadSalt(w) \/ ShowUnsealed(w)
    \/ Decrypt(w) \/ WrongCredential(w)
    \/ UpdateSalt(w) \/ Reseal(w) \/ Seal(w)
    \/ UpdateUnsealed(w) \/ ResealFailed(w) \/ ClearCipher(w) \/ ClearSalt(w)
    \/ WriteText(w) \/ WriteRest(w) \/ Reread(w)

Next == \E w \in Workers : Step(w) \/ \E r \in Menu[w] : Accept(w, r)

Spec == Init /\ [][Next]_vars

\* The scheduler runs every goroutine; nobody has to send a request.
FairSpec == Spec /\ \A w \in Workers : WF_vars(Step(w))

-----------------------------------------------------------------------------
(* Properties *)

Editing(k) == \E w \in Workers :
    worker[w].key = k /\ worker[w].pc \in HalfDone

\* What a key was last acknowledged to hold is what the right credential
\* opens, whenever no edit of it is half done: no create, edit or clash of keys
\* loses it.
PromiseKept ==
    \A k \in Keys : promise[k] # None /\ ~Editing(k) =>
        /\ stored[k] # None
        /\ OpenWith(heap[stored[k]], promise[k].cred) = promise[k].text

\* The requests that would save a text, and the credential it is saved under.
Saves(t) == {r \in Requests : r.text = t /\ ~TextOnly(r)}
SavedUnder(r) == IF r.op = "setup" THEN r.secret ELSE Presented(r)

\* Whoever is shown a text has presented what some request that wrote it asked
\* for, or it was written with no protection.
ShownIsAuthorised ==
    \A w \in Workers : answer[w].page = "shown" /\ answer[w].text \in Texts =>
        \E r \in Saves(answer[w].text) :
            SavedUnder(r) \in {None, Req(w).password, Req(w).code}

\* The text of an entry with a password is nowhere in clear; where encryption
\* may fail, it is never in clear beside a ciphertext, but for the time of the
\* edit that takes the ciphertext away (createEntry, updateEntry).
NoPlaintext ==
    \A id \in Ids : heap[id] # None /\ heap[id].password # None =>
        \/ heap[id].text = None
        \/ SaltMayFail /\ heap[id].enc = None
        \/ SaltMayFail /\ \E w \in Workers : At(w, "clear") /\ worker[w].entry = id

\* Who is refused has not presented what the key is saved under, unless
\* somebody else was editing that entry meanwhile: handleView reads the salt
\* long before the ciphertext, and updateEntry replaces one after the other.
TurnsAway(w) ==
    LET p == promise[Req(w).key]
    IN  /\ ~At(w, "idle") /\ worker'[w].pc = "idle" /\ answer'[w].page = "wrong"
        /\ Req(w).op = "post"
        /\ p # None /\ p.cred # None /\ p.cred \in {Req(w).password, Req(w).code}
EditSince(w) ==
    /\ At(w, "decrypt")
    /\ \/ Held(w).enc = None \/ Held(w).salt # worker[w].salt
       \/ \E v \in Workers \ {w} :
              worker[v].key = worker[w].key /\ worker[v].pc \in HalfDone
RefusedOnlyByEdits == [][\A w \in Workers : TurnsAway(w) => EditSince(w)]_vars

\* GenerateShortcode and GenerateRandomShortcode take no lock from the Get that
\* finds a key empty to the Put that fills it.  So an entry may be replaced by
\* those who found its key empty as well; once they are done, it stays for good.
Settled(k) ==
    /\ stored[k] # None
    /\ \A w \in Workers : worker[w].pc \in {"create", "put"} => worker[w].key # k
EntriesSettle ==
    [][\A k \in Keys : Settled(k) => Settled(k)' /\ stored'[k] = stored[k]]_vars

\* One text under one password has one key, however often and by however many
\* it is generated (TestSameTextSamePassword), until it is edited.
OneKeyPerInput ==
    \A j, k \in Keys : promise[j] # None /\ promise[j] = promise[k]
        => j = k \/ promise[j].cred \in Secrets

\* Every request is answered: probing for a key ends, and nobody waits for
\* anybody for ever.
Answered == \A w \in Workers : ~At(w, "idle") ~> At(w, "idle")
=============================================================================
