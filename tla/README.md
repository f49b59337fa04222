# goqrly in TLA+

goqrly is a small web server: it stores texts under short keys, shows them as
QR codes, and can put them behind a password or a TOTP secret. This directory
holds TLA+ models of it, the TLC configurations that check them, and proofs
that TLAPS checks. Line numbers refer to the Go files of the repository.

    tlc -workers 2 -config MCEntryOverlaps.cfg MCEntryStore       # one run
    tlapm RateLimiterProofs.tla                                   # one proof module

## The system

| Component | State | Operations | Talks to |
|---|---|---|---|
| Rate limiter (`ratelimit.go`) | attempts per key, ticker, `done` channel | `Allow`, `Remaining`, `Reset`, `Stop`; a goroutine runs `cleanupOld` | called by `HTTPLimiter.Middleware` for every request, by `handleView` and `handleSetupTOTP` for failed credentials |
| CSRF tokens (`csrf.go`) | token -> client key | `GenerateToken`, `ValidateToken`, `Cleanup` | every page with a form generates one; `csrfMiddleware` validates every POST |
| Entries (`store.go`, `crypto.go`) | text or ciphertext, salt, bcrypt hash, TOTP secret | `createEntry`, `DecryptWithPassword`, `isSameEntry` | shared by all requests, by pointer, without a lock |
| Memory store (`store.go`) | key -> pointer to an entry | `Get`, `Put`, each under `mu` | the handlers |
| File store (`filestore.go`) | one encrypted file per key, a server key | `Get`, `Put`, `NewFileStore` | the same handlers; `Get` parses a fresh copy |
| Handlers (`handlers.go`) | locals of each request | `handleGenerate`, `handleSetupTOTP`, `handleView`, `handleIndex` | store, CSRF tokens, limiters, recent list |
| Recent list (`main.go:30`) | `recentCodes` | append and trim in two handlers, read by `handleIndex`, no lock | memory store |
| Routing, middleware (`handlers.go:101-138`) | none | limiter, then CSRF check, then the mux | all of the above |
| Configuration (`config.go`) | none (pure) | `ParseArgs`, `InstallConfig` | `main`, `installService` |
| Service (`main.go:200-354, 475-520`) | certificates, marker, binary, unit file | install, uninstall | configuration, address, systemd |
| Public address (`main.go:411-446`) | a channel, a timeout | `detectPublicIP` | `curl`, `hostname` |

`net/http` runs each request on a goroutine of its own. What is hard here:

* **Entries are shared without a lock.** The store's lock covers one `Get` or
  one `Put`. Between them lie bcrypt and Argon2id, some hundred milliseconds.
  `GenerateShortcode` checks a key and stores there much later; `updateEntry`
  writes the salt of an entry, computes, and writes the ciphertext.
* **Keys collide.** A key is a prefix of a hash, three to six characters, and
  the same text and password must find the key they had.
* **Three kinds of protection share one struct**, and the code tells them apart
  by which strings are empty.
* **The CSRF store** looks a token up under one lock and deletes it under another.
* **`recentCodes`** is a slice in a global variable, three words, that handlers
  append to, trim and read with no lock at all.
* **A request passes layers**: limiter, CSRF check, handler, limiter of failed
  attempts. Each may refuse it, each has state, and the form it came from must
  survive the refusals.
* **The installed service reads back what install wrote**: a configuration is
  resolved, written as a line, split by systemd and resolved again, with other
  defaults. Install and uninstall may stop after any file operation.
* **The limiter** forgets what it need not remember, in `Allow` itself and in a
  goroutine driven by a ticker, and must still count exactly.

What makes each component correct:

* limiter: no window holds more grants than allowed; no live attempt is lost;
  trimming is not observable; memory is given back.
* CSRF: only the owner's token is accepted, at most once, never after a use was
  answered; refusals cost nothing; the map does not grow for ever.
* entries: what a client was told is saved is what the right credential opens;
  nothing is shown without one; no clear text is left; equal inputs share a key;
  keys once given out are not taken over by those who come later; a right
  credential fails at most while the entry is being edited.
* file store: an entry, once renamed into place, survives every crash and every
  failed write; all entries are under one server key, and the server finds it.
* recent list: bounded once nobody is at work on it; the latest codes in their
  order while handlers do not overlap.
* middleware: a form is good until a handler has had it; a text being saved is
  not lost on the way; a user who knows the credential gets in.
* configuration and service: the service that starts is the one announced, its
  certificates are there, and every command ends.

## Modules

| Module | Models | Checked by |
|---|---|---|
| `SlidingWindow` | what a limiter promises (abstract) | as a property of `RateLimiter` |
| `RateLimiter` | `ratelimit.go:10-133` | `MCRateLimiter`, `RateLimiterProofs` |
| `Csrf` | `csrf.go`, `csrfMiddleware` | `MCCsrf`, `CsrfProofs` |
| `Entry` | the `Entry` struct, its cryptography, how entries are made and opened | through `EntryStore` |
| `EntryStore` | the memory store and the handlers of `/generate`, `/setup-totp`, `/{key}` | `MCEntryStore`, `EntryStoreProofs`, `EntryOwnersProofs` |
| `DurableMap` | what a store with a data directory promises (abstract) | as a property of `FileStore` |
| `FileStore` | `filestore.go`, `encryptBytes`, `decryptBytes` | `MCFileStore`, `FileStoreProofs` |
| `RecentCodes` | `recentCodes` in `handlers.go:225-239, 294-297, 397-400` | `MCRecentCodes`, `RecentCodesProofs` |
| `Server` | routing, `csrfMiddleware`, `HTTPLimiter`, the pages and limiters of the handlers, and their users | `MCServer`, `ServerProofs` |
| `Config` | `config.go`, the `ExecStart` line, what `main` makes of it | through `Service`, `ServiceProofs` |
| `Service` | `installService`, `uninstallService`, `detectPublicIP`, systemd | `MCService`, `ServiceProofs` |

`EntryStore` has what requests do to entries, at the grain of single accesses;
`Server` has what requests go through, around one protected entry of which it
only knows whether a credential fits. `Csrf` and `RateLimiter` justify the two
abstractions `Server` makes: a token check in two steps, and a limiter that is
the sliding window it is proved to implement.

**RateLimiter.** Each method holds `rl.mu` from its first to its last line and
so is one action: `Grant` and `Deny` are the two results of `Allow`. Attempts
are a set of records `[at, n]`; `n` tells apart attempts of one instant. The
ticker, its channel of capacity one, `Stop` and the return of the goroutine are
actions of their own. `granted` is a history variable: every grant since the
last `Reset`. The refinement mapping to `SlidingWindow` is the identity on
`now`, `granted` and `answer`; `Stop`, ticks and `cleanupOld` map to stutters.

**Csrf.** A request is idle, or has found its token and not deleted it yet
(`Lookup`, then `Consume`). Histories record for whom a token was issued, who
used it, and how often. `Cleanup` may come at any time: nothing in the
repository calls it, so the map in fact only grows with every page that is not
sent back (`csrf.go:13` speaks of "expiration").

**Entry.** Cryptography is symbolic. A ciphertext names its key and text, a key
names the password and salt it was derived from, and decrypting with another
key fails, as AES-GCM does. bcrypt's limit of 72 bytes is the set
`LongPasswords`.

**EntryStore.** `stored` maps keys to pointers, `heap` pointers to entries. A
worker is a request; its program counter stops before every access to what it
shares with others:

| Code | Actions |
|---|---|
| a request arrives | `Accept` |
| `GenerateShortcode` | `ProbeEmpty`, `ProbeTaken` |
| `isSameEntry` | `CompareSealed`, `CompareDecrypted`, `ComparePlain`, `CompareOther` |
| `createEntry` | `Create` (at its `Put`) |
| `handleSetupTOTP` | `SetupRefused`, `SetupVerified`, `PickKey`, `PutTOTP` |
| `handleView` | `LookupNothing`, `Lookup`, `ShowOrLock`, `ShowTOTP`, `ReadSalt`, `Decrypt`, `ShowUnsealed`, `WrongCredential`, `Reread` |
| `updateEntry`, with a password | `UpdateSalt` (582), `Reseal` (591), `Seal` (592) |
| ... when the salt or the encryption fails | `UpdateUnsealed` (576) or `ResealFailed` (587), `ClearCipher` (577, 588), `ClearSalt` (578, 589) |
| `updateEntry`, without | `WriteText`, `WriteRest` (596) |

The history variable `promise` holds, per key, the text and the credential of
the last request that was told its text is saved there. Most properties compare
it with what the entry now opens to. Strings of an entry are two words; a read
between the two writes yields `Torn`, and so does a read after two assignments
that overlapped, if the last word written is not of the same text as the first
(`begun` remembers whose that is). Only the text of a TOTP entry is modelled
so: a torn salt or ciphertext fails to decrypt, like the states between
`UpdateSalt` and `Seal`.

`updateEntry` holds no lock, so each field it assigns to is a step of its own:
two edits of one entry may mix at any field, and a reader may come between any
two. Where an edit with a failing salt meets another one, its text may stay in
clear beside the ciphertext of the other: `NoPlaintext` is checked and proved
only where that cannot happen (`FailsAlone`, below).

**FileStore.** The variables are the disk (`dir`, `keyFile`, `files`, `temps`),
the server's program counter with its `serverKey` and the arguments of the `Put`
under way, and the key the operator may keep elsewhere (`away`), which the
README of the repository recommends. `Get` and `Put` hold `fs.mu` throughout, so
nothing but a crash comes between the steps of one. A file operation is one
step; `os.WriteFile` is two, since it truncates before it writes, and a file in
between holds `Cut`.

| Code | Actions |
|---|---|
| `NewFileStore` | `Start`, `MakeDirectory`, `UseEmpty`, `RefuseInconsistent`, `FindKey`; `GiveUp` wherever an operation fails |
| `generateServerKey` | `OpenKeyFile`, `WriteKeyFile` |
| `loadServerKey` | `LoadServerKey`, `RefuseKey` |
| `Put` | `OpenTemp`, `WriteTemp`, `Rename`; `PutFails` at either of the last two |
| `Get` | `Get` |
| outside | `Crash` at every program counter, `MoveKeyAway`, `BringKeyBack` |

The map of `DurableMap` is what `files` holds, decrypted. `Rename` is its `Put`,
`Get` its `Get`, and everything else, crashes included, a stutter. So an entry
is replaced at once or not at all, and what was there before a crash is there
after it. The model ends at the directory: that `Put` says nothing of its
failures, so that a client may be told a key that leads nowhere, concerns the
composition with the handlers. Between `OpenKeyFile` and `WriteKeyFile` of the
very first start, a crash leaves an empty `.server_key`, and every later start is
refused (`RefuseKey`) until someone removes it; no entry exists then, and the
repository promises nothing else, so this is a hazard and not a violated
property. Left out: reads of existing files that fail, two servers on one
directory, and a loss of power that undoes writes (`Put` does not sync).

**RecentCodes.** A slice is an array, a length and a capacity; `append` loads
three words and stores a cell and up to three words, in any order (`LoadWord`,
`Grow`, `StoreWord`, `StoreCell`); the trim checks a length, loads three words
and stores three (`Check`, `ReloadWord`, `Trim`, `RestoreWord`). Whether the
check and the trim read memory again or a register is the compiler's choice,
and so is nondeterministic. Arrays are real: a trimmed slice keeps its array and
is later appended to in place. `handleIndex` reads the list's length at every
turn of its loop (`StartPage`, `NextCode`, `ListCode`). The history `racing`
counts appends since two first overlapped; `page.quiet` says that the page met
none. When appends overlap, codes may be lost or listed twice and a page may
run out of the slice (Go panics, `net/http` recovers): nothing in the repository
excludes this, and the properties say what holds nevertheless.

**Server.** A tab holds a page, that is a form with a token and, perhaps, a
text to be saved; `request[t]` says how far the tab's request has come.

| Code | Actions |
|---|---|
| `HTTPLimiter.Middleware` | `LimitRequest` |
| `csrfMiddleware`, `ValidateToken` | `LookupToken`, `DeleteToken` |
| `handleIndex`, `handleGenerate`, `handleSetupTOTP` | `HandleIndex`, `HandleGenerate`, `HandleSetupTOTP` |
| `handleView` | `ViewGet`, `ViewTextOnly`, `ViewRight`, `ViewWrong` |
| forms in `static/*.html` | `Create`, `Unlock`, `Edit`, `Confirm`; `Open` for a link |
| the process | `Restart`; time: `Advance` |

The order of the layers is the constant sequence `Middleware`, as
`handlerWithMiddleware` nests them. A grant is its age and a number, so time
need not be bounded; an attempt is dropped when it is a window old. Tokens that
nobody holds are made new again: the map of the code only grows, and a token
outside every page and request can no longer be presented. A careful user knows
the credential, does not mistype twice in a row, and reloads the page when told
that the token is invalid. A tab has one request under way. The entry is there
after a restart (a data directory). An edit that leaves the text empty is, in
the code, an attempt without a credential (`handlers.go:442`), and so it is in
`Edit` and `ViewWrong`.

**Config.** `ParseFlag` is one turn of the loop of `ParseArgs`, `ParseFlags` the
loop: the configuration after each turn, as a recursive function.
`ExecStart` is the line of the unit file after systemd has split it, `Server`
what `main` does with the arguments. `Documented` is the reference, and does
not follow the loop: `ValuePlaces` are the words after a flag that takes a
value, such a word is no flag itself, and the last value that is one counts. The
loop looks at every word as a flag, so the two differ where a value is the name
of a flag (`PlainValues`): `ResolvedAsDocumented` claims nothing of such lines,
and `ReadAsDocumented`, which does, fails (`MCServiceValues.cfg`).

**Service.** One step per file operation of `installService` and
`uninstallService`. `WriteCertFails`, `WriteUnitFails` and `Stops` end a
command anywhere; steps whose error the code does not look at (`FillBinary`,
`Enable`, `StopService`, `RemoveUnit`, `RemoveCerts`) may do their work or not
and go on. `lookup` and `done` are the goroutine of `detectPublicIP` and its
channel. `announced` is the history of what the last successful install has
printed. `--force` and `--remove-binary`, which help texts mention
(`main.go:185, 224`), are never parsed, so `forceOverwrite` and `removeBinary`
are constants.

## Runs

| Run | Shows | Bounds |
|---|---|---|
| `rate_limiter` | `AttemptsCoverWindow`, `WindowBound`, `RemainingIsExact`, `ImplementsSlidingWindow`, `OldAttemptsPurged` | 1 key, limit 2, window 3, clock 0..9: three windows, so that late and dropped ticks occur, with a reset and a stop anywhere between |
| `csrf` | `OwnerOnly`, `NoReplayAfterUse`, `UsesBounded`, `UnusedTokensKept` | 2 clients, 3 tokens, 2 overlapping requests, sweeps |
| `entry_overlaps` | two requests at once, with failing salts and encryption: `PromiseKept`, `ShownIsAuthorised`, `NoPlaintext`, `RefusedOnlyByEdits`, `EntriesSettle` | one worker creates, edits and opens entries of every kind; the other opens any of them and saves a note that wants the key of a note of the first, between any two accesses; 5 keys, shared by notes that differ |
| `entry_creators` | two requests at once: `PromiseKept`, `OneKeyPerInput`, `Answered` | keys of different data differ, and there are enough for two setups, or two requests for the same protected note, at once; one worker edits TOTP entries |
| `file_store` | `OneServerKey`, `KeyStays`, `ImplementsDurableMap`, with a crash or a failure at every step | 2 keys, 2 entries, 3 server keys: two first starts may fail before one succeeds; keys, entries and server keys are interchangeable |
| `recent_codes` | `BoundedWhenQuiet`, `SerialList`, `SerialPage` | 2 handlers, a list of 2 (100 in the code), 6 codes, a page of 1; one append that overlaps another: then the list is grown, trimmed, written in place and grown again, and any mix of the words of two slices occurs |
| `server` | `FormsAreLive`, `DraftKept`, `TypoForgiven`, `OwnerGetsIn`, through refusals and a restart | 2 tabs at different addresses, 3 tokens (a tab holds at most one), 3 requests in a window, 1 failed attempt, 1 setup; a window of one instant, since sliding is `RateLimiter`'s matter |
| `service` | `ResolvedAsDocumented`, `SurvivesRestart`, `CertsInPlace`, `SendNeverBlocks`, `InstallEnds` | every list of up to 3 of the words `--port`, `443`, `--tls`, `--data-dir`, and 12 longer ones: ports at and beyond both bounds, values that are names of flags, flags without a value |

More values of everything would not add behaviours: the interesting cases need
one limiter key (keys do not meet, and the proofs take any number), two keys in
one probe sequence, two overlapping requests, one text per kind of protection
before and after an edit, a right and a wrong credential for each kind, and one
salt more than an entry and its readers can hold.

`UsesBounded` says less than single use: it is what is left of it when requests
overlap, and `csrf_double` shows that no more is.

`EntriesSettle` says less than that an entry is never replaced, and
`RefusedOnlyByEdits` less than that a right credential always opens: neither of
these holds with two requests (`store.go:117-120` and `220`; `store.go:47`
against `handlers.go:582-592`). They say who can do the damage: only requests
that found the key empty can replace its entry, and once they have put theirs it
is `Settled` for good; and who presents what a key is saved under is refused only
where another edit has changed the entry since the salt was read (`EditSince`).

### Where the code and its words disagree

Each of these runs checks one property that a comment, a test or the README
states, and TLC finds a behaviour of the code that violates it.

| Run | Property | What happens |
|---|---|---|
| `csrf_double` | `SingleUse` | two overlapping requests find the token (`csrf.go:43-45`) before either deletes it (57-59), though `csrf.go:56` says "Token can only be used once" |
| `entry_editors` | `PromiseKept` | two edits interleave: salt of one, ciphertext of the other, and the note is lost |
| `entry_file_edit` | `PromiseKept` | `updateEntry` never calls `Put`: with a file store an edit changes a copy only |
| `service_tls` | `AnnouncedProtocol` | `install --tls-disable` announces `http://...:443`; the unit file does not repeat the flag, so the service turns TLS on again |

Four more are kept as configurations beside these; `tlc -config X.cfg` shows
their traces.

| Configuration | Property | What happens |
|---|---|---|
| `MCEntryClash.cfg` (`MCEntryStore`) | `OneKeyPerInput` | two requests store at a key both found empty (`store.go:117-120`): the note of one is replaced; who generates it again meanwhile is still sent to that key, and later to another one |
| `MCServiceValues.cfg` (`MCService`) | `ReadAsDocumented` | `install --data-dir --tls` turns TLS on: the value of a flag is read as a flag too (`config.go:51`) |
| `MCEntryLong.cfg` | `PromiseKept` | a password over 72 bytes makes an entry nothing opens (`store.go:279`: "should not happen with valid input") |
| `MCEntrySameText.cfg` | `PromiseKept` | a text shared openly is given the key of a TOTP entry that holds it (`store.go:209`) |

Smaller observations: `--tls` alone stays on port 8080 where the repository's
README says 443; `install` over a running service cannot replace the binary
(text file busy) and leaves the old server running (`enable --now`); `--recent`
and `--list-recent-public` are not repeated in the unit file either; `--cert`
without `--key` takes the next flag for the key's path once the line is split;
`uninstall` removes the whole certificate directory if the marker is in it,
with whatever else has been put there.

The passing runs with two workers leave out exactly these situations, through
their menus of requests and candidate keys (`MCEntryStore`) and nowhere else:
in `entry_creators` different data have different keys and no password entry is
edited; in `entry_overlaps` only one worker edits and sets up codes, so that no
edit meets another one, and no text is saved both openly and behind a code.
Two notes that are generated at once and want one key, and a password entry
that is opened while it is edited, are in `entry_overlaps`: someone who opens
it between `UpdateSalt` and `Seal` derives a key from the new salt, fails to
decrypt the old ciphertext and is told that the right password is wrong. The
next attempt succeeds.

## Assumptions and bounds

* Random values (tokens, salts) do not repeat; `RandomRepeats` lifts this for
  random keys. The fallback key of `maxLen + 2` characters is free.
* There are more salts than requests can hold (`Cardinality(Salts) >
  Cardinality(Workers) + 2`, in `StoreAssumption`): a new one need only differ
  from those in its entry and in the requests at it, so there always is one.
* `Accept` waits while fewer keys are free than requests may need: probing
  always ends at an empty slot, as it does among 36^3 keys and more. `Probing`
  says so again where a probe looks at the next key, so that the index of a
  candidate is one of its sequence in every state.
* `Menu` is what workers may ask, `Candidates` the keys that `generateKey`
  yields: any function of text and password.
* `SaltMayFail` is TRUE in `entry_overlaps` only. `crypto/rand` of the Go
  version in `go.mod` does not return errors, so those branches are dead code
  that is checked all the same.
* `MaxCodes`, `MaxRacing` and `MaxRestarts` bound what may happen; the bound of
  `BoundedWhenQuiet` does not depend on them (it is proved).
* `Commands`, `Addresses` and `HostOutputs` are what install, curl and hostname
  are given; a path with a blank is among them, and `SurvivesRestart` leaves out
  what it announces (`blanks`). `ServiceAssumption` is that command lines are
  sequences of strings, and what `hostname` prints a sequence of addresses.
  `MCService` assumes `OwnFiles` and `NoFlagAsCert` (below) of its commands.
* `MaxTime` bounds the clock of the limiter. `WindowBound` and the refinement
  do not depend on it (they are proved).

**Fairness.** `MCEntryCreators` assumes that every request goes on (the Go
scheduler), and nothing about arrivals. `MCRateLimiter` assumes that time
passes, that the runtime fires its timers and that the goroutine of
`cleanupLoop` runs; a limiter that is stopped owes nothing.
`Service` assumes that a command goes on, which includes the timer of its
context, and nothing of curl, of systemd or of the operator. `Server` assumes
that `net/http` serves the requests of careful users, that time passes and that
these users do not give up; of anyone else it assumes nothing. All fairness is
weak.

## Proofs

`RateLimiterProofs` proves, for every set of keys, every limit and every
window, that the invariants of `rate_limiter` hold and that the limiter
implements `SlidingWindow`. `IInv` adds to them that histories are finite and
not from the future, that the attempts of one instant are numbered from 1
without a gap (so that the next number is free and a grant adds one element),
and that no key holds more than `MaxReqs` attempts. The crux is that
`Valid(granted[k])` and `Valid(attempts[k])` are the same set: then `Grant` adds
to a window that held fewer than `MaxReqs`, and the decision is the abstract one.

`CsrfProofs` proves the invariants of `csrf` for any clients, any tokens and
any finite number of overlapping requests. `IInv` says that the map agrees with
the histories, that a request past its lookup presents a token of its own
client, and that uses and holders of a token together never exceed the number
of requests: once used, a token finds no new holder.

`FileStoreProofs` proves the invariants of `file_store` and that `FileStore`
implements `DurableMap`, for any keys, entries and server keys. `IInv` adds that
a directory that does not exist holds nothing, that a new key is drawn only
where there is neither key nor entry (`NewKeyIsFirst`), that the key of a server
that is up is the one in the file or with the operator (`KeyInMemory`), and that
a temporary file is whole when it is renamed (`PutUnderWay`). The crux is `Get`:
by `OneServerKey` and `KeyInMemory` every file is under the key in memory, so
`Get` returns what the map holds and never the `nil` of a failed decryption. The
proofs rest on `FileStoreAssumption` only: `None` and `Cut` are told apart from
entries, keys and ciphertexts.

`RecentCodesProofs` proves type correctness and `BoundedWhenQuiet` for any
number of handlers, any limit and any mix of words. The limit holds only when
nobody is at work, so it is not inductive: `IInv` adds `SomeoneWillTrim`, that
a list that is too long has a handler that will still trim it, whatever it reads
on the way (`WillTrim`), and `RestoresKept`, that what a trim stores is never
longer than the limit. The crux is `StoreWord`: whoever makes the list too long
does so with the length it holds itself, and has its own check still ahead.
`ListsLatest` proves `SerialList`. Its invariant `SerialInv` speaks of the one
handler that is at work while `racing` is 0: the words and the cell that it has
yet to store, put in place of those in memory, give the slice that it intends
(`Fits`), and that slice lists the latest codes, one after the other. So a cell
written in place behind a trimmed slice is never one that is still listed.
`PagesListLatest` proves `SerialPage` on top of it. The list changes under a
page, so its invariant `QuietPage` speaks only of a page that met no append: it
reads a list that nobody writes, never from beyond its end, and what it has
listed so far is what a page would show of the codes it has passed
(`ListedFrom`). `ListNext` is one turn of its loop.

`ServerProofs` proves type correctness, `FormsAreLive` and `DraftKept` for any
number of tabs, any limits and any set of tokens larger than that of tabs
(`ServerAssumption`; a tab holds at most one token, so that a new one is always
free: `NewTokenIsFree`). `IInv` adds that a form that is sent carries the token
of its page (`FormsCarryTokens`), that no two pages share one (`OwnTokens`), so
that deleting the token of one request hurts no other page, and that whoever has
a text to save is on the entry's pages and sends it each time (`DraftTravels`).
The lemma `ShowInv` is the heart: every page that a handler answers with.
`TyposAreForgiven` proves `TypoForgiven` where careful users do not share their
address (`AloneAtAddress`). Its invariant `Forgiving` adds that a careful user
is only on pages that he can have come to (`AtTheEntry`), and that the limiter
of failed attempts counts nothing of him unless he has just mistyped
(`Atoning`): a success resets the counter before he can mistype again.

`EntryStoreProofs` proves type correctness and `NoPlaintext` of `EntryStore` for
any number of requests, any texts, keys and candidates, either kind of store,
and salts and encryption that fail or not. `IInv` adds that pointers lead
somewhere (`PointersLead`), that an entry asks for a password or a code and not
for both (`KindsOfEntries`), and what a handler knows at each of its program
counters: that the request is of the kind that gets there (`RequestFits`), and
that the entry it holds asks for the credential it has checked
(`CredentialFits`). Type correctness is where probes stay within their
sequence and where a free salt is found by counting. `NoPlaintext` needs
`CodesApart` on top: an entry asks for a code exactly if its key was drawn at
random, so that nobody who edits a password entry is overtaken by a TOTP entry
put at the same key. And it needs `ClearInv`: what a failed edit has written so
far is still there when it goes on (`HalfClear`), and so is the empty text
between `Reseal` and `Seal`. That is where `FailsAlone` comes in: nothing fails,
or every edit is on a copy of its own (a file store, `CopiesApart`), or two
edits that run at once are at different keys. Without any of them, an edit that
fails may write its text between the two fields of another one, and the
ciphertext of the other stays beside it.

`EntryOwnersProofs` rests on it, and proves the other properties of the entries:

* `EntriesStayOnceSettled`, for `EntriesSettle`: a request gets to its `Put` by
  finding the key empty (`OnlyFromEmpty`), so when those that are about to put at
  a key that is taken are done, no other gets there. Nothing is assumed of what
  is requested: keys may clash and random keys repeat.
* `TextsAreForTheirOwners`, by `TextsVouched`: some request that was right to
  do so has saved every text of an entry under the credential that opens it.
  Ciphertexts of one edit under the salt of another are covered: they open for
  nobody.
* `PromisesKept`, by `EntriesSound`, `PromisesFit` and `HoldsStored`: an entry
  that nobody is in the middle of editing has its ciphertext under its own
  password and salt; the promise of a key is the credential and the text of its
  entry; and who edits, edits that very entry. The memory store only: with a
  file store the last of the three is false, as `entry_file_edit` shows.
* `OnlyEditsRefuse`, for `RefusedOnlyByEdits`, from `EntriesSound` and
  `PromisesFit`: a refusal comes from a credential that is not the one of the
  promise (`WrongIsWrong`), or from a ciphertext that does not decrypt; and as
  long as nobody else is inside an edit of the key, an entry decrypts under its
  own salt (`DecryptWorks`). What is left is that the salt was replaced.
* `OneKeyForEachNote`, by `NotesInPlace` and `Searches`, for `OneKeyPerInput`:
  the key of a note is the first of its keys that is not given to another note,
  and every key that a request has passed while it searches is given to another.
  What makes this inductive is that a key, once given away, stays so: nobody
  takes it back, and only the same note is ever written over it. A request that
  compares holds an entry that `createEntry` made of the promised note, so that
  `isSameEntry` says "same" exactly if it is (`SameNote`). Requests that generate
  the very same note at the same time are covered.
* `SharedPromisesKept`, by `CodeInv`: `PromiseKept` holds there too, where two
  requests may find one key empty and the second `Put` replaces the entry of the
  first. `PromisesKept` cannot cover it, since its `HoldsStored` is then false:
  who opens such a note may hold an entry that is no longer stored. But nobody
  edits those notes, so whichever entry a key has was made of the promised note
  (`NotesInPlace`), and what `createEntry` makes of a note opens with its
  password (`NoteOpens`). What is edited are the entries behind a code, and
  their keys are drawn at random: nobody draws a key that another one is about
  to use (`PutsAlone`), who opens one holds its entry (`HoldsItsCode`), and what
  is promised there is in it (`CodesKept`), whole, since nobody else has begun to
  write to it (`TextsBegun`).

These theorems have hypotheses on who asks for what, and each is there because
the property fails without it:

| Hypothesis | Says | Without it |
|---|---|---|
| `RandomApart` | no key of `generateKey` is drawn for a TOTP entry | `MCEntrySameText.cfg` |
| `CreatorsApart` | two requests that create at the same time want different keys, or draw them at random without repeats | `MCEntryClash.cfg` |
| `EditorsApart` | two requests that edit at the same time want different keys | `entry_editors`; of two edits of a TOTP entry, words of both texts may stay |
| `SetupsApart` | two setups at the same time do not draw the same random key | `MCEntryCreators.cfg` with `RandomRepeats = TRUE`: an edit is lost to the other setup |
| `FailsAlone` | salts and encryption do not fail, or the store is a file store, or `EditorsApart` | `NoPlaintext` with `SaltMayFail` in `MCEntryEditors.cfg`: the text of the edit that fails stays beside the ciphertext of the other |
| `NoLongPasswords` | passwords are at most 72 bytes | `MCEntryLong.cfg` |
| `NotesApart` | two requests that generate different notes at the same time want different keys | `OneKeyPerInput` in `MCEntryClash.cfg`: a note overwritten at its key has found another one meanwhile |
| `NoPasswordEdits` | nobody edits an entry with a password | `OneKeyPerInput` in `MCEntryEditors.cfg`: a note that is generated again while its entry is being edited is not recognized, and gets a second key |
| `~Persistent` | the memory store | `entry_file_edit` |

`OneKeyForEachNote` assumes `NotesMenus`: `RandomApart`, `NotesApart`,
`NoLongPasswords` and `NoPasswordEdits`. `SharedPromisesKept` assumes also
`EditorsApart`, `SetupsApart` and `~Persistent`, and needs no `CreatorsApart`.
`MCEntryCreators` satisfies all of these. `MCEntryOverlaps` satisfies what
`NoPlaintextStored` and `EntriesStayOnceSettled` assume (the latter nothing).
It does not satisfy `CreatorsApart`, since two of its notes want the same key:
there TLC checks `PromiseKept`, `ShownIsAuthorised` and `RefusedOnlyByEdits`
beyond what is proved. The hypotheses that are about who comes at the same time
are of the users and not of the code, which does nothing to ensure them.

`ServiceProofs` proves type correctness, `SendNeverBlocks`, `CertsInPlace`,
`SurvivesRestart` and `ResolvedAsDocumented` for any commands, addresses and
outputs, through any failures and kills. `IInv` adds that the channel is empty until the goroutine has
answered (`OneAnswer`), how far an install has come (`Progress`: certificate and
key are both there before it goes on, and the unit is its own line when it
announces), and that the announced unit and its certificates stay until an
uninstall has taken the unit away (`InPlace`).

What one configuration is made of, and what becomes of it, is proved there too,
for command lines of any length. `FlagsMeanWhatTheySay` is
`ResolvedAsDocumented`: `ReadSoFar` says what the configuration after n turns
is, with "the last value" taken among the first n + 1 words (a turn reads the
value of its flag too), and `ReadNext` is one turn, in which a value may itself
be a flag. `PlainPlaces` then shows that, where no value is the name of a flag,
the loop looks at the flags and values that `Documented` means. `ReadBack` follows a configuration into
the unit file and back: `ExecStartFields` is the line after systemd has split
it, `Line` what matters of it (it begins with the port, no later word reads as
a port, none is taken for a flag that is not given), `AddFlag` and `AddValue` add
words to such a line, and `LinePort`, `LineNoData`, `LineLastData` and `LineTLS`
are what the loop of `ParseArgs` reads in it. `CertsNamed` does the same for the
names of the certificate files, also where blanks tear a path apart.

Two hypotheses exclude command lines that mean something else than they say:

* `OwnFiles`, for `CertsStayInPlace`: nobody gives the names of the generated
  files to files of his own, in which case install generates none.
* `NoFlagAsCert`, for `AnnouncementsSurvive`: nobody writes `--cert --data-dir`.
  `install --cert --data-dir` announces no directory, and writes `--port 443
  --cert --data-dir --key`: the server takes `--key` for its data directory.

`ConfigAssumption` is what the proofs need of `strconv.Atoi` and of systemd: no
flag, path of a generated certificate or word with blanks reads as a number,
the ports have a decimal form, and flags and those paths have no blanks.

The induction over the words is done on sets of numbers (`Induction`: a set that
contains 0 and with each number the next is `Nat`, from the least element of its
complement), because the induction theorems of the library have an operator as
their parameter, and the provers cannot instantiate those. Each recursive
function is first shown to have its run (`LoopRuns`, `FlattenRuns`).

TLC checked every inductive invariant on the runs above before it was proved,
those of `EntryOwnersProofs` on configurations that satisfy the hypotheses.

Every invariant and every action property of a passing run, and both
refinements, are theorems. Only model-checked is liveness (`OldAttemptsPurged`,
`Answered`, `OwnerGetsIn`, `InstallEnds`): it rests on fairness, thus on
`ENABLED`, which these provers do not handle.

## Not modelled

`availablePorts` and `initStore` have no state of their own; what their results
do is in `Config` and `FileStore`. Paths that the mux does not find, the
headers from which `LimitByIP` takes an address (`Server` is given a function
from clients to addresses), `LimitByKey` and `Config.String` (never called) are
left out. What the page of the recent list makes of an entry is layout. Reads of
existing files that fail, and two servers on one directory, are outside
`FileStore`. Certificates, templates, Markdown, QR images,
log output and build scripts have no state and are left out. `UpdatedAt` is
left out: it only appears on pages. The GET branch of `handleSetupTOTP` is not
modelled: the mux registers `/setup-totp` without a key, so its `Get("")` finds
nothing and it always redirects.

## Plan

1. Done: all modules above, and proofs about each.
2. Next: an abstract board of notes, implemented by `EntryStore` with one worker.
