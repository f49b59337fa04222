---------------------------- MODULE RecentCodes ----------------------------
(***************************************************************************)
(* recentCodes of handlers.go: the list of codes given out, which          *)
(* handleGenerate and handleSetupTOTP append to and trim, and handleIndex  *)
(* reads, with no lock.                                                    *)
(*                                                                         *)
(* A slice is three words, and an append writes a cell besides.  Each is   *)
(* loaded and stored by itself, in an order that is the compiler's; the    *)
(* length that is checked and the slice that is trimmed may be read again  *)
(* or be in registers still.  Two handlers at once so get what the build   *)
(* makes of the race: the mixes of their words.                            *)
(***************************************************************************)
EXTENDS Integers, Sequences

CONSTANTS
    Kept,       \* codes that are kept: 100 in the code
    recentMax,  \* codes that a page lists
    Workers,    \* handlers that append
    Public,     \* the codes whose entry is there and is not protected
    MaxCodes,   \* bound: codes given out
    MaxRacing   \* bound: appends begun from the first one that overlaps another

ASSUME RecentAssumption ==
    /\ Kept \in Nat \ {0}
    /\ recentMax \in Nat \ {0}
    /\ MaxCodes \in Nat /\ MaxRacing \in Nat

VARIABLES
    recentCodes,    \* the slice: its first cell, its length, its capacity
    heap,           \* the arrays that slices point into
    handler,        \* handler[w]: where w is in its append
    page,           \* the loop of handleIndex
    given,          \* history: how many codes were given out, numbered from 1
    racing          \* history: appends since two of them first overlapped

vars == <<recentCodes, heap, handler, page, given, racing>>

Words == {"array", "length", "capacity"}
Slice(array, length, capacity) == [array |-> array, length |-> length, capacity |-> capacity]

\* A cell is an array and a place in it; NoCode is an empty string.
NoCode == 0
HasCell(c) == c[1] \in DOMAIN heap /\ c[2] \in DOMAIN heap[c[1]]
Nth(s, i) == <<s.array[1], s.array[2] + i>>

\* What is beyond an array is not a code.
Load(c) == IF HasCell(c) THEN heap[c[1]][c[2]] ELSE NoCode

Free == [pc |-> "idle", code |-> NoCode, regs |-> Slice(<<0, 0>>, 0, 0), todo |-> {}]
NoPage == [pc |-> "none", i |-> 0, listed |-> <<>>, quiet |-> TRUE]

Serial == racing = 0
Appending == {w \in Workers : handler[w].pc # "idle"}

Slices == [array : Nat \X Nat, length : Nat, capacity : Int]
Pcs == {"idle", "load", "grow", "store", "check", "reload", "trim", "restore"}

Handlers == [pc : Pcs, code : 0 .. MaxCodes, regs : Slices, todo : SUBSET (Words \cup {"cell"})]

TypeOK ==
    /\ recentCodes \in Slices
    /\ heap \in Seq(Seq(0 .. MaxCodes))
    /\ handler \in [Workers -> Handlers]
    /\ page \in [pc : {"none", "next", "cell", "shown", "panic"}, i : Nat,
                 listed : Seq(Public), quiet : BOOLEAN]
    /\ given \in 0 .. MaxCodes
    /\ racing \in 0 .. MaxRacing

Init ==
    /\ recentCodes = Slice(<<0, 0>>, 0, 0)
    /\ heap = <<>>
    /\ handler = [w \in Workers |-> Free]
    /\ page = NoPage
    /\ given = 0
    /\ racing = 0

At(w, pc) == handler[w].pc = pc
Goto(w, pc, regs, todo) ==
    handler' = [handler EXCEPT ![w].pc = pc, ![w].regs = regs, ![w].todo = todo]

\* h has done with a word; when it was the last one, h goes on.
After(h, word, regs, next) ==
    LET todo == h.todo \ {word}
    IN  IF todo # {} THEN [h EXCEPT !.regs = regs, !.todo = todo]
        ELSE IF next = "idle" THEN Free
        ELSE [h EXCEPT !.pc = next, !.regs = regs, !.todo = {}]

Done(w, word, regs, next) ==
    handler' = [handler EXCEPT ![w] = After(handler[w], word, regs, next)]

-----------------------------------------------------------------------------
(* recentCodes = append(recentCodes, key) *)

Begin(w) ==
    /\ At(w, "idle")
    /\ given < MaxCodes
    /\ given' = given + 1
    /\ handler' = [handler EXCEPT ![w] =
           [pc |-> "load", code |-> given + 1, regs |-> Free.regs, todo |-> Words]]
    /\ racing' = racing + IF Serial /\ Appending = {} THEN 0 ELSE 1
    /\ racing' <= MaxRacing
    /\ page' = [page EXCEPT !.quiet = FALSE]
    /\ UNCHANGED <<recentCodes, heap>>

LoadWord(w, word) ==
    /\ At(w, "load") /\ word \in handler[w].todo
    /\ Done(w, word, [handler[w].regs EXCEPT ![word] = recentCodes[word]], "grow")
    /\ UNCHANGED <<recentCodes, heap, page, given, racing>>

\* Room for one more: in place, where the length and the cell are left to
\* store; or in a new array of twice the size, that the old cells are copied to.
Grow(w) ==
    LET s == handler[w].regs
        size == IF s.length + 1 > 2 * s.capacity THEN s.length + 1 ELSE 2 * s.capacity
        new == [i \in 1 .. size |-> IF i <= s.length THEN Load(Nth(s, i)) ELSE NoCode]
    IN  /\ At(w, "grow")
        /\ IF s.length < s.capacity
           THEN /\ Goto(w, "store", [s EXCEPT !.length = @ + 1], {"length", "cell"})
                /\ UNCHANGED heap
           ELSE /\ heap' = Append(heap, new)
                /\ Goto(w, "store", Slice(<<Len(heap) + 1, 0>>, s.length + 1, size),
                        Words \cup {"cell"})
        /\ UNCHANGED <<recentCodes, page, given, racing>>

StoreWord(w, word) ==
    /\ At(w, "store") /\ word \in handler[w].todo \cap Words
    /\ recentCodes' = [recentCodes EXCEPT ![word] = handler[w].regs[word]]
    /\ Done(w, word, handler[w].regs, "check")
    /\ UNCHANGED <<heap, page, given, racing>>

\* The cell; one that is not in the array is somebody else's memory.
StoreCell(w) ==
    LET c == Nth(handler[w].regs, handler[w].regs.length)
    IN  /\ At(w, "store") /\ "cell" \in handler[w].todo
        /\ heap' = IF HasCell(c) THEN [heap EXCEPT ![c[1]][c[2]] = handler[w].code] ELSE heap
        /\ Done(w, "cell", handler[w].regs, "check")
        /\ UNCHANGED <<recentCodes, page, given, racing>>

-----------------------------------------------------------------------------
(* if len(recentCodes) > 100: recentCodes = recentCodes[len(recentCodes)-100:] *)

\* Mutant of TooLong: off by one.
TooLongByTwo(n) == n > Kept + 1

TooLong(n) == n > Kept

Check(w) ==
    /\ At(w, "check")
    /\ \E n \in {recentCodes.length, handler[w].regs.length} :
          IF TooLong(n) THEN Goto(w, "reload", handler[w].regs, Words)
          ELSE handler' = [handler EXCEPT ![w] = Free]
    /\ UNCHANGED <<recentCodes, heap, page, given, racing>>

\* From memory, or from the register where the word still is.
ReloadWord(w, word) ==
    /\ At(w, "reload") /\ word \in handler[w].todo
    /\ \E v \in {recentCodes[word], handler[w].regs[word]} :
          Done(w, word, [handler[w].regs EXCEPT ![word] = v], "trim")
    /\ UNCHANGED <<recentCodes, heap, page, given, racing>>

\* Mutant of Trimmed: the oldest are kept.
TrimmedOldest(s) == Slice(s.array, Kept, s.capacity)

\* s[len(s)-100:]
Trimmed(s) == Slice(Nth(s, s.length - Kept), Kept, s.capacity - (s.length - Kept))

\* A negative index panics: net/http ends the request and nothing else.
Trim(w) ==
    LET s == handler[w].regs
    IN  /\ At(w, "trim")
        /\ IF s.length < Kept THEN handler' = [handler EXCEPT ![w] = Free]
           ELSE Goto(w, "restore", Trimmed(s), Words)
        /\ UNCHANGED <<recentCodes, heap, page, given, racing>>

RestoreWord(w, word) ==
    /\ At(w, "restore") /\ word \in handler[w].todo
    /\ recentCodes' = [recentCodes EXCEPT ![word] = handler[w].regs[word]]
    /\ Done(w, word, handler[w].regs, "idle")
    /\ UNCHANGED <<heap, page, given, racing>>

-----------------------------------------------------------------------------
(* handleIndex *)

StartPage ==
    /\ page.pc \in {"none", "shown", "panic"}
    /\ page' = [pc |-> "next", i |-> recentCodes.length, listed |-> <<>>,
                quiet |-> Appending = {}]
    /\ UNCHANGED <<recentCodes, heap, handler, given, racing>>

\* Mutant of LoopEnds: one code too many.
LoopEndsLate == page.i = 0 \/ Len(page.listed) > recentMax

\* Mutant of LoopEnds: forgets where the list ends.
LoopEndsWhenFull == Len(page.listed) >= recentMax

LoopEnds == page.i = 0 \/ Len(page.listed) >= recentMax

\* The condition of the loop, then the bounds check.
NextCode ==
    /\ page.pc = "next"
    /\ page' = IF LoopEnds THEN [page EXCEPT !.pc = "shown"]
               ELSE IF page.i > recentCodes.length THEN [page EXCEPT !.pc = "panic"]
               ELSE [page EXCEPT !.pc = "cell"]
    /\ UNCHANGED <<recentCodes, heap, handler, given, racing>>

ListCode ==
    LET code == Load(Nth(recentCodes, page.i))
    IN  /\ page.pc = "cell"
        /\ page' = [page EXCEPT !.pc = "next", !.i = @ - 1,
                                !.listed = IF code \in Public THEN Append(@, code) ELSE @]
        /\ UNCHANGED <<recentCodes, heap, handler, given, racing>>

-----------------------------------------------------------------------------
AppendStep(w) ==
    \/ Grow(w) \/ StoreCell(w) \/ Check(w) \/ Trim(w)
    \/ \E word \in Words : LoadWord(w, word) \/ StoreWord(w, word)
                               \/ ReloadWord(w, word) \/ RestoreWord(w, word)

Next ==
    \/ \E w \in Workers : Begin(w) \/ AppendStep(w)
    \/ StartPage \/ NextCode \/ ListCode

Spec == Init /\ [][Next]_vars

-----------------------------------------------------------------------------
(* Properties *)

\* The codes in the list, oldest first.
Codes == [i \in 1 .. recentCodes.length |-> Load(Nth(recentCodes, i))]

\* The latest codes given out, oldest first.
Latest(n) == [i \in 1 .. n |-> given - n + i]
LatestKept == Latest(IF given < Kept THEN given ELSE Kept)

\* However appends and trims of two handlers mix, when none is under way the
\* list is no longer than its limit: every handler that makes it longer checks
\* after its own store.
BoundedWhenQuiet == Appending = {} => recentCodes.length <= Kept

\* Handlers that never overlap give the list its meaning, through arrays that
\* are grown, shared by trimmed slices and written in place: the latest codes.
SerialList == Serial /\ Appending = {} => Codes = LatestKept

\* A page that met no append lists the latest public codes, newest first, up to
\* its number; only one that overlapped an append can run out of the slice.
SerialPage ==
    /\ page.pc = "panic" => ~page.quiet
    /\ page.pc = "shown" /\ page.quiet /\ Serial =>
          LET latest == {c \in Public : \E i \in DOMAIN LatestKept : c = LatestKept[i]}
              listed == page.listed
              n == Len(listed)
          IN  /\ listed \in Seq(latest) /\ n <= recentMax
              /\ \A j, k \in 1 .. n : j < k => listed[j] > listed[k]
              /\ \A c \in latest \ {listed[j] : j \in 1 .. n} :
                    n = recentMax /\ \A j \in 1 .. n : listed[j] > c

-----------------------------------------------------------------------------
(* What the proof of BoundedWhenQuiet needs beside it *)

\* w is bound to shorten the list, whatever it reads from memory on its way.
WillTrim(w) ==
    LET h == handler[w]
        itsOwn == h.regs.length = recentCodes.length
    IN  \/ h.pc = "store" /\ "length" \notin h.todo /\ itsOwn
        \/ h.pc = "check" /\ itsOwn
        \/ h.pc = "reload" /\ "length" \in h.todo /\ itsOwn
        \/ h.pc = "reload" /\ "length" \notin h.todo /\ h.regs.length > Kept
        \/ h.pc = "trim" /\ h.regs.length > Kept
        \/ h.pc = "restore" /\ "length" \in h.todo

\* A list that is too long has a handler that will trim it.
SomeoneWillTrim == recentCodes.length > Kept => \E w \in Workers : WillTrim(w)

\* What a handler stores after it has trimmed is no longer than the limit.
RestoresKept == \A w \in Workers : handler[w].pc = "restore" => handler[w].regs.length = Kept

\* A page that reads a cell has one left to read.
CellIsInPage == page.pc = "cell" => page.i > 0

IInv == TypeOK /\ CellIsInPage /\ RestoresKept /\ SomeoneWillTrim
=============================================================================
