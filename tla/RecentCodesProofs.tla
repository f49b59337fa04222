------------------------- MODULE RecentCodesProofs -------------------------
(***************************************************************************)
(* The list of RecentCodes.tla is bounded for every limit and every number *)
(* of handlers, in every mix of their loads and stores; and while they do  *)
(* not overlap it holds the latest codes, and a page that meets none of    *)
(* them shows these.                                                       *)
(***************************************************************************)
EXTENDS RecentCodes, SequenceTheorems, TLAPS

\* A handler other than w that will trim still will, after a step of w that
\* leaves the length alone; so will w, if it would before.
LEMMA TrimmersStay ==
    ASSUME IInv, TypeOK', NEW w \in Workers,
           \A v \in Workers \ {w} : handler'[v] = handler[v],
           recentCodes'.length = recentCodes.length,
           WillTrim(w) /\ recentCodes.length > Kept => WillTrim(w)',
           handler'[w].pc = "restore" => handler'[w].regs.length = Kept
    PROVE  RestoresKept' /\ SomeoneWillTrim'
<1>1. RestoresKept'
  BY DEF IInv, RestoresKept
<1>2. \A v \in Workers \ {w} : WillTrim(v) => WillTrim(v)'
  BY DEF WillTrim
<1>3. SomeoneWillTrim'
  BY <1>2 DEF IInv, SomeoneWillTrim
<1> QED
  BY <1>1, <1>3

LEMMA FreeType == Free \in Handlers
BY RecentAssumption DEF Free, Handlers, Pcs, Slices, Slice, NoCode

\* A load from any cell gives a code or none.
LEMMA LoadType ==
    ASSUME TypeOK, NEW c
    PROVE  Load(c) \in 0 .. MaxCodes
<1>1. CASE HasCell(c)
  <2>1. heap[c[1]] \in Seq(0 .. MaxCodes)
    BY <1>1 DEF HasCell, TypeOK
  <2>2. c[2] \in DOMAIN heap[c[1]]
    BY <1>1 DEF HasCell
  <2>3. DOMAIN heap[c[1]] = 1 .. Len(heap[c[1]])
    BY <2>1, LenProperties
  <2>4. heap[c[1]][c[2]] \in 0 .. MaxCodes
    BY <2>1, <2>2, <2>3, ElementOfSeq
  <2> QED
    BY <1>1, <2>4 DEF Load
<1>2. CASE ~HasCell(c)
  BY <1>2, RecentAssumption DEF Load, NoCode
<1> QED
  BY <1>1, <1>2

LEMMA InitInv == ASSUME Init PROVE IInv
<1>1. TypeOK
  BY RecentAssumption
  DEF Init, TypeOK, Free, Handlers, Pcs, Slices, Slice, NoCode, NoPage
<1>2. CellIsInPage /\ RestoresKept
  BY DEF Init, CellIsInPage, RestoresKept, Free, NoPage
<1>3. SomeoneWillTrim
  BY RecentAssumption DEF Init, SomeoneWillTrim, Slice
<1> QED
  BY <1>1, <1>2, <1>3 DEF IInv

LEMMA BeginInv == ASSUME IInv, NEW w \in Workers, Begin(w) PROVE IInv'
<1>1. /\ handler' = [handler EXCEPT ![w] =
              [pc |-> "load", code |-> given + 1, regs |-> Free.regs, todo |-> Words]]
      /\ page' = [page EXCEPT !.quiet = FALSE]
      /\ given' = given + 1 /\ given < MaxCodes
      /\ racing' = racing + IF Serial /\ Appending = {} THEN 0 ELSE 1
      /\ racing' <= MaxRacing
      /\ UNCHANGED <<recentCodes, heap>>
      /\ handler[w].pc = "idle"
  BY DEF Begin, At
<1>2. TypeOK'
  <2>1. given + 1 \in 0 .. MaxCodes
    BY <1>1, RecentAssumption DEF IInv, TypeOK
  <2>2. [pc |-> "load", code |-> given + 1, regs |-> Free.regs, todo |-> Words] \in Handlers
    BY <2>1, FreeType DEF Handlers, Pcs
  <2>3. given' \in 0 .. MaxCodes /\ racing' \in 0 .. MaxRacing
    BY <1>1, RecentAssumption DEF IInv, TypeOK
  <2> QED
    BY <1>1, <2>2, <2>3 DEF IInv, TypeOK
<1>3. handler'[w].pc = "load" /\ \A v \in Workers \ {w} : handler'[v] = handler[v]
  BY <1>1 DEF IInv, TypeOK, Free
<1>4. ~WillTrim(w)
  BY <1>1 DEF WillTrim
<1>5. RestoresKept' /\ SomeoneWillTrim'
  BY <1>1, <1>2, <1>3, <1>4, TrimmersStay
<1>6. CellIsInPage'
  BY <1>1 DEF IInv, TypeOK, CellIsInPage
<1> QED
  BY <1>2, <1>5, <1>6 DEF IInv

LEMMA LoadWordInv ==
    ASSUME IInv, NEW w \in Workers, NEW word \in Words, LoadWord(w, word)
    PROVE  IInv'
<1> DEFINE regs == [handler[w].regs EXCEPT ![word] = recentCodes[word]]
<1>1. /\ handler[w].pc = "load"
      /\ handler' = [handler EXCEPT ![w] = After(handler[w], word, regs, "grow")]
      /\ UNCHANGED <<recentCodes, heap, page, given, racing>>
  BY DEF LoadWord, At, Done
<1>2. regs \in Slices /\ handler \in [Workers -> Handlers] /\ "grow" \in Pcs
  BY DEF IInv, TypeOK, Handlers, Slices, Words, Pcs
<1>3. /\ handler' \in [Workers -> Handlers]
      /\ \A v \in Workers \ {w} : handler'[v] = handler[v]
      /\ handler'[w].pc \in {"load", "grow"}
  <2> HIDE DEF regs
  <2> QED
    BY <1>1, <1>2 DEF After, Handlers, Pcs
<1>4. TypeOK' /\ CellIsInPage'
  BY <1>1, <1>3 DEF IInv, TypeOK, CellIsInPage
<1>5. ~WillTrim(w)
  BY <1>1 DEF WillTrim
<1> QED
  BY <1>1, <1>3, <1>4, <1>5, TrimmersStay DEF IInv

LEMMA GrowInv == ASSUME IInv, NEW w \in Workers, Grow(w) PROVE IInv'
<1> DEFINE s == handler[w].regs
           size == IF s.length + 1 > 2 * s.capacity THEN s.length + 1 ELSE 2 * s.capacity
           new == [i \in 1 .. size |-> IF i <= s.length THEN Load(Nth(s, i)) ELSE NoCode]
<1>1. /\ handler[w].pc = "grow"
      /\ UNCHANGED <<recentCodes, page, given, racing>>
      /\ \/ /\ Goto(w, "store", [s EXCEPT !.length = @ + 1], {"length", "cell"})
            /\ UNCHANGED heap
         \/ /\ heap' = Append(heap, new)
            /\ Goto(w, "store", Slice(<<Len(heap) + 1, 0>>, s.length + 1, size),
                    Words \cup {"cell"})
  BY DEF Grow, At
<1>2. s \in Slices /\ handler \in [Workers -> Handlers] /\ heap \in Seq(Seq(0 .. MaxCodes))
  BY DEF IInv, TypeOK, Handlers
<1>3. size \in Nat /\ new \in Seq(0 .. MaxCodes)
  <2>1. s.length \in Nat /\ s.capacity \in Int
    BY <1>2 DEF Slices
  <2>2. size \in Nat
    BY <2>1
  <2>3. \A i \in 1 .. size : new[i] \in 0 .. MaxCodes
    BY LoadType, RecentAssumption DEF IInv, NoCode
  <2>4. new \in [1 .. size -> 0 .. MaxCodes]
    BY <2>3
  <2>5. \A n \in Nat : [1 .. n -> 0 .. MaxCodes] \subseteq Seq(0 .. MaxCodes)
    BY SeqDef
  <2> HIDE DEF new, size
  <2> QED
    BY <2>2, <2>4, <2>5
<1>4. /\ handler' \in [Workers -> Handlers]
      /\ \A v \in Workers \ {w} : handler'[v] = handler[v]
      /\ handler'[w].pc = "store"
      /\ heap' \in Seq(Seq(0 .. MaxCodes))
  <2>1. CASE Goto(w, "store", [s EXCEPT !.length = @ + 1], {"length", "cell"}) /\ heap' = heap
    <3> DEFINE r == [s EXCEPT !.length = @ + 1]
    <3>1. r \in Slices
      BY <1>2 DEF Slices
    <3>2. handler' = [handler EXCEPT ![w].pc = "store", ![w].regs = r,
                                     ![w].todo = {"length", "cell"}]
      BY <2>1 DEF Goto
    <3>3. {"length", "cell"} \in SUBSET (Words \cup {"cell"}) /\ "store" \in Pcs
      BY DEF Words, Pcs
    <3> HIDE DEF s, size, new, r
    <3> QED
      BY <1>2, <2>1, <3>1, <3>2, <3>3 DEF Handlers
  <2>2. CASE /\ heap' = Append(heap, new)
             /\ Goto(w, "store", Slice(<<Len(heap) + 1, 0>>, s.length + 1, size),
                     Words \cup {"cell"})
    <3>1. heap' \in Seq(Seq(0 .. MaxCodes)) /\ Len(heap) \in Nat
      BY <1>2, <1>3, <2>2
    <3>2. Slice(<<Len(heap) + 1, 0>>, s.length + 1, size) \in Slices
      BY <1>2, <1>3, <3>1 DEF Slice, Slices
    <3> HIDE DEF s, size, new
    <3> QED
      BY <1>2, <2>2, <3>1, <3>2 DEF Goto, Handlers, Pcs
  <2> QED
    BY <1>1, <2>1, <2>2
<1>5. TypeOK' /\ CellIsInPage'
  BY <1>1, <1>4 DEF IInv, TypeOK, CellIsInPage
<1>6. ~WillTrim(w)
  BY <1>1 DEF WillTrim
<1> QED
  BY <1>1, <1>4, <1>5, <1>6, TrimmersStay DEF IInv

LEMMA StoreWordInv ==
    ASSUME IInv, NEW w \in Workers, NEW word \in Words, StoreWord(w, word)
    PROVE  IInv'
<1> DEFINE regs == handler[w].regs
<1>1. /\ handler[w].pc = "store" /\ word \in handler[w].todo
      /\ recentCodes' = [recentCodes EXCEPT ![word] = regs[word]]
      /\ handler' = [handler EXCEPT ![w] = After(handler[w], word, regs, "check")]
      /\ UNCHANGED <<heap, page, given, racing>>
  BY DEF StoreWord, At, Done
<1>2. /\ regs \in Slices /\ handler \in [Workers -> Handlers] /\ "check" \in Pcs
      /\ recentCodes \in Slices /\ "check" # "idle"
  BY DEF IInv, TypeOK, Handlers, Pcs
<1>3. /\ handler' \in [Workers -> Handlers]
      /\ \A v \in Workers \ {w} : handler'[v] = handler[v]
      /\ handler'[w].regs = regs
      /\ \/ handler'[w].pc = "store" /\ handler'[w].todo = handler[w].todo \ {word}
         \/ handler'[w].pc = "check" /\ handler[w].todo \subseteq {word}
  <2> HIDE DEF regs
  <2> QED
    BY <1>1, <1>2 DEF After, Handlers, Pcs
<1>4. recentCodes' \in Slices
  BY <1>1, <1>2 DEF Slices, Words
<1>5. TypeOK' /\ CellIsInPage'
  BY <1>1, <1>3, <1>4 DEF IInv, TypeOK, CellIsInPage
<1>6. CASE word # "length"
  <2>1. recentCodes'.length = recentCodes.length
    BY <1>1, <1>2, <1>6 DEF Slices, Words
  <2>2. WillTrim(w) => WillTrim(w)'
    BY <1>1, <1>3, <1>6, <2>1 DEF WillTrim
  <2> QED
    BY <1>3, <1>5, <2>1, <2>2, TrimmersStay DEF IInv
\* It has stored the length itself, and its check is still to come.
<1>7. CASE word = "length"
  <2>1. recentCodes'.length = regs.length
    BY <1>1, <1>2, <1>7 DEF Slices, Words
  <2>2. WillTrim(w)'
    BY <1>3, <1>7, <2>1 DEF WillTrim
  <2>3. RestoresKept'
    BY <1>3 DEF IInv, RestoresKept
  <2> QED
    BY <1>5, <2>2, <2>3 DEF IInv, SomeoneWillTrim
<1> QED
  BY <1>6, <1>7

LEMMA StoreCellInv == ASSUME IInv, NEW w \in Workers, StoreCell(w) PROVE IInv'
<1> DEFINE regs == handler[w].regs
           c == Nth(regs, regs.length)
<1>1. /\ handler[w].pc = "store"
      /\ heap' = IF HasCell(c) THEN [heap EXCEPT ![c[1]][c[2]] = handler[w].code] ELSE heap
      /\ handler' = [handler EXCEPT ![w] = After(handler[w], "cell", regs, "check")]
      /\ UNCHANGED <<recentCodes, page, given, racing>>
  BY DEF StoreCell, At, Done
<1>2. /\ regs \in Slices /\ handler \in [Workers -> Handlers] /\ "check" \in Pcs
      /\ handler[w].code \in 0 .. MaxCodes /\ "check" # "idle"
  BY DEF IInv, TypeOK, Handlers, Pcs
<1>3. /\ handler' \in [Workers -> Handlers]
      /\ \A v \in Workers \ {w} : handler'[v] = handler[v]
      /\ handler'[w].regs = regs
      /\ \/ handler'[w].pc = "store" /\ handler'[w].todo = handler[w].todo \ {"cell"}
         \/ handler'[w].pc = "check" /\ handler[w].todo \subseteq {"cell"}
  <2> HIDE DEF regs
  <2> QED
    BY <1>1, <1>2 DEF After, Handlers, Pcs
<1>4. heap' \in Seq(Seq(0 .. MaxCodes))
  <2>1. heap \in Seq(Seq(0 .. MaxCodes))
    BY DEF IInv, TypeOK
  <2>2. CASE HasCell(c)
    <3>1. c[1] \in DOMAIN heap /\ c[2] \in DOMAIN heap[c[1]]
      BY <2>2 DEF HasCell
    <3>2. [heap[c[1]] EXCEPT ![c[2]] = handler[w].code] \in Seq(0 .. MaxCodes)
      BY <1>2, <2>1, <3>1
    <3>3. heap' = [heap EXCEPT ![c[1]] = [heap[c[1]] EXCEPT ![c[2]] = handler[w].code]]
      BY <1>1, <2>2
    <3> HIDE DEF c
    <3> QED
      BY <2>1, <3>1, <3>2, <3>3
  <2>3. CASE ~HasCell(c)
    BY <1>1, <2>1, <2>3
  <2> QED
    BY <2>2, <2>3
<1>5. TypeOK' /\ CellIsInPage'
  BY <1>1, <1>3, <1>4 DEF IInv, TypeOK, CellIsInPage
<1>6. WillTrim(w) => WillTrim(w)'
  BY <1>1, <1>3 DEF WillTrim
<1> QED
  BY <1>1, <1>3, <1>5, <1>6, TrimmersStay DEF IInv

LEMMA CheckInv == ASSUME IInv, NEW w \in Workers, Check(w) PROVE IInv'
<1>1. PICK n \in {recentCodes.length, handler[w].regs.length} :
         /\ handler[w].pc = "check"
         /\ IF TooLong(n) THEN Goto(w, "reload", handler[w].regs, Words)
            ELSE handler' = [handler EXCEPT ![w] = Free]
         /\ UNCHANGED <<recentCodes, heap, page, given, racing>>
  BY DEF Check, At
<1>2. /\ handler \in [Workers -> Handlers]
      /\ recentCodes.length \in Nat /\ handler[w].regs.length \in Nat
      /\ Free \in Handlers
  BY RecentAssumption
  DEF IInv, TypeOK, Handlers, Slices, Free, Slice, NoCode, Pcs
<1>3. /\ handler' \in [Workers -> Handlers]
      /\ \A v \in Workers \ {w} : handler'[v] = handler[v]
      /\ \/ /\ handler'[w].pc = "reload" /\ handler'[w].todo = Words
            /\ handler'[w].regs = handler[w].regs
         \/ handler'[w] = Free /\ n <= Kept
  <2>1. CASE TooLong(n)
    BY <1>1, <1>2, <2>1 DEF Goto, Handlers, Pcs
  <2>2. CASE ~TooLong(n)
    BY <1>1, <1>2, <2>2, RecentAssumption DEF TooLong
  <2> QED
    BY <2>1, <2>2
<1>4. TypeOK' /\ CellIsInPage'
  BY <1>1, <1>3 DEF IInv, TypeOK, CellIsInPage
\* Its own length is the one in memory: it is too long wherever it is read.
<1>5. ASSUME WillTrim(w), recentCodes.length > Kept PROVE WillTrim(w)'
  <2>1. n = recentCodes.length /\ handler[w].regs.length = recentCodes.length
    BY <1>1, <1>5 DEF WillTrim
  <2>2. handler'[w].pc = "reload" /\ handler'[w].todo = Words
        /\ handler'[w].regs = handler[w].regs
    BY <1>2, <1>3, <1>5, <2>1, RecentAssumption
  <2> QED
    BY <1>1, <2>1, <2>2 DEF WillTrim, Words
<1>6. handler'[w].pc # "restore"
  BY <1>3 DEF Free
<1> QED
  BY <1>1, <1>3, <1>4, <1>5, <1>6, TrimmersStay DEF IInv

LEMMA ReloadWordInv ==
    ASSUME IInv, NEW w \in Workers, NEW word \in Words, ReloadWord(w, word)
    PROVE  IInv'
<1>1. PICK v \in {recentCodes[word], handler[w].regs[word]} :
         handler' = [handler EXCEPT ![w] =
             After(handler[w], word, [handler[w].regs EXCEPT ![word] = v], "trim")]
  BY DEF ReloadWord, Done
<1> DEFINE regs == [handler[w].regs EXCEPT ![word] = v]
<1>2. /\ handler[w].pc = "reload" /\ word \in handler[w].todo
      /\ UNCHANGED <<recentCodes, heap, page, given, racing>>
  BY DEF ReloadWord, At
<1>3. /\ regs \in Slices /\ handler \in [Workers -> Handlers]
      /\ handler[w].regs \in Slices /\ recentCodes \in Slices
  BY DEF IInv, TypeOK, Handlers, Slices, Words
<1>4. /\ handler' \in [Workers -> Handlers]
      /\ \A x \in Workers \ {w} : handler'[x] = handler[x]
      /\ handler'[w].regs = regs
      /\ \/ handler'[w].pc = "reload" /\ handler'[w].todo = handler[w].todo \ {word}
         \/ handler'[w].pc = "trim" /\ handler[w].todo \subseteq {word}
  <2> HIDE DEF regs
  <2>1. handler' = [handler EXCEPT ![w] = After(handler[w], word, regs, "trim")]
    BY <1>1 DEF regs
  <2> QED
    BY <1>2, <1>3, <2>1 DEF After, Handlers, Pcs
<1>5. TypeOK' /\ CellIsInPage'
  BY <1>2, <1>4 DEF IInv, TypeOK, CellIsInPage
<1>6. ASSUME WillTrim(w), recentCodes.length > Kept PROVE WillTrim(w)'
  <2>1. CASE word = "length"
    \* Its own length and the one in memory are the same, unless it has one.
    <3>1. regs.length = recentCodes.length
      BY <1>2, <1>3, <1>6, <2>1 DEF WillTrim, Slices
    <3> QED
      BY <1>2, <1>4, <1>6, <2>1, <3>1 DEF WillTrim
  <2>2. CASE word # "length"
    <3>1. regs.length = handler[w].regs.length
      BY <1>3, <2>2 DEF Slices, Words
    <3> QED
      BY <1>2, <1>4, <1>6, <2>2, <3>1 DEF WillTrim
  <2> QED
    BY <2>1, <2>2
<1> QED
  BY <1>2, <1>4, <1>5, <1>6, TrimmersStay DEF IInv

LEMMA TrimInv == ASSUME IInv, NEW w \in Workers, Trim(w) PROVE IInv'
<1> DEFINE s == handler[w].regs
<1>1. /\ handler[w].pc = "trim"
      /\ IF s.length < Kept THEN handler' = [handler EXCEPT ![w] = Free]
         ELSE Goto(w, "restore", Trimmed(s), Words)
      /\ UNCHANGED <<recentCodes, heap, page, given, racing>>
  BY DEF Trim, At
<1>2. s \in Slices /\ handler \in [Workers -> Handlers] /\ s.length \in Nat /\ Kept \in Nat
  BY RecentAssumption DEF IInv, TypeOK, Handlers, Slices
<1>3. /\ handler' \in [Workers -> Handlers]
      /\ \A v \in Workers \ {w} : handler'[v] = handler[v]
      /\ \/ s.length < Kept /\ handler'[w] = Free
         \/ /\ handler'[w].pc = "restore" /\ handler'[w].todo = Words
            /\ handler'[w].regs.length = Kept
  <2>1. CASE s.length < Kept
    BY <1>1, <1>2, <2>1, FreeType
  <2>2. CASE ~(s.length < Kept)
    <3>1. /\ s.array[1] \in Nat /\ s.array[2] + (s.length - Kept) \in Nat
          /\ s.capacity - (s.length - Kept) \in Int
      BY <1>2, <2>2 DEF Slices
    <3>2. Trimmed(s) = [array |-> <<s.array[1], s.array[2] + (s.length - Kept)>>,
                        length |-> Kept, capacity |-> s.capacity - (s.length - Kept)]
      BY DEF Trimmed, Slice, Nth
    <3>3. Trimmed(s) \in Slices /\ Trimmed(s).length = Kept
      BY <1>2, <3>1, <3>2 DEF Slices
    <3>4. Goto(w, "restore", Trimmed(s), Words)
      BY <1>1, <2>2
    <3> HIDE DEF s
    <3> QED
      BY <1>2, <3>3, <3>4 DEF Goto, Handlers, Pcs
  <2> QED
    BY <2>1, <2>2
<1>4. TypeOK' /\ CellIsInPage'
  BY <1>1, <1>3 DEF IInv, TypeOK, CellIsInPage
<1>5. WillTrim(w) => WillTrim(w)'
  BY <1>1, <1>2, <1>3 DEF WillTrim, Words
<1>6. handler'[w].pc = "restore" => handler'[w].regs.length = Kept
  BY <1>3 DEF Free
<1> QED
  BY <1>1, <1>3, <1>4, <1>5, <1>6, TrimmersStay DEF IInv

LEMMA RestoreWordInv ==
    ASSUME IInv, NEW w \in Workers, NEW word \in Words, RestoreWord(w, word)
    PROVE  IInv'
<1> DEFINE regs == handler[w].regs
<1>1. /\ handler[w].pc = "restore" /\ word \in handler[w].todo
      /\ recentCodes' = [recentCodes EXCEPT ![word] = regs[word]]
      /\ handler' = [handler EXCEPT ![w] = After(handler[w], word, regs, "idle")]
      /\ UNCHANGED <<heap, page, given, racing>>
  BY DEF RestoreWord, At, Done
<1>2. /\ regs \in Slices /\ handler \in [Workers -> Handlers] /\ recentCodes \in Slices
      /\ regs.length = Kept
  BY <1>1 DEF IInv, TypeOK, Handlers, RestoresKept
<1>3. /\ handler' \in [Workers -> Handlers]
      /\ \A v \in Workers \ {w} : handler'[v] = handler[v]
      /\ \/ /\ handler'[w].pc = "restore" /\ handler'[w].todo = handler[w].todo \ {word}
            /\ handler'[w].regs = regs
         \/ handler'[w] = Free /\ handler[w].todo \subseteq {word}
  <2> HIDE DEF regs
  <2> QED
    BY <1>1, <1>2, FreeType DEF After, Handlers
<1>4. recentCodes' \in Slices
  BY <1>1, <1>2 DEF Slices, Words
<1>5. TypeOK' /\ CellIsInPage'
  BY <1>1, <1>3, <1>4 DEF IInv, TypeOK, CellIsInPage
<1>6. handler'[w].pc = "restore" => handler'[w].regs.length = Kept
  BY <1>2, <1>3 DEF Free
<1>7. CASE word # "length"
  <2>1. recentCodes'.length = recentCodes.length
    BY <1>1, <1>2, <1>7 DEF Slices, Words
  <2>2. WillTrim(w) => WillTrim(w)'
    BY <1>1, <1>3, <1>7 DEF WillTrim
  <2> QED
    BY <1>3, <1>5, <1>6, <2>1, <2>2, TrimmersStay DEF IInv
<1>8. CASE word = "length"
  <2>1. recentCodes'.length = Kept
    BY <1>1, <1>2, <1>8 DEF Slices, Words
  <2>2. SomeoneWillTrim'
    BY <2>1, RecentAssumption DEF SomeoneWillTrim
  <2>3. RestoresKept'
    BY <1>3, <1>6 DEF IInv, RestoresKept
  <2> QED
    BY <1>5, <2>2, <2>3 DEF IInv
<1> QED
  BY <1>7, <1>8

LEMMA PageInv == ASSUME IInv, StartPage \/ NextCode \/ ListCode PROVE IInv'
<1>1. UNCHANGED <<recentCodes, heap, handler, given, racing>>
  BY DEF StartPage, NextCode, ListCode
<1>2. RestoresKept' /\ SomeoneWillTrim'
  BY <1>1 DEF IInv, RestoresKept, SomeoneWillTrim, WillTrim
<1>3. CASE StartPage
  <2>1. recentCodes.length \in Nat
    BY DEF IInv, TypeOK, Slices
  <2>2. PICK quiet \in BOOLEAN :
           page' = [pc |-> "next", i |-> recentCodes.length, listed |-> <<>>, quiet |-> quiet]
    <3> DEFINE q == Appending = {}
    <3>1. page' = [pc |-> "next", i |-> recentCodes.length, listed |-> <<>>, quiet |-> q]
      BY <1>3 DEF StartPage
    <3>2. q \in BOOLEAN
      OBVIOUS
    <3> HIDE DEF q
    <3> QED
      BY <3>1, <3>2, Zenon
  <2>3. <<>> \in Seq(Public)
    OBVIOUS
  <2>4. page' \in [pc : {"none", "next", "cell", "shown", "panic"}, i : Nat,
                   listed : Seq(Public), quiet : BOOLEAN]
    BY <2>1, <2>2, <2>3
  <2> QED
    BY <1>1, <1>2, <2>2, <2>4 DEF IInv, TypeOK, CellIsInPage
<1>4. CASE NextCode
  <2>1. \/ page' = [page EXCEPT !.pc = "shown"] \/ page' = [page EXCEPT !.pc = "panic"]
        \/ page' = [page EXCEPT !.pc = "cell"] /\ page.i # 0
    BY <1>4 DEF NextCode, LoopEnds
  <2>2. TypeOK'
    BY <1>1, <2>1 DEF IInv, TypeOK
  <2>3. CellIsInPage'
    <3>1. page.i \in Nat /\ page'.i = page.i /\ (page'.pc = "cell" => page.i # 0)
      BY <2>1 DEF IInv, TypeOK
    <3> QED
      BY <3>1 DEF CellIsInPage
  <2> QED
    BY <1>2, <2>2, <2>3 DEF IInv
<1>5. CASE ListCode
  <2> DEFINE code == Load(Nth(recentCodes, page.i))
  <2>1. /\ page.pc = "cell"
        /\ page' = [page EXCEPT !.pc = "next", !.i = @ - 1,
                                !.listed = IF code \in Public THEN Append(@, code) ELSE @]
    BY <1>5 DEF ListCode
  <2>2. page.i - 1 \in Nat
    BY <2>1 DEF IInv, TypeOK, CellIsInPage
  <2> HIDE DEF code
  <2>3. (IF code \in Public THEN Append(page.listed, code) ELSE page.listed) \in Seq(Public)
    BY DEF IInv, TypeOK
  <2> QED
    BY <1>1, <1>2, <2>1, <2>2, <2>3 DEF IInv, TypeOK, CellIsInPage
<1> QED
  BY <1>3, <1>4, <1>5

LEMMA NextInv == ASSUME IInv, [Next]_vars PROVE IInv'
<1>1. CASE UNCHANGED vars
  BY <1>1
  DEF IInv, vars, TypeOK, CellIsInPage, RestoresKept, SomeoneWillTrim, WillTrim
<1>2. CASE \E w \in Workers : Begin(w) \/ AppendStep(w)
  BY <1>2, BeginInv, LoadWordInv, GrowInv, StoreWordInv, StoreCellInv, CheckInv,
     ReloadWordInv, TrimInv, RestoreWordInv DEF AppendStep
<1>3. CASE StartPage \/ NextCode \/ ListCode
  BY <1>3, PageInv
<1> QED
  BY <1>1, <1>2, <1>3 DEF Next

LEMMA Invariance == Spec => []IInv
<1>1. Init => IInv
  BY InitInv
<1>2. IInv /\ [Next]_vars => IInv'
  BY NextInv
<1> QED
  BY <1>1, <1>2, PTL DEF Spec

\* Every word of the list, every handler and every page keep their types.
THEOREM TypeCorrect == Spec => []TypeOK
<1>1. IInv => TypeOK
  BY DEF IInv
<1> QED
  BY <1>1, Invariance, PTL

\* With no append under way, no race of any number of handlers has left the
\* list longer than its limit (handlers.go, handleGenerate and handleSetupTOTP).
THEOREM Bounded == Spec => []BoundedWhenQuiet
<1>1. IInv => BoundedWhenQuiet
  <2> SUFFICES ASSUME IInv, Appending = {} PROVE recentCodes.length <= Kept
    BY DEF BoundedWhenQuiet
  <2>1. \A w \in Workers : ~WillTrim(w)
    BY DEF Appending, WillTrim
  <2>2. recentCodes.length \in Nat /\ Kept \in Nat
    BY RecentAssumption DEF IInv, TypeOK, Slices
  <2> QED
    BY <2>1, <2>2 DEF IInv, SomeoneWillTrim
<1> QED
  BY <1>1, Invariance, PTL

-----------------------------------------------------------------------------
(* Appends that never overlap: what the slice and the registers of the one *)
(* handler under way hold, at each of its steps.  All of it is about       *)
(* values, so that a step is a lemma about them.                           *)

Least(g) == IF g < Kept THEN g ELSE Kept

Cell(hp, c) == c[1] \in DOMAIN hp /\ c[2] \in DOMAIN hp[c[1]]
Value(hp, c) == IF Cell(hp, c) THEN hp[c[1]][c[2]] ELSE NoCode

\* The slice has an array behind it, up to its capacity.
Backed(hp, s) == s.length <= s.capacity /\ \A i \in 1 .. s.capacity : Cell(hp, Nth(s, i))

\* The first n codes of the slice are the latest ones up to code g.
Ends(hp, s, n, g) == \A i \in 1 .. n : Value(hp, Nth(s, i)) = g - n + i

Lists(hp, s, n, g) == s.length = n /\ Backed(hp, s) /\ Ends(hp, s, n, g)

\* The words that handler h has done with are the same in both places.
Agree(h, rc) == \A word \in Words \ h.todo : h.regs[word] = rc[word]

\* While handler h appends code g to the list rc.
Fits(h, rc, hp, g) ==
    LET n == Least(g - 1)
        r == h.regs
    IN  /\ h.code = g /\ g > 0
        /\ h.pc = "load" => Lists(hp, rc, n, g - 1) /\ Agree(h, rc)
        /\ h.pc = "grow" => Lists(hp, rc, n, g - 1) /\ r = rc
        /\ h.pc = "store" =>
              /\ r.length = n + 1 /\ Backed(hp, r) /\ Ends(hp, r, n, g - 1) /\ Agree(h, rc)
              /\ "cell" \notin h.todo => Value(hp, Nth(r, n + 1)) = g
        /\ h.pc \in {"check", "reload", "trim"} => Lists(hp, rc, n + 1, g) /\ r = rc
        /\ h.pc \in {"reload", "trim", "restore"} => g > Kept
        /\ h.pc = "restore" => Lists(hp, r, Kept, g) /\ Agree(h, rc)

\* No two appends overlap, the one under way is where it should be, and between
\* two of them the list is what it should be.
SerialInv ==
    Serial => /\ \A v, w \in Appending : v = w
              /\ \A w \in Appending : Fits(handler[w], recentCodes, heap, given)
              /\ Appending = {} => Lists(heap, recentCodes, Least(given), given)

Heaps == Seq(Seq(0 .. MaxCodes))

LEMMA SameSlice ==
    ASSUME NEW r \in Slices, NEW s \in Slices, \A word \in Words : r[word] = s[word]
    PROVE  r = s
<1>1. r.array = s.array /\ r.length = s.length /\ r.capacity = s.capacity
  BY DEF Words
<1> QED
  BY <1>1 DEF Slices

LEMMA AfterParts ==
    ASSUME NEW h \in Handlers, NEW word, NEW regs, NEW next \in Pcs \ {"idle"}
    PROVE  LET a == After(h, word, regs, next)
           IN  /\ a.code = h.code /\ a.regs = regs /\ a.todo = h.todo \ {word}
               /\ a.todo = {} => a.pc = next
               /\ a.todo # {} => a.pc = h.pc
BY DEF After, Handlers

\* The slice with one more cell written lists one more code.
LEMMA OneMore ==
    ASSUME NEW hp, NEW r, NEW n \in Nat, NEW g \in Nat,
           Ends(hp, r, n, g - 1), Value(hp, Nth(r, n + 1)) = g
    PROVE  Ends(hp, r, n + 1, g)
<1> SUFFICES ASSUME NEW i \in 1 .. n + 1 PROVE Value(hp, Nth(r, i)) = g - (n + 1) + i
  BY DEF Ends
<1>1. CASE i = n + 1
  BY <1>1
<1>2. CASE i # n + 1
  <2>1. i \in 1 .. n
    BY <1>2
  <2>2. Value(hp, Nth(r, i)) = (g - 1) - n + i
    BY <2>1 DEF Ends
  <2> QED
    BY <2>1, <2>2
<1> QED
  BY <1>1, <1>2

LEMMA LeastType == ASSUME NEW g \in Nat PROVE Least(g) \in Nat /\ Least(g) <= Kept /\ Least(g) <= g
BY RecentAssumption DEF Least

LEMMA LoadFits ==
    ASSUME NEW h \in Handlers, NEW rc \in Slices, NEW hp, NEW g \in Nat,
           Fits(h, rc, hp, g), h.pc = "load", NEW word \in h.todo \cap Words
    PROVE  Fits(After(h, word, [h.regs EXCEPT ![word] = rc[word]], "grow"), rc, hp, g)
<1> DEFINE regs == [h.regs EXCEPT ![word] = rc[word]]
           a == After(h, word, regs, "grow")
<1>1. /\ a.code = h.code /\ a.regs = regs /\ a.todo = h.todo \ {word}
      /\ a.todo = {} => a.pc = "grow"
      /\ a.todo # {} => a.pc = "load"
  BY AfterParts DEF Pcs
<1>2. h.regs \in Slices
  BY DEF Handlers
<1>3. regs[word] = rc[word] /\ \A other \in Words \ {word} : regs[other] = h.regs[other]
  BY <1>2 DEF Slices, Words
<1>4. regs \in Slices
  BY <1>2 DEF Slices, Words
<1>5. Agree(a, rc)
  BY <1>1, <1>3 DEF Fits, Agree
<1>6. a.todo = {} => regs = rc
  BY <1>1, <1>4, <1>5, SameSlice DEF Agree
<1> HIDE DEF a, regs
<1>7. Fits(a, rc, hp, g)
  BY <1>1, <1>5, <1>6 DEF Fits
<1> QED
  BY <1>7 DEF a, regs

\* The cell after the last has room for one more: in place, or in a new array.
LEMMA GrowFits ==
    ASSUME NEW h \in Handlers, NEW rc \in Slices, NEW hp \in Heaps, NEW g \in 0 .. MaxCodes,
           Fits(h, rc, hp, g), h.pc = "grow", NEW a \in Handlers, NEW hq,
           a.pc = "store", a.code = h.code,
           \/ /\ h.regs.length < h.regs.capacity /\ hq = hp
              /\ a.regs = [h.regs EXCEPT !.length = @ + 1] /\ a.todo = {"length", "cell"}
           \/ LET s == h.regs
                  size == IF s.length + 1 > 2 * s.capacity THEN s.length + 1 ELSE 2 * s.capacity
              IN  /\ hq = Append(hp, [i \in 1 .. size |->
                            IF i <= s.length THEN Value(hp, Nth(s, i)) ELSE NoCode])
                  /\ a.regs = Slice(<<Len(hp) + 1, 0>>, s.length + 1, size)
                  /\ a.todo = Words \cup {"cell"}
    PROVE  Fits(a, rc, hq, g)
<1> DEFINE n == Least(g - 1)
           s == h.regs
           r == a.regs
<1>1. /\ s = rc /\ g > 0 /\ rc.length = n /\ Backed(hp, rc) /\ Ends(hp, rc, n, g - 1)
      /\ h.code = g
  BY DEF Fits, Lists
<1>2. n \in Nat /\ g \in Nat /\ s \in Slices
  BY <1>1, LeastType, RecentAssumption DEF Handlers
<1>3. SUFFICES /\ r.length = n + 1 /\ Backed(hq, r) /\ Ends(hq, r, n, g - 1) /\ Agree(a, rc)
               /\ "cell" \in a.todo
  BY <1>1 DEF Fits
<1>4. CASE /\ s.length < s.capacity /\ hq = hp
           /\ r = [s EXCEPT !.length = @ + 1] /\ a.todo = {"length", "cell"}
  <2>1. r.length = n + 1 /\ r.array = s.array /\ r.capacity = s.capacity
    BY <1>1, <1>2, <1>4 DEF Slices
  <2>2. \A i : Nth(r, i) = Nth(s, i)
    BY <2>1 DEF Nth
  <2>3. Backed(hq, r)
    <3>1. r.length <= r.capacity
      BY <1>1, <1>2, <1>4, <2>1 DEF Slices
    <3>2. \A i \in 1 .. r.capacity : Cell(hq, Nth(r, i))
      BY <1>1, <1>4, <2>1, <2>2 DEF Backed
    <3> QED
      BY <3>1, <3>2 DEF Backed
  <2>4. Ends(hq, r, n, g - 1)
    BY <1>1, <1>4, <2>2 DEF Ends
  <2>5. Agree(a, rc)
    <3>1. Words \ a.todo = {"array", "capacity"}
      BY <1>4 DEF Words
    <3>2. a.regs["array"] = rc["array"] /\ a.regs["capacity"] = rc["capacity"]
      BY <1>1, <2>1
    <3> QED
      BY <3>1, <3>2 DEF Agree
  <2> QED
    BY <1>4, <2>1, <2>3, <2>4, <2>5
<1>5. ASSUME ~(/\ s.length < s.capacity /\ hq = hp
               /\ r = [s EXCEPT !.length = @ + 1] /\ a.todo = {"length", "cell"})
      PROVE /\ r.length = n + 1 /\ Backed(hq, r) /\ Ends(hq, r, n, g - 1) /\ Agree(a, rc)
            /\ "cell" \in a.todo
  <2> DEFINE size == IF s.length + 1 > 2 * s.capacity THEN s.length + 1 ELSE 2 * s.capacity
             new == [i \in 1 .. size |-> IF i <= s.length THEN Value(hp, Nth(s, i)) ELSE NoCode]
             m == Len(hp) + 1
  <2>1. /\ hq = Append(hp, new) /\ r = Slice(<<m, 0>>, s.length + 1, size)
        /\ a.todo = Words \cup {"cell"}
    BY <1>5
  <2>2. size \in Nat /\ size >= s.length + 1 /\ s.length \in Nat
    BY <1>2 DEF Slices
  <2>3. r.length = n + 1 /\ r.array = <<m, 0>> /\ r.capacity = size
    BY <1>1, <2>1 DEF Slice
  <2>4. m \in DOMAIN hq /\ hq[m] = new /\ DOMAIN new = 1 .. size
    <3> HIDE DEF new
    <3>1. m \in DOMAIN hq /\ hq[m] = new
      BY <2>1 DEF Heaps
    <3> QED
      BY <3>1 DEF new
  <2> HIDE DEF new, size, m
  <2>5. \A i \in Nat : Nth(r, i)[1] = m /\ Nth(r, i)[2] = i
    BY <2>3 DEF Nth
  <2>6. \A i \in 1 .. size : Cell(hq, Nth(r, i)) /\ Value(hq, Nth(r, i)) = new[i]
    BY <2>2, <2>4, <2>5 DEF Cell, Value
  <2>7. Backed(hq, r)
    BY <2>2, <2>3, <2>6, <1>1 DEF Backed
  <2>8. \A i \in 1 .. n : new[i] = Value(hp, Nth(s, i)) /\ i \in 1 .. size
    BY <1>1, <1>2, <2>2 DEF new
  <2>9. Ends(hq, r, n, g - 1)
    BY <1>1, <2>6, <2>8 DEF Ends
  <2>10. Agree(a, rc)
    BY <2>1 DEF Agree
  <2> QED
    BY <2>1, <2>3, <2>7, <2>9, <2>10
<1> QED
  BY <1>4, <1>5

LEMMA StoreWordFits ==
    ASSUME NEW h \in Handlers, NEW rc \in Slices, NEW hp, NEW g \in Nat,
           Fits(h, rc, hp, g), h.pc = "store", NEW word \in h.todo \cap Words
    PROVE  Fits(After(h, word, h.regs, "check"), [rc EXCEPT ![word] = h.regs[word]], hp, g)
<1> DEFINE r == h.regs
           rd == [rc EXCEPT ![word] = r[word]]
           a == After(h, word, r, "check")
           n == Least(g - 1)
<1>1. /\ a.code = h.code /\ a.regs = r /\ a.todo = h.todo \ {word}
      /\ a.todo = {} => a.pc = "check"
      /\ a.todo # {} => a.pc = "store"
  BY AfterParts DEF Pcs
<1>2. r \in Slices
  BY DEF Handlers
<1>3. /\ rd \in Slices /\ rd[word] = r[word]
      /\ \A other \in Words \ {word} : rd[other] = rc[other]
  BY <1>2 DEF Slices, Words
<1>4. /\ h.code = g /\ g > 0 /\ r.length = n + 1 /\ Backed(hp, r) /\ Ends(hp, r, n, g - 1)
      /\ Agree(h, rc) /\ ("cell" \notin h.todo => Value(hp, Nth(r, n + 1)) = g)
  BY DEF Fits
<1> HIDE DEF a, rd
<1>5. Agree(a, rd)
  BY <1>1, <1>3, <1>4 DEF Agree
<1>6. "cell" \notin a.todo => "cell" \notin h.todo
  BY <1>1 DEF Words
<1>7. a.todo = {} => r = rd
  BY <1>1, <1>2, <1>3, <1>5, SameSlice DEF Agree
<1>8. a.todo = {} => Ends(hp, r, n + 1, g)
  <2>1. n \in Nat
    BY <1>4, LeastType
  <2> HIDE DEF n
  <2> QED
    BY <1>4, <1>6, <2>1, OneMore
<1>9. CASE a.todo = {}
  <2>1. a.pc = "check" /\ a.code = g /\ g > 0 /\ a.regs = rd /\ Lists(hp, rd, n + 1, g)
    BY <1>1, <1>4, <1>7, <1>8, <1>9 DEF Lists
  <2>2. Fits(a, rd, hp, g)
    BY <2>1 DEF Fits
  <2> QED
    BY <2>2 DEF a, rd
<1>10. CASE a.todo # {}
  <2>1. a.pc = "store" /\ a.code = g /\ a.regs = r
    BY <1>1, <1>4, <1>10
  <2>2. Fits(a, rd, hp, g)
    BY <1>4, <1>5, <1>6, <2>1 DEF Fits
  <2> QED
    BY <2>2 DEF a, rd
<1> QED
  BY <1>9, <1>10

\* The new code goes where no other code of the list is.
LEMMA StoreCellFits ==
    ASSUME NEW h \in Handlers, NEW rc \in Slices, NEW hp \in Heaps, NEW g \in 0 .. MaxCodes,
           Fits(h, rc, hp, g), h.pc = "store", "cell" \in h.todo, NEW hq,
           LET c == Nth(h.regs, h.regs.length)
           IN  hq = IF Cell(hp, c) THEN [hp EXCEPT ![c[1]][c[2]] = h.code] ELSE hp
    PROVE  Fits(After(h, "cell", h.regs, "check"), rc, hq, g)
<1> DEFINE r == h.regs
           c == Nth(r, r.length)
           a == After(h, "cell", r, "check")
           n == Least(g - 1)
<1>1. /\ a.code = h.code /\ a.regs = r /\ a.todo = h.todo \ {"cell"}
      /\ a.todo = {} => a.pc = "check"
      /\ a.todo # {} => a.pc = "store"
  BY AfterParts DEF Pcs
<1>2. /\ h.code = g /\ g > 0 /\ r.length = n + 1 /\ Backed(hp, r) /\ Ends(hp, r, n, g - 1)
      /\ Agree(h, rc)
  BY DEF Fits
<1>3. r \in Slices /\ n \in Nat /\ g \in Nat
  BY <1>2, LeastType, RecentAssumption DEF Handlers
<1> HIDE DEF a, n
<1>4. Cell(hp, c)
  BY <1>2, <1>3 DEF Backed, Slices
<1>5. /\ hq = [hp EXCEPT ![c[1]][c[2]] = g]
      /\ c[1] \in DOMAIN hp /\ c[2] \in DOMAIN hp[c[1]]
  BY <1>2, <1>4 DEF Cell
<1>6. ASSUME NEW d
      PROVE  /\ Cell(hp, d) => Cell(hq, d)
             /\ d[1] # c[1] \/ d[2] # c[2] => Value(hq, d) = Value(hp, d)
             /\ d[1] = c[1] /\ d[2] = c[2] => Value(hq, d) = g
  <2> HIDE DEF c
  <2>1. DOMAIN hq = DOMAIN hp /\ \A m \in DOMAIN hp : DOMAIN hq[m] = DOMAIN hp[m]
    BY <1>5
  <2>2. hq[c[1]][c[2]] = g
    BY <1>5
  <2>3. \A m \in DOMAIN hp : \A i \in DOMAIN hp[m] :
           m # c[1] \/ i # c[2] => hq[m][i] = hp[m][i]
    BY <1>5
  <2>4. Cell(hq, d) <=> Cell(hp, d)
    BY <2>1 DEF Cell
  <2> QED
    BY <1>5, <2>1, <2>2, <2>3, <2>4 DEF Cell, Value
<1>7. \A i \in 1 .. n : Nth(r, i)[2] # c[2]
  BY <1>2, <1>3 DEF Nth, Slices
<1>8. Backed(hq, r)
  BY <1>2, <1>6 DEF Backed
<1>9. Ends(hq, r, n, g - 1)
  BY <1>2, <1>6, <1>7 DEF Ends
<1>10. Value(hq, Nth(r, n + 1)) = g
  BY <1>2, <1>6
<1>11. Agree(a, rc)
  BY <1>1, <1>2 DEF Agree, Words
<1>12. Ends(hq, r, n + 1, g)
  BY <1>3, <1>9, <1>10, OneMore
<1>13. CASE a.todo = {}
  <2>1. r = rc
    BY <1>1, <1>3, <1>11, <1>13, SameSlice DEF Agree
  <2>2. a.pc = "check" /\ a.code = g /\ g > 0 /\ a.regs = rc /\ Lists(hq, rc, n + 1, g)
    BY <1>1, <1>2, <1>8, <1>12, <1>13, <2>1 DEF Lists
  <2>3. Fits(a, rc, hq, g)
    BY <2>2 DEF Fits, n
  <2> QED
    BY <2>3 DEF a
<1>14. CASE a.todo # {}
  <2>1. a.pc = "store" /\ a.code = g /\ a.regs = r
    BY <1>1, <1>2, <1>14
  <2>2. Fits(a, rc, hq, g)
    BY <1>2, <1>8, <1>9, <1>10, <1>11, <2>1 DEF Fits, n
  <2> QED
    BY <2>2 DEF a
<1> QED
  BY <1>13, <1>14

\* Memory and registers agree: the list is too long, or done.
LEMMA CheckFits ==
    ASSUME NEW h \in Handlers, NEW rc \in Slices, NEW hp, NEW g \in Nat,
           Fits(h, rc, hp, g), h.pc = "check", NEW n \in {rc.length, h.regs.length}
    PROVE  /\ TooLong(n) => \A a : a.code = h.code /\ a.pc = "reload" /\ a.regs = h.regs
                                      => Fits(a, rc, hp, g)
           /\ ~TooLong(n) => Lists(hp, rc, Least(g), g)
<1>1. n = rc.length /\ Lists(hp, rc, Least(g - 1) + 1, g) /\ h.regs = rc /\ h.code = g /\ g > 0
  BY DEF Fits
<1>2. n = Least(g - 1) + 1
  BY <1>1 DEF Lists
<1>3. TooLong(n) => g > Kept
  BY <1>1, <1>2, RecentAssumption DEF TooLong, Least
<1>4. ~TooLong(n) => Least(g - 1) + 1 = Least(g)
  BY <1>1, <1>2, RecentAssumption DEF TooLong, Least
<1> QED
  BY <1>1, <1>3, <1>4 DEF Fits

LEMMA ReloadWordFits ==
    ASSUME NEW h \in Handlers, NEW rc \in Slices, NEW hp, NEW g \in Nat,
           Fits(h, rc, hp, g), h.pc = "reload", NEW word \in Words,
           NEW v \in {rc[word], h.regs[word]}
    PROVE  Fits(After(h, word, [h.regs EXCEPT ![word] = v], "trim"), rc, hp, g)
<1> DEFINE regs == [h.regs EXCEPT ![word] = v]
           a == After(h, word, regs, "trim")
<1>1. h.regs = rc /\ h.code = g /\ g > 0 /\ g > Kept /\ Lists(hp, rc, Least(g - 1) + 1, g)
  BY DEF Fits
<1>2. regs \in Slices /\ \A other \in Words : regs[other] = rc[other]
  BY <1>1 DEF Slices, Words
<1>3. regs = rc
  BY <1>2, SameSlice
<1> HIDE DEF regs
<1>4. a.code = h.code /\ a.regs = regs /\ a.pc \in {"reload", "trim"}
  BY AfterParts DEF Pcs
<1> HIDE DEF a
<1>5. Fits(a, rc, hp, g)
  BY <1>1, <1>3, <1>4 DEF Fits
<1> QED
  BY <1>5 DEF a, regs

\* One cell further on, the list ends with the same code.
LEMMA TrimFits ==
    ASSUME NEW h \in Handlers, NEW rc \in Slices, NEW hp, NEW g \in Nat,
           Fits(h, rc, hp, g), h.pc = "trim"
    PROVE  /\ h.regs.length >= Kept
           /\ \A a : a.code = h.code /\ a.pc = "restore" /\ a.regs = Trimmed(h.regs)
                        /\ a.todo = Words => Fits(a, rc, hp, g)
<1> DEFINE r == h.regs
           t == Trimmed(r)
<1>1. /\ r = rc /\ h.code = g /\ g > 0 /\ g > Kept
      /\ r.length = Least(g - 1) + 1 /\ Backed(hp, r) /\ Ends(hp, r, Least(g - 1) + 1, g)
  BY DEF Fits, Lists
<1>2. Least(g - 1) = Kept /\ Kept \in Nat
  BY <1>1, RecentAssumption DEF Least
<1>3. r.length = Kept + 1 /\ Ends(hp, r, Kept + 1, g)
  BY <1>1, <1>2
<1>4. r \in Slices
  BY <1>1
<1>5. /\ t.array = <<r.array[1], r.array[2] + 1>> /\ t.length = Kept /\ t.capacity = r.capacity - 1
  BY <1>2, <1>3, <1>4 DEF Trimmed, Slice, Nth, Slices
<1> HIDE DEF t
<1>6. \A i \in Nat : Nth(t, i) = Nth(r, i + 1)
  BY <1>4, <1>5 DEF Nth, Slices
<1>7. Backed(hp, t)
  <2>1. t.length <= t.capacity /\ t.capacity \in Int
    BY <1>1, <1>2, <1>3, <1>4, <1>5 DEF Backed, Slices
  <2>2. ASSUME NEW i \in 1 .. t.capacity PROVE Cell(hp, Nth(t, i))
    <3>1. i + 1 \in 1 .. r.capacity /\ i \in Nat
      BY <1>4, <1>5, <2>1 DEF Slices
    <3>2. Cell(hp, Nth(r, i + 1))
      BY <1>1, <3>1 DEF Backed
    <3> QED
      BY <1>6, <3>1, <3>2
  <2> QED
    BY <2>1, <2>2 DEF Backed
<1>8. Ends(hp, t, Kept, g)
  <2> SUFFICES ASSUME NEW i \in 1 .. Kept PROVE Value(hp, Nth(t, i)) = g - Kept + i
    BY DEF Ends
  <2>1. i + 1 \in 1 .. Kept + 1 /\ i \in Nat
    BY <1>2
  <2>2. Value(hp, Nth(r, i + 1)) = g - (Kept + 1) + (i + 1)
    BY <1>3, <2>1 DEF Ends
  <2>3. Value(hp, Nth(t, i)) = Value(hp, Nth(r, i + 1))
    BY <1>6, <2>1
  <2>4. g - (Kept + 1) + (i + 1) = g - Kept + i
    BY <1>2, <2>1
  <2> QED
    BY <2>2, <2>3, <2>4
<1>9. Lists(hp, t, Kept, g)
  BY <1>5, <1>7, <1>8 DEF Lists
<1>10. ASSUME NEW a, a.code = h.code, a.pc = "restore", a.regs = t, a.todo = Words
       PROVE  Fits(a, rc, hp, g)
  BY <1>1, <1>9, <1>10 DEF Fits, Agree
<1> QED
  BY <1>2, <1>3, <1>10 DEF t

LEMMA RestoreWordFits ==
    ASSUME NEW h \in Handlers, NEW rc \in Slices, NEW hp, NEW g \in Nat,
           Fits(h, rc, hp, g), h.pc = "restore", NEW word \in h.todo \cap Words,
           NEW a \in Handlers, a = After(h, word, h.regs, "idle"),
           NEW rd, rd = [rc EXCEPT ![word] = h.regs[word]]
    PROVE  /\ a.pc # "idle" => Fits(a, rd, hp, g)
           /\ a.pc = "idle" => Lists(hp, rd, Least(g), g)
<1> DEFINE r == h.regs
<1>1. h.code = g /\ g > 0 /\ g > Kept /\ Lists(hp, r, Kept, g) /\ Agree(h, rc)
  BY DEF Fits
<1>2. r \in Slices
  BY DEF Handlers
<1>3. /\ rd \in Slices /\ rd[word] = r[word]
      /\ \A other \in Words \ {word} : rd[other] = rc[other]
  BY <1>2 DEF Slices, Words
<1>4. \A other \in Words \ (h.todo \ {word}) : r[other] = rd[other]
  BY <1>1, <1>3 DEF Agree
<1>5. CASE h.todo \ {word} # {}
  <2>1. a.code = g /\ a.pc = "restore" /\ a.regs = r /\ a.todo = h.todo \ {word}
    <3>1. a = [h EXCEPT !.regs = r, !.todo = h.todo \ {word}]
      BY <1>5 DEF After
    <3> QED
      BY <1>1, <3>1 DEF Handlers
  <2>2. Fits(a, rd, hp, g)
    BY <1>1, <1>4, <2>1 DEF Fits, Agree
  <2> QED
    BY <2>1, <2>2
<1>6. CASE h.todo \ {word} = {}
  <2>1. a.pc = "idle"
    BY <1>6 DEF After, Free
  <2>2. \A other \in Words : r[other] = rd[other]
    BY <1>4, <1>6
  <2>4. r = rd
    BY <1>2, <1>3, <2>2, SameSlice
  <2>3. Least(g) = Kept
    BY <1>1, RecentAssumption DEF Least
  <2> QED
    BY <1>1, <2>1, <2>3, <2>4
<1> QED
  BY <1>5, <1>6

\* A step of the one handler that is under way keeps it so, or ends it.
LEMMA SerialStep ==
    ASSUME SerialInv, NEW w \in Workers, handler[w].pc # "idle",
           \A v \in Workers \ {w} : handler'[v] = handler[v],
           racing' = racing,
           Serial /\ Fits(handler[w], recentCodes, heap, given) =>
               /\ handler'[w].pc # "idle" => Fits(handler'[w], recentCodes', heap', given')
               /\ handler'[w].pc = "idle" => Lists(heap', recentCodes', Least(given'), given')
    PROVE  SerialInv'
<1> SUFFICES ASSUME Serial'
             PROVE  /\ \A u, v \in Appending' : u = v
                    /\ \A v \in Appending' : Fits(handler'[v], recentCodes', heap', given')
                    /\ Appending' = {} => Lists(heap', recentCodes', Least(given'), given')
  BY DEF SerialInv
<1>1. Serial
  BY DEF Serial
<1>2. w \in Appending /\ \A v \in Appending : v = w
  BY <1>1 DEF SerialInv, Appending
<1>3. Fits(handler[w], recentCodes, heap, given)
  BY <1>1, <1>2 DEF SerialInv
<1>4. \A v \in Appending' : v = w
  BY <1>2 DEF Appending
<1>5. handler'[w].pc # "idle" <=> w \in Appending'
  BY DEF Appending
<1> QED
  BY <1>1, <1>3, <1>4, <1>5

LEMMA BeginSerial == ASSUME IInv, SerialInv, NEW w \in Workers, Begin(w) PROVE SerialInv'
<1> SUFFICES ASSUME Serial' PROVE SerialInv'
  BY DEF SerialInv
<1> DEFINE h == [pc |-> "load", code |-> given + 1, regs |-> Free.regs, todo |-> Words]
<1>1. /\ handler' = [handler EXCEPT ![w] = h] /\ given' = given + 1 /\ At(w, "idle")
      /\ racing' = racing + IF Serial /\ Appending = {} THEN 0 ELSE 1
      /\ UNCHANGED <<recentCodes, heap>>
  BY DEF Begin
<1>2. Serial /\ Appending = {}
  BY <1>1 DEF IInv, TypeOK, Serial
<1>3. Lists(heap, recentCodes, Least(given), given)
  BY <1>2 DEF SerialInv
<1>4. given \in Nat
  BY RecentAssumption DEF IInv, TypeOK
<1>5. handler'[w] = h /\ \A v \in Workers \ {w} : handler'[v] = handler[v]
  BY <1>1 DEF IInv, TypeOK
<1>6. h.code = given + 1 /\ h.pc = "load" /\ h.todo = Words
  OBVIOUS
<1> HIDE DEF h
<1>7. Fits(h, recentCodes, heap, given + 1)
  BY <1>3, <1>4, <1>6 DEF Fits, Agree
<1>8. Appending' = {w}
  BY <1>2, <1>5, <1>6 DEF Appending
<1>9. Fits(handler'[w], recentCodes', heap', given')
  BY <1>1, <1>5, <1>7
<1> QED
  BY <1>8, <1>9 DEF SerialInv

LEMMA DoneParts ==
    ASSUME IInv, NEW w \in Workers, NEW word, NEW regs, NEW next, Done(w, word, regs, next)
    PROVE  /\ handler'[w] = After(handler[w], word, regs, next)
           /\ \A v \in Workers \ {w} : handler'[v] = handler[v]
BY DEF IInv, TypeOK, Done

LEMMA GotoParts ==
    ASSUME IInv, NEW w \in Workers, NEW pc, NEW regs, NEW todo, Goto(w, pc, regs, todo)
    PROVE  /\ handler'[w].code = handler[w].code /\ handler'[w].pc = pc
           /\ handler'[w].regs = regs /\ handler'[w].todo = todo
           /\ \A v \in Workers \ {w} : handler'[v] = handler[v]
BY DEF IInv, TypeOK, Goto, Handlers

LEMMA AppendStepSerial ==
    ASSUME IInv, IInv', SerialInv, NEW w \in Workers, AppendStep(w)
    PROVE  SerialInv'
<1> DEFINE h == handler[w]
<1>1. h \in Handlers /\ h.regs \in Slices /\ recentCodes \in Slices /\ heap \in Heaps
  BY DEF IInv, TypeOK, Handlers, Heaps
<1>2. given \in 0 .. MaxCodes /\ given \in Nat /\ handler'[w] \in Handlers
  BY RecentAssumption DEF IInv, TypeOK
<1>3. UNCHANGED <<given, racing>>
  BY DEF AppendStep, Grow, StoreCell, Check, Trim, LoadWord, StoreWord, ReloadWord, RestoreWord
<1>4. \A c : HasCell(c) = Cell(heap, c) /\ Load(c) = Value(heap, c)
  BY DEF HasCell, Cell, Load, Value
<1>5. CASE Grow(w)
  <2> DEFINE s == h.regs
             size == IF s.length + 1 > 2 * s.capacity THEN s.length + 1 ELSE 2 * s.capacity
             old == [i \in 1 .. size |-> IF i <= s.length THEN Load(Nth(s, i)) ELSE NoCode]
             new == [i \in 1 .. size |-> IF i <= s.length THEN Value(heap, Nth(s, i)) ELSE NoCode]
  <2>1. old = new
    BY <1>4
  <2>2. /\ h.pc = "grow" /\ UNCHANGED recentCodes
        /\ \/ /\ s.length < s.capacity
              /\ Goto(w, "store", [s EXCEPT !.length = @ + 1], {"length", "cell"})
              /\ heap' = heap
           \/ /\ heap' = Append(heap, old)
              /\ Goto(w, "store", Slice(<<Len(heap) + 1, 0>>, s.length + 1, size),
                      Words \cup {"cell"})
    BY <1>5 DEF Grow, At
  <2> HIDE DEF old
  <2>3. /\ handler'[w].code = h.code /\ handler'[w].pc = "store"
        /\ \A v \in Workers \ {w} : handler'[v] = handler[v]
        /\ \/ /\ s.length < s.capacity /\ heap' = heap
              /\ handler'[w].regs = [s EXCEPT !.length = @ + 1]
              /\ handler'[w].todo = {"length", "cell"}
           \/ /\ heap' = Append(heap, new)
              /\ handler'[w].regs = Slice(<<Len(heap) + 1, 0>>, s.length + 1, size)
              /\ handler'[w].todo = Words \cup {"cell"}
    <3>1. CASE /\ s.length < s.capacity
               /\ Goto(w, "store", [s EXCEPT !.length = @ + 1], {"length", "cell"})
               /\ heap' = heap
      BY <3>1, GotoParts
    <3>2. CASE /\ heap' = Append(heap, old)
               /\ Goto(w, "store", Slice(<<Len(heap) + 1, 0>>, s.length + 1, size),
                       Words \cup {"cell"})
      <4>1. heap' = Append(heap, new)
        BY <2>1, <3>2
      <4> HIDE DEF new, size
      <4> QED
        BY <3>2, <4>1, GotoParts
    <3> QED
      BY <2>2, <3>1, <3>2
  <2>4. Fits(h, recentCodes, heap, given) => Fits(handler'[w], recentCodes, heap', given)
    BY <1>1, <1>2, <2>2, <2>3, GrowFits
  <2> QED
    BY <1>3, <2>2, <2>3, <2>4, SerialStep
<1>6. CASE StoreCell(w)
  <2>1. /\ h.pc = "store" /\ "cell" \in h.todo /\ UNCHANGED recentCodes
        /\ heap' = LET c == Nth(h.regs, h.regs.length)
                   IN  IF Cell(heap, c) THEN [heap EXCEPT ![c[1]][c[2]] = h.code] ELSE heap
        /\ Done(w, "cell", h.regs, "check")
    BY <1>4, <1>6 DEF StoreCell, At
  <2>2. /\ handler'[w] = After(h, "cell", h.regs, "check")
        /\ \A v \in Workers \ {w} : handler'[v] = handler[v]
    BY <2>1, DoneParts
  <2>3. handler'[w].pc # "idle"
    BY <1>1, <2>1, <2>2, AfterParts DEF Pcs
  <2>4. Fits(h, recentCodes, heap, given) => Fits(handler'[w], recentCodes, heap', given)
    BY <1>1, <1>2, <2>1, <2>2, StoreCellFits
  <2> QED
    BY <1>3, <2>1, <2>2, <2>3, <2>4, SerialStep
<1>7. CASE Check(w)
  <2>1. PICK n \in {recentCodes.length, h.regs.length} :
           /\ h.pc = "check" /\ UNCHANGED <<recentCodes, heap>>
           /\ IF TooLong(n) THEN Goto(w, "reload", h.regs, Words)
              ELSE handler' = [handler EXCEPT ![w] = Free]
    BY <1>7 DEF Check, At
  <2>2. CASE TooLong(n)
    <3>1. /\ handler'[w].code = h.code /\ handler'[w].pc = "reload" /\ handler'[w].regs = h.regs
          /\ \A v \in Workers \ {w} : handler'[v] = handler[v]
      BY <2>1, <2>2, GotoParts
    <3>2. Fits(h, recentCodes, heap, given) => Fits(handler'[w], recentCodes, heap, given)
      BY <1>1, <1>2, <2>1, <2>2, <3>1, CheckFits
    <3> QED
      BY <1>3, <2>1, <3>1, <3>2, SerialStep
  <2>3. CASE ~TooLong(n)
    <3>1. handler'[w] = Free /\ \A v \in Workers \ {w} : handler'[v] = handler[v]
      BY <2>1, <2>3 DEF IInv, TypeOK
    <3>2. handler'[w].pc = "idle"
      BY <3>1 DEF Free
    <3>3. Fits(h, recentCodes, heap, given) => Lists(heap, recentCodes, Least(given), given)
      BY <1>1, <1>2, <2>1, <2>3, CheckFits
    <3> QED
      BY <1>3, <2>1, <3>1, <3>2, <3>3, SerialStep
  <2> QED
    BY <2>2, <2>3
<1>8. CASE Trim(w)
  <2>1. /\ h.pc = "trim" /\ UNCHANGED <<recentCodes, heap>>
        /\ h.regs.length >= Kept => Goto(w, "restore", Trimmed(h.regs), Words)
        /\ h.regs.length < Kept => handler' = [handler EXCEPT ![w] = Free]
    <3>1. h.regs.length \in Nat /\ Kept \in Nat
      BY <1>1, RecentAssumption DEF Slices
    <3> QED
      BY <1>8, <3>1 DEF Trim, At
  <2>2. \A v \in Workers \ {w} : handler'[v] = handler[v]
    BY <1>8, GotoParts DEF Trim, IInv, TypeOK
  <2>3. Fits(h, recentCodes, heap, given) =>
           handler'[w].pc = "restore" /\ Fits(handler'[w], recentCodes, heap, given)
    BY <1>1, <1>2, <2>1, GotoParts, TrimFits
  <2> QED
    BY <1>3, <2>1, <2>2, <2>3, SerialStep
<1>9. ASSUME NEW word \in Words, LoadWord(w, word) PROVE SerialInv'
  <2>1. /\ h.pc = "load" /\ word \in h.todo \cap Words /\ UNCHANGED <<recentCodes, heap>>
        /\ Done(w, word, [h.regs EXCEPT ![word] = recentCodes[word]], "grow")
    BY <1>9 DEF LoadWord, At
  <2>2. /\ handler'[w] = After(h, word, [h.regs EXCEPT ![word] = recentCodes[word]], "grow")
        /\ \A v \in Workers \ {w} : handler'[v] = handler[v]
    BY <2>1, DoneParts
  <2>3. handler'[w].pc # "idle"
    BY <1>1, <2>1, <2>2, AfterParts DEF Pcs
  <2>4. Fits(h, recentCodes, heap, given) => Fits(handler'[w], recentCodes, heap, given)
    BY <1>1, <1>2, <2>1, <2>2, LoadFits
  <2> QED
    BY <1>3, <2>1, <2>2, <2>3, <2>4, SerialStep
<1>10. ASSUME NEW word \in Words, StoreWord(w, word) PROVE SerialInv'
  <2>1. /\ h.pc = "store" /\ word \in h.todo \cap Words /\ UNCHANGED heap
        /\ recentCodes' = [recentCodes EXCEPT ![word] = h.regs[word]]
        /\ Done(w, word, h.regs, "check")
    BY <1>10 DEF StoreWord, At
  <2>2. /\ handler'[w] = After(h, word, h.regs, "check")
        /\ \A v \in Workers \ {w} : handler'[v] = handler[v]
    BY <2>1, DoneParts
  <2>3. handler'[w].pc # "idle"
    BY <1>1, <2>1, <2>2, AfterParts DEF Pcs
  <2>4. Fits(h, recentCodes, heap, given) => Fits(handler'[w], recentCodes', heap, given)
    BY <1>1, <1>2, <2>1, <2>2, StoreWordFits
  <2> QED
    BY <1>3, <2>1, <2>2, <2>3, <2>4, SerialStep
<1>11. ASSUME NEW word \in Words, ReloadWord(w, word) PROVE SerialInv'
  <2>1. PICK v \in {recentCodes[word], h.regs[word]} :
           Done(w, word, [h.regs EXCEPT ![word] = v], "trim")
    BY <1>11 DEF ReloadWord
  <2>2. h.pc = "reload" /\ UNCHANGED <<recentCodes, heap>>
    BY <1>11 DEF ReloadWord, At
  <2>3. /\ handler'[w] = After(h, word, [h.regs EXCEPT ![word] = v], "trim")
        /\ \A u \in Workers \ {w} : handler'[u] = handler[u]
    BY <2>1, DoneParts
  <2>4. handler'[w].pc # "idle"
    BY <1>1, <2>2, <2>3, AfterParts DEF Pcs
  <2>5. Fits(h, recentCodes, heap, given) => Fits(handler'[w], recentCodes, heap, given)
    <3> SUFFICES ASSUME Fits(h, recentCodes, heap, given)
                 PROVE  Fits(After(h, word, [h.regs EXCEPT ![word] = v], "trim"),
                             recentCodes, heap, given)
      BY <2>3
    <3> HIDE DEF h
    <3> QED
      BY <1>1, <1>2, <2>2, ReloadWordFits
  <2> QED
    BY <1>3, <2>2, <2>3, <2>4, <2>5, SerialStep
<1>12. ASSUME NEW word \in Words, RestoreWord(w, word) PROVE SerialInv'
  <2>1. /\ h.pc = "restore" /\ word \in h.todo \cap Words /\ UNCHANGED heap
        /\ recentCodes' = [recentCodes EXCEPT ![word] = h.regs[word]]
        /\ Done(w, word, h.regs, "idle")
    BY <1>12 DEF RestoreWord, At
  <2>2. /\ handler'[w] = After(h, word, h.regs, "idle")
        /\ \A v \in Workers \ {w} : handler'[v] = handler[v]
    BY <2>1, DoneParts
  <2>3. Fits(h, recentCodes, heap, given) =>
           /\ handler'[w].pc # "idle" => Fits(handler'[w], recentCodes', heap, given)
           /\ handler'[w].pc = "idle" => Lists(heap, recentCodes', Least(given), given)
    BY <1>1, <1>2, <2>1, <2>2, RestoreWordFits
  <2> QED
    BY <1>3, <2>1, <2>2, <2>3, SerialStep
<1> QED
  BY <1>5, <1>6, <1>7, <1>8, <1>9, <1>10, <1>11, <1>12 DEF AppendStep

LEMMA SerialInit == ASSUME Init PROVE SerialInv
<1>1. Appending = {} /\ recentCodes = Slice(<<0, 0>>, 0, 0) /\ given = 0
  BY DEF Init, Appending, Free
<1>2. Least(0) = 0
  BY RecentAssumption DEF Least
<1>3. Lists(heap, recentCodes, Least(given), given)
  BY <1>1, <1>2 DEF Lists, Slice, Backed, Ends
<1> QED
  BY <1>1, <1>3 DEF SerialInv

LEMMA SerialNext == ASSUME IInv, SerialInv, [Next]_vars PROVE SerialInv'
<1>1. IInv'
  BY NextInv
<1>2. CASE UNCHANGED vars \/ StartPage \/ NextCode \/ ListCode
  <2>1. UNCHANGED <<recentCodes, heap, handler, given, racing>>
    BY <1>2 DEF vars, StartPage, NextCode, ListCode
  <2> QED
    BY <2>1 DEF SerialInv, Serial, Appending
<1>3. ASSUME NEW w \in Workers, Begin(w) \/ AppendStep(w) PROVE SerialInv'
  BY <1>1, <1>3, BeginSerial, AppendStepSerial
<1> QED
  BY <1>2, <1>3 DEF Next

\* Appends that never overlap keep the latest codes in the list: through arrays
\* that are grown, cells written in place and slices that are trimmed, and with
\* any limit (append and the trim of handleGenerate and handleSetupTOTP).
THEOREM ListsLatest == Spec => []SerialList
<1>1. Init => SerialInv
  BY SerialInit
<1>2. IInv /\ SerialInv /\ [Next]_vars => SerialInv'
  BY SerialNext
<1>3. IInv /\ SerialInv => SerialList
  <2> SUFFICES ASSUME IInv, SerialInv, Serial, Appending = {} PROVE Codes = LatestKept
    BY DEF SerialList
  <2> DEFINE n == Least(given)
  <2>1. recentCodes.length = n /\ Ends(heap, recentCodes, n, given)
    BY DEF SerialInv, Lists
  <2>2. \A i \in 1 .. n : Load(Nth(recentCodes, i)) = given - n + i
    BY <2>1 DEF Ends, Load, Value, HasCell, Cell
  <2>3. LatestKept = [i \in 1 .. n |-> given - n + i]
    BY DEF LatestKept, Latest, Least
  <2>4. Codes = [i \in 1 .. n |-> Load(Nth(recentCodes, i))]
    BY <2>1 DEF Codes
  <2> HIDE DEF n
  <2> QED
    BY <2>2, <2>3, <2>4
<1> QED
  BY <1>1, <1>2, <1>3, Invariance, PTL
  DEF Spec

-----------------------------------------------------------------------------
(* The page of the recent list *)

\* What a page has listed when it has come to the i-th of n codes.
ListedFrom(listed, n, i, g) ==
    /\ \A j \in 1 .. Len(listed) : listed[j] \in Public /\ listed[j] \in g - n + i + 1 .. g
    /\ \A j, k \in 1 .. Len(listed) : j < k => listed[j] > listed[k]
    /\ \A c \in Public : c \in g - n + i + 1 .. g => \E j \in 1 .. Len(listed) : listed[j] = c

\* A page that has met no append since it began reads a list that nobody writes.
QuietPage ==
    page.quiet =>
        /\ Appending = {}
        /\ page.pc # "panic"
        /\ page.i <= recentCodes.length
        /\ Len(page.listed) <= recentMax
        /\ page.pc = "cell" => Len(page.listed) < recentMax
        /\ page.pc = "shown" => page.i = 0 \/ Len(page.listed) = recentMax
        /\ Serial /\ page.pc \in {"next", "cell", "shown"} =>
              ListedFrom(page.listed, recentCodes.length, page.i, given)

LEMMA PageTypes ==
    ASSUME IInv
    PROVE  /\ page.listed \in Seq(Public) /\ page.i \in Nat /\ Len(page.listed) \in Nat
           /\ recentCodes.length \in Nat /\ given \in Nat /\ page.quiet \in BOOLEAN
BY DEF IInv, TypeOK, Slices

LEMMA StartQuiet == ASSUME IInv, StartPage PROVE QuietPage'
<1>1. /\ page' = [pc |-> "next", i |-> recentCodes.length, listed |-> <<>>,
                  quiet |-> Appending = {}]
      /\ UNCHANGED <<recentCodes, heap, handler, given, racing>>
  BY DEF StartPage
<1>2. /\ page'.pc = "next" /\ page'.i = recentCodes.length /\ page'.listed = <<>>
      /\ page'.quiet <=> Appending = {}
  BY <1>1
<1>3. Len(page'.listed) = 0 /\ recentMax \in Nat \ {0}
  BY <1>2, RecentAssumption
<1>4. Appending' = Appending /\ recentCodes'.length = recentCodes.length /\ given' = given
  BY <1>1 DEF Appending
<1>5. ListedFrom(page'.listed, recentCodes'.length, page'.i, given')
  BY <1>2, <1>3, <1>4, PageTypes DEF ListedFrom
<1> QED
  BY <1>2, <1>3, <1>4, <1>5, PageTypes DEF QuietPage

LEMMA NextQuiet == ASSUME IInv, QuietPage, NextCode PROVE QuietPage'
<1>1. /\ page.pc = "next" /\ UNCHANGED <<recentCodes, heap, handler, given, racing>>
      /\ page' = IF LoopEnds THEN [page EXCEPT !.pc = "shown"]
                 ELSE IF page.i > recentCodes.length THEN [page EXCEPT !.pc = "panic"]
                 ELSE [page EXCEPT !.pc = "cell"]
  BY DEF NextCode
<1>2. /\ page'.i = page.i /\ page'.listed = page.listed /\ page'.quiet = page.quiet
      /\ page'.pc = IF LoopEnds THEN "shown"
                    ELSE IF page.i > recentCodes.length THEN "panic" ELSE "cell"
  BY <1>1 DEF IInv, TypeOK
<1>3. SUFFICES ASSUME page.quiet PROVE QuietPage'
  BY <1>2 DEF QuietPage
<1>4. Appending' = Appending /\ Serial' = Serial
  BY <1>1 DEF Appending, Serial
<1>5. page'.pc # "panic"
  BY <1>2, <1>3, PageTypes DEF QuietPage
<1>6. recentMax \in Nat
  BY RecentAssumption
<1>7. /\ page'.pc = "cell" => Len(page.listed) < recentMax
      /\ page'.pc = "shown" => page.i = 0 \/ Len(page.listed) = recentMax
  BY <1>2, <1>3, <1>6, PageTypes DEF QuietPage, LoopEnds
<1> QED
  BY <1>1, <1>2, <1>3, <1>4, <1>5, <1>7 DEF QuietPage

\* One code, of a list that holds the latest ones.
LEMMA ListNext ==
    ASSUME NEW listed \in Seq(Public), NEW n \in Nat, NEW i \in 1 .. n, NEW g \in Nat,
           ListedFrom(listed, n, i, g), NEW code, code = g - n + i
    PROVE  ListedFrom(IF code \in Public THEN Append(listed, code) ELSE listed, n, i - 1, g)
<1> DEFINE m == Len(listed)
<1>1. m \in Nat /\ code \in Int /\ code <= g
  OBVIOUS
<1>2. \A c \in g - n + (i - 1) + 1 .. g : c = code \/ c \in g - n + i + 1 .. g
  OBVIOUS
<1>3. \A c \in g - n + i + 1 .. g : c \in g - n + (i - 1) + 1 .. g /\ c > code
  OBVIOUS
<1>4. CASE code \notin Public
  BY <1>2, <1>3, <1>4 DEF ListedFrom
<1>5. CASE code \in Public
  <2> DEFINE more == Append(listed, code)
  <2>1. /\ Len(more) = m + 1 /\ more[m + 1] = code
        /\ \A j \in 1 .. m : more[j] = listed[j]
    BY <1>5
  <2> HIDE DEF more, m
  <2>2. \A j \in 1 .. m + 1 : j \in 1 .. m \/ j = m + 1
    BY <1>1
  <2>3. \A j \in 1 .. m : listed[j] \in Public /\ listed[j] \in g - n + i + 1 .. g
    BY DEF ListedFrom, m
  <2>4. \A j \in 1 .. m + 1 : more[j] \in Public /\ more[j] \in g - n + (i - 1) + 1 .. g
    BY <1>1, <1>3, <1>5, <2>1, <2>2, <2>3
  <2>5. ASSUME NEW j \in 1 .. m + 1, NEW k \in 1 .. m + 1, j < k PROVE more[j] > more[k]
    <3>1. j \in 1 .. m
      BY <1>1, <2>5
    <3>2. CASE k \in 1 .. m
      BY <3>1, <3>2, <2>1, <2>5 DEF ListedFrom, m
    <3>3. CASE k = m + 1
      BY <3>1, <3>3, <2>1, <2>3, <1>3
    <3> QED
      BY <3>2, <3>3, <2>2
  <2>6. ASSUME NEW c \in Public, c \in g - n + (i - 1) + 1 .. g
        PROVE  \E j \in 1 .. m + 1 : more[j] = c
    <3>1. CASE c = code
      BY <3>1, <2>1, <1>1
    <3>2. CASE c \in g - n + i + 1 .. g
      <4>1. PICK j \in 1 .. m : listed[j] = c
        BY <3>2 DEF ListedFrom, m
      <4>2. j \in 1 .. m + 1
        BY <1>1
      <4> QED
        BY <4>1, <4>2, <2>1
    <3> QED
      BY <3>1, <3>2, <2>6, <1>2
  <2>7. ListedFrom(more, n, i - 1, g)
    BY <2>1, <2>4, <2>5, <2>6 DEF ListedFrom
  <2> QED
    BY <2>7, <1>5 DEF more
<1> QED
  BY <1>4, <1>5

LEMMA ListQuiet == ASSUME IInv, SerialInv, QuietPage, ListCode PROVE QuietPage'
<1> DEFINE code == Load(Nth(recentCodes, page.i))
           more == IF code \in Public THEN Append(page.listed, code) ELSE page.listed
<1>1. /\ page.pc = "cell" /\ UNCHANGED <<recentCodes, heap, handler, given, racing>>
      /\ page' = [page EXCEPT !.pc = "next", !.i = page.i - 1, !.listed = more]
  BY DEF ListCode
<1> HIDE DEF more
<1>2. /\ page'.i = page.i - 1 /\ page'.listed = more /\ page'.quiet = page.quiet
      /\ page'.pc = "next"
  BY <1>1 DEF IInv, TypeOK
<1>3. SUFFICES ASSUME page.quiet PROVE QuietPage'
  BY <1>2 DEF QuietPage
<1>4. Appending' = Appending /\ Serial' = Serial
  BY <1>1 DEF Appending, Serial
<1>5. /\ Appending = {} /\ page.i <= recentCodes.length /\ Len(page.listed) < recentMax
      /\ Serial => ListedFrom(page.listed, recentCodes.length, page.i, given)
  BY <1>1, <1>3 DEF QuietPage
<1>6. page.i \in 1 .. recentCodes.length /\ page.i - 1 <= recentCodes.length
  BY <1>1, <1>5, PageTypes DEF IInv, CellIsInPage
<1>7. Len(more) <= recentMax
  <2>1. Len(more) \in {Len(page.listed), Len(page.listed) + 1}
    BY PageTypes DEF more
  <2> QED
    BY <2>1, <1>5, RecentAssumption, PageTypes
<1>8. ASSUME Serial PROVE ListedFrom(more, recentCodes.length, page.i - 1, given)
  <2>1. Lists(heap, recentCodes, Least(given), given)
    BY <1>5, <1>8 DEF SerialInv
  <2>2. code = given - recentCodes.length + page.i
    BY <2>1, <1>6 DEF Lists, Ends, Load, Value, HasCell, Cell
  <2> HIDE DEF code
  <2> QED
    BY <2>2, <1>5, <1>6, <1>8, PageTypes, ListNext DEF more
<1> QED
  BY <1>1, <1>2, <1>3, <1>4, <1>5, <1>6, <1>7, <1>8 DEF QuietPage

LEMMA HandlerQuiet ==
    ASSUME IInv, QuietPage, NEW w \in Workers, Begin(w) \/ AppendStep(w)
    PROVE  QuietPage'
<1>1. CASE Begin(w)
  <2>1. page' = [page EXCEPT !.quiet = FALSE]
    BY <1>1 DEF Begin
  <2>2. ~page'.quiet
    BY <2>1 DEF IInv, TypeOK
  <2> QED
    BY <2>2 DEF QuietPage
<1>2. CASE AppendStep(w)
  <2>1. handler[w].pc # "idle" /\ UNCHANGED page
    BY <1>2
    DEF AppendStep, Grow, StoreCell, Check, Trim, LoadWord, StoreWord, ReloadWord, RestoreWord, At
  <2>2. Appending # {}
    BY <2>1 DEF Appending
  <2> QED
    BY <2>1, <2>2 DEF QuietPage
<1> QED
  BY <1>1, <1>2

\* A page that met no append since it began, while appends have not overlapped,
\* lists the latest public codes that are kept, newest first, as many as a page
\* holds; and it never runs out of the slice (the loop of handleIndex).
THEOREM PagesListLatest == Spec => []SerialPage
<1>1. Init => SerialInv /\ QuietPage
  <2> SUFFICES ASSUME Init PROVE QuietPage
    BY SerialInit
  <2>1. Appending = {} /\ page = NoPage /\ recentCodes.length = 0
    BY DEF Init, Appending, Free, Slice
  <2> QED
    BY <2>1, RecentAssumption DEF QuietPage, NoPage
<1>2. IInv /\ SerialInv /\ QuietPage /\ [Next]_vars => SerialInv' /\ QuietPage'
  <2> SUFFICES ASSUME IInv, SerialInv, QuietPage, [Next]_vars PROVE QuietPage'
    BY SerialNext
  <2>1. CASE UNCHANGED vars
    BY <2>1 DEF vars, QuietPage, Appending, Serial
  <2> QED
    BY <2>1, StartQuiet, NextQuiet, ListQuiet, HandlerQuiet DEF Next
<1>3. IInv /\ SerialInv /\ QuietPage => SerialPage
  <2> SUFFICES ASSUME IInv, SerialInv, QuietPage PROVE SerialPage
    OBVIOUS
  <2>1. page.pc = "panic" => ~page.quiet
    BY DEF QuietPage
  <2>2. ASSUME page.pc = "shown", page.quiet, Serial
        PROVE  LET latest == {c \in Public : \E i \in DOMAIN LatestKept : c = LatestKept[i]}
                   listed == page.listed
                   n == Len(listed)
               IN  /\ listed \in Seq(latest) /\ n <= recentMax
                   /\ \A j, k \in 1 .. n : j < k => listed[j] > listed[k]
                   /\ \A c \in latest \ {listed[j] : j \in 1 .. n} :
                         n = recentMax /\ \A j \in 1 .. n : listed[j] > c
    <3> DEFINE m == Least(given)
               listed == page.listed
               n == Len(listed)
               i == page.i
               latest == {c \in Public : \E k \in DOMAIN LatestKept : c = LatestKept[k]}
    <3>1. /\ recentCodes.length = m /\ m \in Nat /\ given \in Nat /\ i \in Nat /\ i <= m
          /\ listed \in Seq(Public) /\ n \in Nat /\ n <= recentMax
          /\ i = 0 \/ n = recentMax
          /\ ListedFrom(listed, m, i, given)
      BY <2>2, PageTypes DEF QuietPage, SerialInv, Lists
    <3>2. LatestKept = [k \in 1 .. m |-> given - m + k]
      BY DEF LatestKept, Latest, Least
    <3> HIDE DEF m, i, listed
    <3>3. \A c \in Public : c \in latest <=> c \in given - m + 1 .. given
      <4> TAKE c \in Public
      <4>1. ASSUME c \in given - m + 1 .. given PROVE c \in latest
        <5>1. c - (given - m) \in 1 .. m /\ c = given - m + (c - (given - m))
          BY <4>1, <3>1
        <5> QED
          BY <5>1, <3>2
      <4>2. ASSUME c \in latest PROVE c \in given - m + 1 .. given
        BY <4>2, <3>1, <3>2
      <4> QED
        BY <4>1, <4>2
    <3> HIDE DEF latest
    <3>4. \A j \in 1 .. n : listed[j] \in latest /\ listed[j] \in given - m + i + 1 .. given
      BY <3>1, <3>3 DEF ListedFrom
    <3>5. listed \in Seq(latest)
      BY <3>1, <3>4
    <3>6. ASSUME NEW c \in latest, \A j \in 1 .. n : listed[j] # c
          PROVE  n = recentMax /\ \A j \in 1 .. n : listed[j] > c
      <4>1. c \in Public
        BY DEF latest
      <4>2. c \in given - m + 1 .. given /\ c \notin given - m + i + 1 .. given
        BY <3>1, <3>3, <3>6, <4>1 DEF ListedFrom
      <4>3. i # 0 /\ c <= given - m + i
        BY <3>1, <4>2
      <4> QED
        BY <3>1, <3>4, <4>2, <4>3
    <3>7. \A j, k \in 1 .. n : j < k => listed[j] > listed[k]
      BY <3>1 DEF ListedFrom
    <3> QED
      BY <3>1, <3>5, <3>6, <3>7 DEF latest, listed
  <2> QED
    BY <2>1, <2>2 DEF SerialPage
<1> QED
  BY <1>1, <1>2, <1>3, Invariance, PTL DEF Spec
=============================================================================
