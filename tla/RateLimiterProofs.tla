------------------------- MODULE RateLimiterProofs -------------------------
(***************************************************************************)
(* For every set of keys, every limit, every window and every bound on the *)
(* clock: the limiter of RateLimiter.tla keeps its invariant and           *)
(* implements the sliding window of SlidingWindow.tla.                     *)
(***************************************************************************)
EXTENDS RateLimiter, FiniteSetTheorems, TLAPS

\* Attempts are kept for a finite set, so the lemmas on Cardinality apply.
LEMMA AttemptsFinite ==
    ASSUME FiniteHistory, AttemptsCoverWindow, NEW k \in Keys
    PROVE  /\ IsFiniteSet(attempts[k])
           /\ IsFiniteSet(granted[k])
           /\ IsFiniteSet(Valid(attempts[k]))
           /\ IsFiniteSet(Valid(granted[k]))
           /\ Valid(attempts[k]) \subseteq attempts[k]
<1>1. IsFiniteSet(granted[k])
  BY DEF FiniteHistory
<1>2. attempts[k] \subseteq granted[k]
  BY DEF AttemptsCoverWindow
<1>3. Valid(attempts[k]) \subseteq attempts[k] /\ Valid(granted[k]) \subseteq granted[k]
  BY DEF Valid
<1> QED
  BY <1>1, <1>2, <1>3, FS_Subset

\* What Allow counts are exactly the grants that are young enough.
LEMMA ValidIsRecent ==
    ASSUME AttemptsCoverWindow, NEW k \in Keys
    PROVE  Valid(attempts[k]) = Valid(granted[k])
BY DEF AttemptsCoverWindow, Valid

\* The record Allow appends is an attempt of now.
LEMMA NewAttemptType ==
    ASSUME TypeOK, NEW S, IsFiniteSet(S)
    PROVE  /\ NewAttempt(S) \in Attempt
           /\ NewAttempt(S).at = now
           /\ NewAttempt(S).n = 1 + Cardinality({a \in S : a.at = now})
<1>1. IsFiniteSet({a \in S : a.at = now})
  BY FS_Subset
<1>2. Cardinality({a \in S : a.at = now}) \in Nat
  BY <1>1, FS_CardinalityType
<1> QED
  BY <1>2 DEF NewAttempt, Attempt, TypeOK

-----------------------------------------------------------------------------
LEMMA InitInv == ASSUME Init PROVE IInv
<1> USE LimiterAssumption DEF Init
<1>1. IsFiniteSet({}) /\ Cardinality({}) = 0
  BY FS_EmptySet
<1>2. TypeOK
  <2>1. answer \in [key : SUBSET Keys, allowed : BOOLEAN]
    BY DEF TypeOK
  <2>2. now \in 0 .. MaxTime /\ nextFire \in Nat
    OBVIOUS
  <2> QED
    BY <2>1, <2>2 DEF TypeOK
<1>3. FiniteHistory /\ AtMostMaxReqs
  BY <1>1 DEF FiniteHistory, AtMostMaxReqs
<1>4. NotFromFuture /\ AttemptsCoverWindow /\ Numbered /\ WindowBound
  BY DEF NotFromFuture, AttemptsCoverWindow, Numbered, WindowBound, Valid
<1> QED
  BY <1>2, <1>3, <1>4 DEF IInv

\* The clock only makes fewer attempts count.
LEMMA AdvanceInv == ASSUME IInv, Advance PROVE IInv'
<1> USE LimiterAssumption DEF Advance, limiterVars, loopVars, IInv
<1>1. TypeOK'
  BY DEF TypeOK
<1>2. FiniteHistory' /\ Numbered' /\ AtMostMaxReqs' /\ WindowBound'
  BY DEF FiniteHistory, Numbered, AtMostMaxReqs, WindowBound
<1>3. NotFromFuture'
  <2> SUFFICES ASSUME NEW k \in Keys, NEW g \in granted[k]
               PROVE  g.at <= now + 1
    BY DEF NotFromFuture
  <2>1. g.at <= now /\ g.at \in Int /\ now \in Int
    BY DEF NotFromFuture, TypeOK, Attempt
  <2> QED
    BY <2>1
<1>4. AttemptsCoverWindow'
  <2> SUFFICES ASSUME NEW k \in Keys, NEW g \in granted[k],
                      g.at > (now + 1) - Window
               PROVE  g \in attempts[k]
    BY DEF AttemptsCoverWindow, Valid
  <2>1. g.at \in Int /\ now \in Int
    BY DEF TypeOK, Attempt
  <2>2. g.at > now - Window
    BY <2>1
  <2> QED
    BY <2>2 DEF AttemptsCoverWindow, Valid
<1> QED
  BY <1>1, <1>2, <1>3, <1>4

\* Filtering removes all the attempts of an instant or none, so the numbers
\* stay without gaps.
LEMMA ValidNumbered ==
    ASSUME IInv, NEW k \in Keys, NEW a \in Valid(attempts[k])
    PROVE  a.n <= Cardinality({b \in Valid(attempts[k]) : b.at = a.at})
<1>1. {b \in Valid(attempts[k]) : b.at = a.at} = {b \in attempts[k] : b.at = a.at}
  BY DEF Valid
<1>2. a \in attempts[k]
  BY DEF Valid
<1> QED
  BY <1>1, <1>2 DEF IInv, Numbered

\* Trimming any set of keys to their valid attempts (Deny, cleanupOld)
\* preserves the invariant.
LEMMA TrimInv ==
    ASSUME IInv, NEW K \in SUBSET Keys,
           attempts' = [k \in Keys |->
               IF k \in K THEN Valid(attempts[k]) ELSE attempts[k]],
           UNCHANGED <<now, granted>>,
           answer' \in [key : SUBSET Keys, allowed : BOOLEAN],
           nextFire' \in Nat,
           tickPending' \in BOOLEAN, done' \in BOOLEAN, running' \in BOOLEAN
    PROVE  IInv'
<1> USE LimiterAssumption
<1>1. \A k \in Keys : Valid(attempts[k]) \subseteq attempts[k]
  BY DEF Valid
<1>2. TypeOK'
  BY <1>1 DEF IInv, TypeOK
<1>3. FiniteHistory' /\ NotFromFuture' /\ WindowBound'
  BY DEF IInv, FiniteHistory, NotFromFuture, WindowBound
<1>4. AttemptsCoverWindow'
  BY <1>1 DEF IInv, AttemptsCoverWindow, Valid
<1>5. Numbered'
  <2> SUFFICES ASSUME NEW k \in Keys, NEW a \in attempts'[k]
               PROVE  a.n <= Cardinality({b \in attempts'[k] : b.at = a.at})
    BY DEF Numbered
  <2>1. CASE k \in K
    BY <2>1, ValidNumbered
  <2>2. CASE k \notin K
    BY <2>2 DEF IInv, Numbered
  <2> QED
    BY <2>1, <2>2
<1>6. AtMostMaxReqs'
  <2> SUFFICES ASSUME NEW k \in Keys
               PROVE  Cardinality(attempts'[k]) <= MaxReqs
    BY DEF AtMostMaxReqs
  <2>1. IsFiniteSet(attempts[k]) /\ attempts'[k] \subseteq attempts[k]
    BY <1>1, AttemptsFinite DEF IInv
  <2>2. /\ Cardinality(attempts'[k]) <= Cardinality(attempts[k])
        /\ Cardinality(attempts'[k]) \in Nat
        /\ Cardinality(attempts[k]) \in Nat
    BY <2>1, FS_Subset, FS_CardinalityType
  <2> QED
    BY <2>2 DEF IInv, AtMostMaxReqs
<1> QED
  BY <1>2, <1>3, <1>4, <1>5, <1>6 DEF IInv

-----------------------------------------------------------------------------
\* A granted call is counted: its record is not in the history yet.
LEMMA NewAttemptIsNew ==
    ASSUME IInv, NEW k \in Keys
    PROVE  NewAttempt(Valid(attempts[k])) \notin granted[k]
<1> USE LimiterAssumption
<1> DEFINE valid == Valid(attempts[k])
           new == NewAttempt(valid)
           Now == {a \in valid : a.at = now}
<1> SUFFICES ASSUME new \in granted[k] PROVE FALSE
  OBVIOUS
<1>1. IsFiniteSet(valid)
  BY AttemptsFinite DEF IInv
<1>2. new.at = now /\ new.n = 1 + Cardinality(Now)
  BY <1>1, NewAttemptType DEF IInv
<1>3. new \in valid
  <2>1. now > now - Window
    BY DEF IInv, TypeOK
  <2>2. new \in Valid(granted[k])
    BY <1>2, <2>1 DEF Valid
  <2> QED
    BY <2>2, ValidIsRecent DEF IInv
<1>4. new.n <= Cardinality(Now)
  BY <1>2, <1>3, ValidNumbered
<1>5. Cardinality(Now) \in Nat
  BY <1>1, FS_Subset, FS_CardinalityType
<1> HIDE DEF new, Now
<1> QED
  BY <1>2, <1>4, <1>5

LEMMA GrantInv == ASSUME IInv, NEW k \in Keys, Grant(k) PROVE IInv'
<1> USE LimiterAssumption
<1> DEFINE valid == Valid(attempts[k])
           new == NewAttempt(valid)
<1>0. /\ Cardinality(valid) < MaxReqs
      /\ attempts' = [attempts EXCEPT ![k] = valid \cup {new}]
      /\ granted' = [granted EXCEPT ![k] = @ \cup {new}]
      /\ answer' = [key |-> {k}, allowed |-> TRUE]
      /\ UNCHANGED <<now, nextFire, tickPending, done, running>>
  BY DEF Grant, loopVars
<1>1. /\ IsFiniteSet(valid) /\ IsFiniteSet(granted[k])
      /\ valid \subseteq attempts[k] /\ valid = Valid(granted[k])
  BY AttemptsFinite, ValidIsRecent DEF IInv
<1>2. new \in Attempt /\ new.at = now /\ new.n = 1 + Cardinality({a \in valid : a.at = now})
  BY <1>1, NewAttemptType DEF IInv
<1>3. new \notin granted[k] /\ new \notin valid
  BY <1>1, NewAttemptIsNew DEF IInv, AttemptsCoverWindow
<1> HIDE DEF valid, new
<1>4. /\ IsFiniteSet(valid \cup {new}) /\ IsFiniteSet(granted[k] \cup {new})
      /\ Cardinality(valid \cup {new}) = Cardinality(valid) + 1
      /\ Cardinality(valid) \in Nat
  BY <1>1, <1>3, FS_AddElement, FS_CardinalityType
<1>T. attempts \in [Keys -> SUBSET Attempt] /\ granted \in [Keys -> SUBSET Attempt]
      /\ now \in 0 .. MaxTime /\ now \in Int
  BY DEF IInv, TypeOK
<1>5. /\ attempts'[k] = valid \cup {new} /\ granted'[k] = granted[k] \cup {new}
      /\ \A j \in Keys \ {k} : attempts'[j] = attempts[j] /\ granted'[j] = granted[j]
  BY <1>0, <1>T
<1>6. TypeOK'
  <2>1. attempts' \in [Keys -> SUBSET Attempt]
    BY <1>0, <1>1, <1>2, <1>T
  <2>2. granted' \in [Keys -> SUBSET Attempt]
    BY <1>0, <1>2, <1>T
  <2> QED
    BY <1>0, <2>1, <2>2 DEF IInv, TypeOK
<1>7. FiniteHistory'
  BY <1>4, <1>5 DEF IInv, FiniteHistory
<1>8. NotFromFuture'
  BY <1>0, <1>2, <1>5, <1>T DEF IInv, NotFromFuture
<1>9. AttemptsCoverWindow'
  <2> SUFFICES ASSUME NEW j \in Keys
               PROVE  /\ attempts'[j] \subseteq granted'[j]
                      /\ Valid(granted'[j]) \subseteq attempts'[j]
    BY <1>0 DEF AttemptsCoverWindow, Valid
  <2>1. CASE j = k
    BY <2>1, <1>1, <1>5 DEF IInv, AttemptsCoverWindow, Valid
  <2>2. CASE j # k
    BY <2>2, <1>5 DEF IInv, AttemptsCoverWindow
  <2> QED
    BY <2>1, <2>2
<1>10. Numbered'
  <2> SUFFICES ASSUME NEW j \in Keys, NEW a \in attempts'[j]
               PROVE  a.n <= Cardinality({b \in attempts'[j] : b.at = a.at})
    BY DEF Numbered
  <2>1. CASE j # k
    BY <2>1, <1>5 DEF IInv, Numbered
  <2>2. CASE j = k /\ a.at # now
    <3>1. a \in valid /\ {b \in attempts'[k] : b.at = a.at} = {b \in valid : b.at = a.at}
      BY <2>2, <1>2, <1>5
    <3> QED
      BY <2>2, <3>1, ValidNumbered DEF valid
  <2>3. CASE j = k /\ a.at = now
    <3> DEFINE Now == {b \in valid : b.at = now}
               Same == {b \in attempts'[j] : b.at = a.at}
    <3>1. Same = Now \cup {new}
      BY <2>3, <1>2, <1>5
    <3>2. IsFiniteSet(Now) /\ Cardinality(Now) \in Nat /\ new \notin Now
      BY <1>1, <1>3, FS_Subset, FS_CardinalityType
    <3>3. a.n <= Cardinality(Now) + 1
      <4>1. CASE a = new
        BY <4>1, <3>2, <1>2
      <4>2. CASE a \in valid
        <5>1. a.n <= Cardinality(Now)
          BY <2>3, <4>2, ValidNumbered DEF valid
        <5>2. a.n \in Nat
          BY <4>2, <1>1, <1>T DEF Attempt
        <5> HIDE DEF Now
        <5> QED
          BY <3>2, <5>1, <5>2
      <4> QED
        BY <2>3, <1>5, <4>1, <4>2
    <3> HIDE DEF Now
    <3>4. Cardinality(Same) = Cardinality(Now) + 1
      <4> HIDE DEF Same
      <4> QED
        BY <3>1, <3>2, FS_AddElement
    <3> QED
      BY <3>3, <3>4
  <2> QED
    BY <2>1, <2>2, <2>3
<1>11. AtMostMaxReqs'
  BY <1>0, <1>4, <1>5 DEF IInv, AtMostMaxReqs
<1>12. WindowBound'
  <2> SUFFICES ASSUME NEW j \in Keys, NEW g \in granted'[j]
               PROVE  Cardinality({h \in granted'[j] : g.at - Window < h.at /\ h.at <= g.at})
                        <= MaxReqs
    BY DEF WindowBound
  <2>1. CASE j # k
    BY <2>1, <1>5 DEF IInv, WindowBound
  <2>2. CASE j = k /\ g.at = now
    \* The window that ends now holds the attempts Allow has just counted.
    <3>1. {h \in granted'[j] : g.at - Window < h.at /\ h.at <= g.at} \subseteq valid \cup {new}
      BY <2>2, <1>1, <1>5, <1>T DEF Valid, Attempt
    <3> QED
      BY <3>1, <1>0, <1>4, FS_Subset, FS_CardinalityType
  <2>3. CASE j = k /\ g.at # now
    \* An earlier window does not hold the new attempt.
    <3>1. g \in granted[k] /\ g.at <= now /\ g.at \in Int
      BY <2>3, <1>2, <1>5, <1>T DEF IInv, NotFromFuture, Attempt
    <3>2. {h \in granted'[j] : g.at - Window < h.at /\ h.at <= g.at}
            = {h \in granted[k] : g.at - Window < h.at /\ h.at <= g.at}
      BY <2>3, <3>1, <1>2, <1>5, <1>T
    <3> QED
      BY <2>3, <3>1, <3>2 DEF IInv, WindowBound
  <2> QED
    BY <2>1, <2>2, <2>3
<1> QED
  BY <1>6, <1>7, <1>8, <1>9, <1>10, <1>11, <1>12 DEF IInv

LEMMA ResetInv == ASSUME IInv, NEW k \in Keys, Reset(k) PROVE IInv'
<1> USE LimiterAssumption DEF Reset, loopVars
<1>1. attempts \in [Keys -> SUBSET Attempt] /\ granted \in [Keys -> SUBSET Attempt]
  BY DEF IInv, TypeOK
<1>2. /\ attempts'[k] = {} /\ granted'[k] = {}
      /\ \A j \in Keys \ {k} : attempts'[j] = attempts[j] /\ granted'[j] = granted[j]
  BY <1>1
<1>3. TypeOK'
  BY <1>1 DEF IInv, TypeOK
<1>4. FiniteHistory' /\ AtMostMaxReqs'
  BY <1>2, FS_EmptySet DEF IInv, FiniteHistory, AtMostMaxReqs
<1>5. NotFromFuture' /\ AttemptsCoverWindow'
  BY <1>2 DEF IInv, NotFromFuture, AttemptsCoverWindow, Valid
<1>6. Numbered' /\ WindowBound'
  BY <1>2 DEF IInv, Numbered, WindowBound
<1> QED
  BY <1>3, <1>4, <1>5, <1>6 DEF IInv

\* The steps that touch no attempt: ticks, Stop and the end of the loop.
LEMMA LoopInv ==
    ASSUME IInv, TickerFires \/ Stop \/ LoopReturns
    PROVE  IInv'
<1> USE LimiterAssumption
<1>1. UNCHANGED <<now, attempts, granted, answer>>
  BY DEF TickerFires, Stop, LoopReturns, limiterVars
<1>2. nextFire' \in Nat
  <2>1. CASE TickerFires
    <3>1. now \in Nat /\ nextFire \in Nat /\ now - nextFire \in Nat
      BY <2>1 DEF IInv, TypeOK, TickerFires
    <3>2. (now - nextFire) \div Window \in Nat
      BY <3>1
    <3>3. \A m \in Nat : nextFire + Window * (1 + m) \in Nat
      BY <3>1
    <3> QED
      BY <2>1, <3>2, <3>3 DEF TickerFires
  <2>2. CASE Stop \/ LoopReturns
    BY <2>2 DEF IInv, TypeOK, Stop, LoopReturns
  <2> QED
    BY <2>1, <2>2
<1>3. tickPending' \in BOOLEAN /\ done' \in BOOLEAN /\ running' \in BOOLEAN
  BY DEF IInv, TypeOK, TickerFires, Stop, LoopReturns
<1>4. TypeOK'
  BY <1>1, <1>2, <1>3 DEF IInv, TypeOK
<1>5. FiniteHistory' /\ NotFromFuture' /\ AttemptsCoverWindow'
  BY <1>1 DEF IInv, FiniteHistory, NotFromFuture, AttemptsCoverWindow, Valid
<1>6. Numbered' /\ AtMostMaxReqs' /\ WindowBound'
  BY <1>1 DEF IInv, Numbered, AtMostMaxReqs, WindowBound
<1> QED
  BY <1>4, <1>5, <1>6 DEF IInv

LEMMA DenyInv == ASSUME IInv, NEW k \in Keys, Deny(k) PROVE IInv'
<1>1. attempts' = [j \in Keys |->
          IF j \in {k} THEN Valid(attempts[j]) ELSE attempts[j]]
  BY DEF Deny, IInv, TypeOK
<1>0. {k} \in SUBSET Keys
  OBVIOUS
<1>2. /\ UNCHANGED <<now, granted>>
      /\ answer' \in [key : SUBSET Keys, allowed : BOOLEAN]
      /\ nextFire' \in Nat /\ tickPending' \in BOOLEAN
      /\ done' \in BOOLEAN /\ running' \in BOOLEAN
  BY DEF Deny, loopVars, IInv, TypeOK
<1> QED
  BY <1>0, <1>1, <1>2, TrimInv

LEMMA CleanupOldInv == ASSUME IInv, CleanupOld PROVE IInv'
<1>1. attempts' = [j \in Keys |->
          IF j \in Keys THEN Valid(attempts[j]) ELSE attempts[j]]
  BY DEF CleanupOld
<1>2. /\ UNCHANGED <<now, granted>>
      /\ answer' \in [key : SUBSET Keys, allowed : BOOLEAN]
      /\ nextFire' \in Nat /\ tickPending' \in BOOLEAN
      /\ done' \in BOOLEAN /\ running' \in BOOLEAN
  BY DEF CleanupOld, IInv, TypeOK
<1> QED
  BY <1>1, <1>2, TrimInv

LEMMA NextInv == ASSUME IInv, [Next]_vars PROVE IInv'
<1>1. CASE Advance
  BY <1>1, AdvanceInv
<1>2. ASSUME NEW k \in Keys, Allow(k) PROVE IInv'
  BY <1>2, GrantInv, DenyInv DEF Allow
<1>3. ASSUME NEW k \in Keys, Reset(k) PROVE IInv'
  BY <1>3, ResetInv
<1>4. CASE TickerFires \/ Stop \/ LoopReturns
  BY <1>4, LoopInv
<1>5. CASE CleanupOld
  BY <1>5, CleanupOldInv
<1>6. CASE UNCHANGED vars
  <2> USE <1>6 DEF vars, limiterVars, loopVars
  <2>1. TypeOK' /\ FiniteHistory' /\ NotFromFuture' /\ AttemptsCoverWindow'
    BY DEF IInv, TypeOK, FiniteHistory, NotFromFuture, AttemptsCoverWindow, Valid
  <2>2. Numbered' /\ AtMostMaxReqs' /\ WindowBound'
    BY DEF IInv, Numbered, AtMostMaxReqs, WindowBound
  <2> QED
    BY <2>1, <2>2 DEF IInv
<1> QED
  BY <1>1, <1>2, <1>3, <1>4, <1>5, <1>6 DEF Next

-----------------------------------------------------------------------------
\* The inductive invariant: every reachable state of a limiter has it.
THEOREM Invariance == Spec => []IInv
<1>1. Init => IInv
  BY InitInv
<1>2. IInv /\ [Next]_vars => IInv'
  BY NextInv
<1> QED
  BY <1>1, <1>2, PTL DEF Spec

\* The limiter's state is always well formed (RateLimiter of ratelimit.go).
THEOREM TypeCorrect == Spec => []TypeOK
<1>1. IInv => TypeOK
  BY DEF IInv
<1> QED
  BY <1>1, Invariance, PTL

\* Neither Allow's filter nor cleanupOld ever drops an attempt that counts.
THEOREM CoverCorrect == Spec => []AttemptsCoverWindow
<1>1. IInv => AttemptsCoverWindow
  BY DEF IInv
<1> QED
  BY <1>1, Invariance, PTL

\* No window holds more than MaxReqs grants to one key: the limit of Allow.
THEOREM WindowBoundCorrect == Spec => []WindowBound
<1>1. IInv => WindowBound
  BY DEF IInv
<1> QED
  BY <1>1, Invariance, PTL

\* Remaining is never off, and its clamp at zero is never needed.
THEOREM RemainingCorrect == Spec => []RemainingIsExact
<1>1. IInv => RemainingIsExact
  <2> SUFFICES ASSUME IInv, NEW k \in Keys
               PROVE  Remaining(k) = MaxReqs - Cardinality(Valid(granted[k]))
    BY DEF RemainingIsExact
  <2>1. Valid(attempts[k]) = Valid(granted[k])
    BY ValidIsRecent DEF IInv
  <2>2. /\ Cardinality(Valid(attempts[k])) <= Cardinality(attempts[k])
        /\ Cardinality(Valid(attempts[k])) \in Nat
        /\ Cardinality(attempts[k]) \in Nat
    BY AttemptsFinite, FS_Subset, FS_CardinalityType DEF IInv
  <2>3. Cardinality(attempts[k]) <= MaxReqs
    BY DEF IInv, AtMostMaxReqs
  <2> QED
    BY <2>1, <2>2, <2>3, LimiterAssumption DEF Remaining
<1> QED
  BY <1>1, Invariance, PTL

-----------------------------------------------------------------------------
\* SlidingWindow counts with the Cardinality of its own instance.
LEMMA SameCardinality == \A S : SW!Cardinality(S) = Cardinality(S)
BY DEF Cardinality, SW!Cardinality

\* What the sliding window counts is what Allow counts.
LEMMA RecentIsValid ==
    ASSUME IInv, NEW k \in Keys
    PROVE  /\ SW!Recent(k) = Valid(attempts[k])
           /\ SW!Stamp(SW!Recent(k)) = NewAttempt(Valid(attempts[k]))
<1>1. SW!Recent(k) = Valid(granted[k])
  <2> SUFFICES ASSUME NEW g \in granted[k]
               PROVE  SW!InWindow(g, now) <=> g.at > now - Window
    BY DEF SW!Recent, Valid
  <2>1. g.at <= now /\ g.at \in Int /\ now \in Int /\ Window \in Int
    BY LimiterAssumption DEF IInv, NotFromFuture, TypeOK, Attempt
  <2> QED
    BY <2>1 DEF SW!InWindow
<1>2. Valid(granted[k]) = Valid(attempts[k])
  BY ValidIsRecent DEF IInv
<1>3. SW!Stamp(Valid(attempts[k])) = NewAttempt(Valid(attempts[k]))
  BY SameCardinality DEF SW!Stamp, NewAttempt
<1> QED
  BY <1>1, <1>2, <1>3

\* The limiter implements the sliding window: each of its steps is one of the
\* abstract ones or changes nothing a caller sees.
THEOREM Refinement == Spec => ImplementsSlidingWindow
<1>1. Init => SW!Init
  BY DEF Init, SW!Init
<1>2. IInv /\ [Next]_vars => [SW!Next]_(SW!vars)
  <2> SUFFICES ASSUME IInv, [Next]_vars PROVE [SW!Next]_(SW!vars)
    OBVIOUS
  <2>1. CASE Advance
    BY <2>1 DEF Advance, limiterVars, SW!Next, SW!Advance
  <2>2. ASSUME NEW k \in Keys, Grant(k) PROVE SW!Grant(k)
    BY <2>2, RecentIsValid, SameCardinality DEF Grant, SW!Grant
  <2>3. ASSUME NEW k \in Keys, Deny(k) PROVE SW!Deny(k)
    BY <2>3, RecentIsValid, SameCardinality DEF Deny, SW!Deny
  <2>4. ASSUME NEW k \in Keys, Reset(k) PROVE SW!Forget(k)
    BY <2>4 DEF Reset, SW!Forget
  <2>5. CASE TickerFires \/ CleanupOld \/ Stop \/ LoopReturns \/ UNCHANGED vars
    BY <2>5 DEF TickerFires, CleanupOld, Stop, LoopReturns, vars, limiterVars,
                SW!vars
  <2> QED
    BY <2>1, <2>2, <2>3, <2>4, <2>5 DEF Next, Allow, SW!Next
<1> QED
  BY <1>1, <1>2, Invariance, PTL DEF Spec, SW!Spec, ImplementsSlidingWindow
=============================================================================
