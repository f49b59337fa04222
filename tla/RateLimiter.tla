---------------------------- MODULE RateLimiter ----------------------------
(***************************************************************************)
(* One RateLimiter of ratelimit.go: the attempts it keeps per key, the     *)
(* calls that read and trim them under rl.mu, and the goroutine that       *)
(* cleans up on a ticker.  Every method holds rl.mu from its first to its  *)
(* last line and reads the clock inside, so each is one action.            *)
(*                                                                         *)
(* An attempt is a record [at, n]: time.Now() when it was recorded, and n, *)
(* which tells apart the attempts of one instant.  The order of the slice  *)
(* is that of at, so a set of such records loses nothing the code reads.   *)
(***************************************************************************)
EXTENDS Integers, FiniteSets

CONSTANTS Keys, MaxReqs, Window, MaxTime

ASSUME LimiterAssumption ==
    /\ MaxReqs \in Nat
    /\ Window \in Nat \ {0}         \* time.NewTicker panics on 0
    /\ MaxTime \in Nat              \* bound on the clock

VARIABLES
    now,            \* time.Now()
    attempts,       \* rl.attempts; a key that is absent maps to {}
    granted,        \* history: the attempts allowed since the last Reset
    answer,         \* what the latest Allow returned
    nextFire,       \* when rl.cleanup fires next
    tickPending,    \* a tick waits in rl.cleanup.C, a channel of capacity 1
    done,           \* rl.done has been closed
    running         \* the goroutine of cleanupLoop has not returned

limiterVars == <<attempts, granted, answer>>
loopVars == <<nextFire, tickPending, done, running>>
vars == <<now, limiterVars, loopVars>>

Attempt == [at : 0 .. MaxTime, n : Nat \ {0}]

TypeOK ==
    /\ now \in 0 .. MaxTime
    /\ attempts \in [Keys -> SUBSET Attempt]
    /\ granted \in [Keys -> SUBSET Attempt]
    /\ answer \in [key : SUBSET Keys, allowed : BOOLEAN]
    /\ nextFire \in Nat
    /\ tickPending \in BOOLEAN
    /\ done \in BOOLEAN
    /\ running \in BOOLEAN

\* t.After(cutoff), cutoff being now - window: strictly later.
Valid(S) == {a \in S : a.at > now - Window}

\* Mutant of NewAttempt: records the cutoff instead of the present.
NewAttemptAtCutoff(S) ==
    [at |-> now - Window, n |-> 1 + Cardinality({a \in S : a.at = now})]

\* The attempt appended by Allow to the attempts it has just filtered.
NewAttempt(S) == [at |-> now, n |-> 1 + Cardinality({a \in S : a.at = now})]

Init ==
    /\ now = 0
    /\ attempts = [k \in Keys |-> {}]
    /\ granted = [k \in Keys |-> {}]
    /\ answer = [key |-> {}, allowed |-> FALSE]
    /\ nextFire = Window
    /\ tickPending = FALSE
    /\ done = FALSE
    /\ running = TRUE

Advance ==
    /\ now < MaxTime
    /\ now' = now + 1
    /\ UNCHANGED <<limiterVars, loopVars>>

\* Mutant of Grant: one attempt too many.
GrantOneMore(k) ==
    LET valid == Valid(attempts[k])
    IN  /\ Cardinality(valid) <= MaxReqs
        /\ attempts' = [attempts EXCEPT ![k] = valid \cup {NewAttempt(valid)}]
        /\ granted' = [granted EXCEPT ![k] = @ \cup {NewAttempt(valid)}]
        /\ answer' = [key |-> {k}, allowed |-> TRUE]
        /\ UNCHANGED <<now, loopVars>>

\* Allow, under the limit: record the attempt.
Grant(k) ==
    LET valid == Valid(attempts[k])
    IN  /\ Cardinality(valid) < MaxReqs
        /\ attempts' = [attempts EXCEPT ![k] = valid \cup {NewAttempt(valid)}]
        /\ granted' = [granted EXCEPT ![k] = @ \cup {NewAttempt(valid)}]
        /\ answer' = [key |-> {k}, allowed |-> TRUE]
        /\ UNCHANGED <<now, loopVars>>

\* Mutant of Deny: counts the attempts it has not filtered.
DenyUnfiltered(k) ==
    /\ Cardinality(attempts[k]) >= MaxReqs
    /\ answer' = [key |-> {k}, allowed |-> FALSE]
    /\ UNCHANGED <<now, attempts, granted, loopVars>>

\* Allow, at the limit: keep what is still valid and refuse.
Deny(k) ==
    LET valid == Valid(attempts[k])
    IN  /\ Cardinality(valid) >= MaxReqs
        /\ attempts' = [attempts EXCEPT ![k] = valid]
        /\ answer' = [key |-> {k}, allowed |-> FALSE]
        /\ UNCHANGED <<now, granted, loopVars>>

Allow(k) == Grant(k) \/ Deny(k)

Reset(k) ==
    /\ attempts' = [attempts EXCEPT ![k] = {}]
    /\ granted' = [granted EXCEPT ![k] = {}]
    /\ UNCHANGED <<now, answer, loopVars>>

\* Mutant of Remaining: counts expired attempts too.
RemainingUnfiltered(k) ==
    LET left == MaxReqs - Cardinality(attempts[k])
    IN  IF left < 0 THEN 0 ELSE left

\* What Remaining(k) returns: it changes nothing.
Remaining(k) ==
    LET left == MaxReqs - Cardinality(Valid(attempts[k]))
    IN  IF left < 0 THEN 0 ELSE left

\* time.Ticker: a tick that finds the channel full is dropped, and a ticker
\* that fires late skips the periods it missed.
TickerFires ==
    /\ running
    /\ now >= nextFire
    /\ nextFire' = nextFire + Window * (1 + (now - nextFire) \div Window)
    /\ tickPending' = TRUE
    /\ UNCHANGED <<now, limiterVars, done, running>>

\* Mutant of CleanupOld: deletes a key as soon as one attempt is old.
CleanupOldDropsKey ==
    /\ running
    /\ tickPending
    /\ tickPending' = FALSE
    /\ attempts' = [k \in Keys |->
           IF Valid(attempts[k]) = attempts[k] THEN attempts[k] ELSE {}]
    /\ UNCHANGED <<now, granted, answer, nextFire, done, running>>

\* Mutant of CleanupOld: the loop is missing, one tick is served.
CleanupOldOnce ==
    /\ running
    /\ tickPending
    /\ tickPending' = FALSE
    /\ attempts' = [k \in Keys |-> Valid(attempts[k])]
    /\ running' = FALSE
    /\ UNCHANGED <<now, granted, answer, nextFire, done>>

\* cleanupOld, called by cleanupLoop when it receives a tick.
CleanupOld ==
    /\ running
    /\ tickPending
    /\ tickPending' = FALSE
    /\ attempts' = [k \in Keys |-> Valid(attempts[k])]
    /\ UNCHANGED <<now, granted, answer, nextFire, done, running>>

\* close(rl.done); closing twice panics, and no caller does.
Stop ==
    /\ ~done
    /\ done' = TRUE
    /\ UNCHANGED <<now, limiterVars, nextFire, tickPending, running>>

\* The other case of the select: stop the ticker and return.
LoopReturns ==
    /\ running
    /\ done
    /\ running' = FALSE
    /\ UNCHANGED <<now, limiterVars, nextFire, tickPending, done>>

Next ==
    \/ Advance
    \/ \E k \in Keys : Allow(k) \/ Reset(k)
    \/ TickerFires
    \/ CleanupOld
    \/ Stop
    \/ LoopReturns

Spec == Init /\ [][Next]_vars

\* Time passes, the runtime fires its timers and runs the goroutine.
Fairness ==
    /\ WF_vars(Advance)
    /\ WF_vars(TickerFires)
    /\ WF_vars(CleanupOld)
    /\ WF_vars(LoopReturns)

FairSpec == Spec /\ Fairness

-----------------------------------------------------------------------------
(* Properties *)

\* The attempts kept are grants, and every grant young enough to count is
\* among them: neither Allow's filter nor cleanupOld drops a live attempt.
AttemptsCoverWindow ==
    \A k \in Keys :
        /\ attempts[k] \subseteq granted[k]
        /\ Valid(granted[k]) \subseteq attempts[k]

\* No window of the clock, ending at whichever grant, holds more than MaxReqs
\* grants to one key that Reset did not forgive (Allow).
WindowBound ==
    \A k \in Keys : \A g \in granted[k] :
        Cardinality({h \in granted[k] : g.at - Window < h.at /\ h.at <= g.at})
            <= MaxReqs

\* Remaining agrees with the grants themselves, so a positive answer means
\* that the next Allow of the same instant is granted.
RemainingIsExact ==
    \A k \in Keys : Remaining(k) = MaxReqs - Cardinality(Valid(granted[k]))

\* Allow decides as the sliding window promises: keeping only recent attempts
\* and trimming them at any time is not observable.
SW == INSTANCE SlidingWindow
ImplementsSlidingWindow == SW!Spec

\* The map does not grow for ever: an attempt is removed in the end, unless the
\* limiter is stopped (cleanupLoop).  The clock stops at MaxTime, so the claim
\* is about attempts two windows older than that.
OldAttemptsPurged ==
    \A k \in Keys : \A t \in 0 .. MaxTime - 2 * Window :
        (\E a \in attempts[k] : a.at = t)
            ~> (done \/ \A a \in attempts[k] : a.at # t)

-----------------------------------------------------------------------------
(* What the proofs need beside the properties above *)

FiniteHistory == \A k \in Keys : IsFiniteSet(granted[k])

NotFromFuture == \A k \in Keys : \A g \in granted[k] : g.at <= now

\* The attempts of one instant are numbered from 1 without a gap, so the next
\* number is free.
Numbered ==
    \A k \in Keys : \A a \in attempts[k] :
        a.n <= Cardinality({b \in attempts[k] : b.at = a.at})

AtMostMaxReqs == \A k \in Keys : Cardinality(attempts[k]) <= MaxReqs

IInv ==
    /\ TypeOK
    /\ FiniteHistory
    /\ NotFromFuture
    /\ AttemptsCoverWindow
    /\ Numbered
    /\ AtMostMaxReqs
    /\ WindowBound
=============================================================================
