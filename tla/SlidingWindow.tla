--------------------------- MODULE SlidingWindow ---------------------------
(***************************************************************************)
(* What a rate limiter promises, with no word on how it remembers: a call  *)
(* is granted exactly when fewer than MaxReqs grants to the same key lie   *)
(* in the window that ends now.  RateLimiter.tla is shown to implement it. *)
(***************************************************************************)
EXTENDS Integers, FiniteSets

CONSTANTS
    Keys,       \* what callers are told apart by
    MaxReqs,    \* grants a key may have in one window
    Window,     \* length of the window
    MaxTime     \* bound: the clock stops here

VARIABLES
    now,        \* the clock
    granted,    \* granted[k]: the grants to k since k was last reset
    answer      \* what the latest call to Allow returned

vars == <<now, granted, answer>>

InWindow(g, t) == t - Window < g.at /\ g.at <= t

\* The grants to k that count against a call made now.
Recent(k) == {g \in granted[k] : InWindow(g, now)}

\* Two grants may share an instant: n tells them apart.
Stamp(S) == [at |-> now, n |-> 1 + Cardinality({g \in S : g.at = now})]

Init ==
    /\ now = 0
    /\ granted = [k \in Keys |-> {}]
    /\ answer = [key |-> {}, allowed |-> FALSE]

Advance ==
    /\ now < MaxTime
    /\ now' = now + 1
    /\ UNCHANGED <<granted, answer>>

Grant(k) ==
    /\ Cardinality(Recent(k)) < MaxReqs
    /\ granted' = [granted EXCEPT ![k] = @ \cup {Stamp(Recent(k))}]
    /\ answer' = [key |-> {k}, allowed |-> TRUE]
    /\ UNCHANGED now

Deny(k) ==
    /\ Cardinality(Recent(k)) >= MaxReqs
    /\ answer' = [key |-> {k}, allowed |-> FALSE]
    /\ UNCHANGED <<now, granted>>

Forget(k) ==
    /\ granted' = [granted EXCEPT ![k] = {}]
    /\ UNCHANGED <<now, answer>>

Next == Advance \/ \E k \in Keys : Grant(k) \/ Deny(k) \/ Forget(k)

Spec == Init /\ [][Next]_vars
=============================================================================
