------------------------------- MODULE MCCsrf -------------------------------
(* Constants for TLC: two browsers, three pages, two requests at once.        *)
EXTENDS Csrf, TLC

CONSTANTS c1, c2, t1, t2, t3, w1, w2

TwoClients == {c1, c2}
ThreeTokens == {t1, t2, t3}
TwoWorkers == {w1, w2}

\* Tokens, clients and workers are interchangeable.
Symmetry == Permutations(TwoClients) \cup Permutations(ThreeTokens)
                \cup Permutations(TwoWorkers)
=============================================================================
