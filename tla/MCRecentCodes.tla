--------------------------- MODULE MCRecentCodes ---------------------------
(* Constants for TLC: two handlers, a list of two, enough codes for it to be
   grown, trimmed, written in place and grown again. *)
EXTENDS RecentCodes, TLC

CONSTANTS w1, w2

TwoWorkers == {w1, w2}
MCPublic == {1, 2, 4, 5}

Symmetry == Permutations(TwoWorkers)
=============================================================================
