--------------------------- MODULE MCRateLimiter ---------------------------
(* Constants for TLC: two keys that must not disturb each other. *)
EXTENDS RateLimiter

CONSTANTS k1, k2

TwoKeys == {k1, k2}
OneKey == {k1}
=============================================================================
