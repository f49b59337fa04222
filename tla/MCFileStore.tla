---------------------------- MODULE MCFileStore -----------------------------
(* Constants for TLC. *)
EXTENDS FileStore, TLC

CONSTANTS k1, k2, e1, e2, s1, s2, s3

TwoKeys == {k1, k2}
TwoValues == {e1, e2}
ThreeServerKeys == {s1, s2, s3}

\* Shortcodes, entries and server keys are interchangeable.
Symmetry ==
    Permutations(TwoKeys) \cup Permutations(TwoValues) \cup Permutations(ThreeServerKeys)
=============================================================================
