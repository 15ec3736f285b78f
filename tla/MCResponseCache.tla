--------------------------- MODULE MCResponseCache ---------------------------
(* Three workers: two can miss the same key while the third copies what the *)
(* first of them has cached.  Two keys have a handler, the third has none.  *)
EXTENDS ResponseCache, TLC
CONSTANTS w1, w2, w3, k1, k2, k3
MCWorkers == {w1, w2, w3}
\* For liveness, where the symmetry may not be used.
TwoWorkers == {w1, w2}
MCKeys == {k1, k2, k3}
MCRouted == {k1, k2}
Symmetry == Permutations(MCWorkers) \cup Permutations(MCRouted)
=============================================================================
