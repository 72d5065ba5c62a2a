---- MODULE MCSignals ----
EXTENDS Signals
CONSTANTS r1, r2, r3, a, b
Symmetry == Permutations({r1, r2, r3}) \cup Permutations({a, b})
====
