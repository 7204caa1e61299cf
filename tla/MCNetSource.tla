---------------------------- MODULE MCNetSource ----------------------------
\* NetSource for TLC: places and descriptor numbers are interchangeable.
EXTENDS NetSource, TLC

Symmetry == Permutations(Objects) \cup Permutations(Fds)

============================================================================
