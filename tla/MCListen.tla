------------------------------ MODULE MCListen ------------------------------
EXTENDS Listen, TLC

CONSTANTS p1, p2, head, other, c1, c2, c3

Symmetry == Permutations({p1, p2}) \cup Permutations({c1, c2, c3})
=============================================================================
