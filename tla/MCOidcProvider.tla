---------------------------- MODULE MCOidcProvider ----------------------------
EXTENDS OidcProvider, TLC

CONSTANTS k1, k2, r1, r2, r3

MCKeys == {k1, k2}
MCRequests == {r1, r2, r3}

Symmetry == Permutations(MCKeys) \cup Permutations(MCRequests)
=============================================================================
