---------------------------- MODULE MCOidcRotation ----------------------------
EXTENDS OidcRotation

CONSTANTS k1, r1, r2

MCKeys == {k1}
MCRequests == {r1, r2}
=============================================================================
