-------------------------- MODULE MCCredentialCache --------------------------
EXTENDS CredentialCache, TLC

CONSTANTS a, b, c, t1, t2

MCKeys == {a, b, c}
MCThreads == {t1, t2}
\* One lifetime below the margin, one above it, an absent one, and one beyond the
\* last Instant.
MCExpiresIn == {0, 3, 9, NoExpiry}

Symmetry == Permutations(MCKeys) \cup Permutations(MCThreads)
=============================================================================
