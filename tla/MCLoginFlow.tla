----------------------------- MODULE MCLoginFlow -----------------------------
EXTENDS LoginFlow, TLC

CONSTANTS t1, t2, a1, a2, a3, a4

MCOneTab == {t1}
MCTabs == {t1, t2}
MCAttempts == {a1, a2, a3, a4}

Symmetry == Permutations(MCTabs) \cup Permutations(MCAttempts)
=============================================================================
