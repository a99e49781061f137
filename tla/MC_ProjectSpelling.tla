------------------------- MODULE MC_ProjectSpelling -------------------------
EXTENDS ProjectSpelling, TLC

MCSymmetry == Permutations(Tx) \cup Permutations(Spellings)
=============================================================================
