--------------------------- MODULE MC_Applications ---------------------------
EXTENDS Applications, TLC
Symmetry == Permutations(Apps) \cup Permutations(Names) \cup Permutations(Orgs)
              \cup Permutations(Workers)
=============================================================================
