------------------------------ MODULE MC_Files ------------------------------
EXTENDS Files, TLC

CONSTANTS s1, s2, w   \* two sdists and a wheel
CONSTANTS r1

WorkerSymmetry ==
    Permutations(Uploads) \cup Permutations(Jobs) \cup Permutations(Reconcilers)

OneRelease == [n \in Names |-> r1]
=============================================================================
