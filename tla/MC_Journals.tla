----------------------------- MODULE MC_Journals -----------------------------
(* Journals with interchangeable workers. *)
EXTENDS Journals, TLC

WorkerSymmetry == Permutations(Tx)
=============================================================================
