---------------------------- MODULE MC_EmailAddresses ----------------------------
(* Two users who add one address, one after the other. *)
EXTENDS EmailAddresses

CONSTANTS x1, x2

OneAddress == [r \in Rows |-> "x@example.org"]
=============================================================================
