------------------------- MODULE MC_TrustedPublishing -------------------------
EXTENDS TrustedPublishing, TLC
CONSTANTS u1, u2, c1, c2, x1, x2, t1, t2, t3, r1, r2
Registrants == x1 :> u1 @@ x2 :> u2
RegisteredFor == x1 :> c1 @@ x2 :> c2
\* One token of an issuer whose publishers check the identifier, and two, with
\* and without one, of an issuer whose publishers do not.
Issued == t1 :> c1 @@ t2 :> c2 @@ t3 :> c2
Symmetry == Permutations(Requests)
=============================================================================
