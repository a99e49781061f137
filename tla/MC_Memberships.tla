--------------------------- MODULE MC_Memberships ---------------------------
EXTENDS MembershipPlans, TLC

AccountSymmetry ==
    Permutations(Users) \cup Permutations(Orgs) \cup Permutations(Workers)
=============================================================================
