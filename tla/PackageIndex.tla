---------------------------- MODULE PackageIndex ----------------------------
(***************************************************************************)
(* What the index promises the people who install from it: a file name     *)
(* stands for one content, for ever.  A file may be withdrawn, but its     *)
(* name never comes back, and no content is served under two names at the  *)
(* same time.                                                              *)
(***************************************************************************)
EXTENDS Naturals

CONSTANTS Names, Contents

VARIABLES
    available,  \* the files that the index lists
    used        \* the names that files have ever had

vars == <<available, used>>

File == [name : Names, content : Contents]

Init == available = {} /\ used = {}

Publish(f) ==
    /\ f.name \notin used
    /\ \A g \in available : g.content # f.content
    /\ available' = available \cup {f}
    /\ used' = used \cup {f.name}

Withdraw(fs) ==
    /\ available' = available \ fs
    /\ UNCHANGED used

Next ==
    \/ \E f \in File : Publish(f)
    \/ \E fs \in SUBSET available : Withdraw(fs)

Spec == Init /\ [][Next]_vars
=============================================================================
