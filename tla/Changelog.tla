----------------------------- MODULE Changelog -----------------------------
(***************************************************************************)
(* What the changelog API promises a mirror, whatever the database does.   *)
(*                                                                         *)
(* docs/dev/api-reference/xml-rpc.md tells mirrors to note a serial, look  *)
(* at /simple/ once, and from then on to ask changelog_since_serial() for  *)
(* everything newer than the last serial they saw.  That loses nothing     *)
(* only if serials appear in increasing order: a batch of journal entries  *)
(* that becomes visible must carry serials above every visible one.        *)
(***************************************************************************)
EXTENDS Naturals, FiniteSets

CONSTANTS
    Names,      \* project names that journal entries are about
    MaxSerial,  \* largest value of journals.id
    PageLimit   \* entries one changelog_since_serial() call returns at most

VARIABLES
    log,           \* the visible journal entries
    mirrorSerial,  \* the serial the mirror asks from
    mirrorSeen     \* the serials whose effect the mirror has

vars == <<log, mirrorSerial, mirrorSeen>>

Entry == [id : 1..MaxSerial, name : Names]

Ids(entries) == {e.id : e \in entries}

Init ==
    /\ log = {}
    /\ mirrorSerial = 0
    /\ mirrorSeen = {}

(* A transaction that wrote journal entries becomes visible as a whole. *)
Publish ==
    \E batch \in SUBSET Entry :
        /\ \A new \in batch, old \in log : old.id < new.id
        /\ log' = log \cup batch
        /\ UNCHANGED <<mirrorSerial, mirrorSeen>>

(* The mirror reads the whole index, labelled with a serial not above what *)
(* the index shows.                                                        *)
Snapshot ==
    /\ mirrorSerial' \in Ids(log) \cup {0}
    /\ mirrorSeen' = mirrorSeen \cup Ids(log)
    /\ UNCHANGED log

(* The mirror asks for what is newer than its serial, a page at a time. *)
Poll ==
    /\ mirrorSerial' \in Ids(log)
    /\ mirrorSerial < mirrorSerial'
    /\ mirrorSeen' = mirrorSeen \cup
                     {i \in Ids(log) : mirrorSerial < i /\ i <= mirrorSerial'}
    /\ UNCHANGED log

Next == Publish \/ Snapshot \/ Poll

Spec == Init /\ [][Next]_vars
=============================================================================
