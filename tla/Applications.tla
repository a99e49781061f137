---------------------------- MODULE Applications ----------------------------
(***************************************************************************)
(* Applications for organizations, and the catalog that reserves a name    *)
(* for the organization that first had it, also after it was deleted.      *)
(*                                                                         *)
(* Administrators decide an application under a lock on its row, and edit  *)
(* its name, whatever its status, without one; applicants answer requests  *)
(* for information without one; approving an application declines the      *)
(* others for its name, whose rows it reads unlocked; nightly tasks return *)
(* deferred ones to the queue and delete declined ones.  A handler that    *)
(* locks what it decides takes one step, the others several.               *)
(*                                                                         *)
(* Messages, notes, e-mails and the days the tasks wait are left out, and  *)
(* every application has an applicant of its own.  An approved application *)
(* does not refer to its organization: the relationship is viewonly.       *)
(***************************************************************************)
EXTENDS Integers, FiniteSets

CONSTANTS
    Apps,        \* applications
    Names,       \* normalized organization names
    Orgs,        \* organizations that may be created
    Workers,     \* web workers that approve, edit or take an answer
    MaxRequests  \* requests for information per application: a bound

ASSUME RequestsAssumption == MaxRequests \in Nat
ASSUME MarksAssumption ==   \* what stands for no application, organization or name is none
    /\ Orgs \cap {"none", "free", "orphan"} = {} /\ "none" \notin Apps
    /\ Names \cap {"none", "unused", "deleted"} = {}

VARIABLES
    status,   \* status of each application, "absent" before and "gone" after it exists
    nameOf,   \* the name it is for, at first what the applicant will fill in
    open,     \* its requests for information without a response
    asked,    \* number of its requests for information
    catalog,  \* who has a name: "free", "orphan" or an organization
    orgName,  \* name of each organization, or "unused"
    tx,       \* what each worker is doing
    undefer,  \* the applications undefer_organization_applications holds
    doomed,   \* those delete_declined_organization_applications has selected
    born      \* history: the application and the name each organization was approved for

vars == <<status, nameOf, open, asked, catalog, orgName, tx, undefer, doomed, born>>
names == <<catalog, orgName, born>>
asks == <<open, asked>>
tasks == <<undefer, doomed>>

None == "none"
OPEN == {"Submitted", "Deferred", "MoreInformationNeeded"}   \* OPEN_APPLICATION_STATUSES
CLOSED == {"Approved", "Declined", "Withdrawn"}
DECLINED_ON_APPROVAL == {"Submitted", "Deferred"}
Live == {o \in Orgs : orgName[o] \in Names}

Unborn == [app |-> None, name |-> None]
Idle == [does |-> "nothing"]
Approving(a, claim) == [does |-> "approve", app |-> a, claim |-> claim, org |-> None, declines |-> {}]
Answering(a, r) == [does |-> "answer", app |-> a, request |-> r, seen |-> status[a],
                    all |-> open[a] \subseteq {r}]
Editing(a, n) == [does |-> "edit", app |-> a, name |-> n]
Creating(n) == \E w \in Workers : tx[w].does = "approve" /\ tx[w].org # None /\ nameOf[tx[w].app] = n

\* Variant: the task does not lock what it selects.
Unlocked_ByAdmins(a) == \A w \in Workers : tx[w].does = "approve" => tx[w].app # a
Unlocked(a) ==
    /\ \A w \in Workers : tx[w].does = "approve" => tx[w].app # a
    /\ a \notin undefer

\* Variant: only names of existing organizations are taken.
MayTake_Live(n, claim) == \A o \in Live : orgName[o] # n
MayTake(n, claim) == catalog[n] = "free" \/ (catalog[n] = "orphan" /\ claim)
Held(n) == catalog[n] \notin {"free", "orphan"}
-----------------------------------------------------------------------------
(* The applicant.                                                          *)

Submit(a) ==
    /\ status[a] = "absent"
    /\ ~Held(nameOf[a])
    /\ status' = [status EXCEPT ![a] = "Submitted"]
    /\ UNCHANGED <<nameOf, asks, names, tx, tasks>>

Withdraw(a) ==
    /\ status[a] \in OPEN /\ Unlocked(a)
    /\ status' = [status EXCEPT ![a] = "Withdrawn"]
    /\ UNCHANGED <<nameOf, asks, names, tx, tasks>>

\* manage_organization_application_submit loads the application and one of its
\* requests, answered or not, and decides; only a withdrawn one is not found.
Answer(w, a) ==
    /\ tx[w] = Idle
    /\ status[a] \notin {"absent", "Withdrawn", "gone"}
    /\ \E r \in 1..asked[a] : tx' = [tx EXCEPT ![w] = Answering(a, r)]
    /\ UNCHANGED <<status, nameOf, asks, names, tasks>>

\* The status is only written if it differs from the one that was loaded.
AnswerCommit(w) ==
    /\ tx[w].does = "answer" /\ status[tx[w].app] # "gone"
    /\ LET a == tx[w].app
           returns == tx[w].all /\ tx[w].seen # "Submitted"
       IN  /\ returns => Unlocked(a)
           /\ open' = [open EXCEPT ![a] = @ \ {tx[w].request}]
           /\ status' = [status EXCEPT ![a] = IF returns THEN "Submitted" ELSE @]
    /\ tx' = [tx EXCEPT ![w] = Idle]
    /\ UNCHANGED <<nameOf, asked, names, tasks>>
-----------------------------------------------------------------------------
(* Administrators.                                                         *)

Decide(a, to) ==
    /\ status[a] \in OPEN /\ Unlocked(a)
    /\ status' = [status EXCEPT ![a] = to]

Defer(a) == Decide(a, "Deferred") /\ UNCHANGED <<nameOf, asks, names, tx, tasks>>
Decline(a) == Decide(a, "Declined") /\ UNCHANGED <<nameOf, asks, names, tx, tasks>>

RequestMoreInfo(a) ==
    /\ asked[a] < MaxRequests
    /\ Decide(a, "MoreInformationNeeded")
    /\ asked' = [asked EXCEPT ![a] = @ + 1]
    /\ open' = [open EXCEPT ![a] = @ \cup {asked[a] + 1}]
    /\ UNCHANGED <<nameOf, names, tx, tasks>>

\* organization_application_detail checks the new name against the catalog and
\* writes it at the commit, after whoever has the row locked.
Edit(w, a, n) ==
    /\ tx[w] = Idle
    /\ status[a] \notin {"absent", "gone"}
    /\ n # nameOf[a] /\ ~Held(n)
    /\ tx' = [tx EXCEPT ![w] = Editing(a, n)]
    /\ UNCHANGED <<status, nameOf, asks, names, tasks>>

EditCommit(w) ==
    /\ tx[w].does = "edit" /\ status[tx[w].app] # "gone" /\ Unlocked(tx[w].app)
    /\ nameOf' = [nameOf EXCEPT ![tx[w].app] = tx[w].name]
    /\ tx' = [tx EXCEPT ![w] = Idle]
    /\ UNCHANGED <<status, asks, names, tasks>>

\* organization_application_approve: lock and check the application, and the
\* catalog, where an administrator may claim the name of a deleted one.
Approve(w, a, claim) ==
    /\ tx[w] = Idle
    /\ status[a] \in OPEN /\ Unlocked(a)
    /\ MayTake(nameOf[a], claim)
    /\ tx' = [tx EXCEPT ![w] = Approving(a, claim)]
    /\ UNCHANGED <<status, nameOf, asks, names, tasks>>

\* approve_organization_application inserts the organization, which waits for
\* another insert of the name, looks the name up again in add_catalog_entry,
\* and reads the competing applications.
CreateOrganization(w) ==
    /\ tx[w].does = "approve" /\ tx[w].org = None
    /\ LET n == nameOf[tx[w].app]
       IN  /\ ~Creating(n) /\ MayTake(n, tx[w].claim)
           /\ \A o \in Live : orgName[o] # n
           /\ \E o \in Orgs :
                 /\ orgName[o] = "unused"
                 /\ \A v \in Workers : tx[v].does = "approve" => tx[v].org # o
                 /\ tx' = [tx EXCEPT
                       ![w].org = o,
                       ![w].declines = {b \in Apps \ {tx[w].app} :
                                          nameOf[b] = n /\ status[b] \in DECLINED_ON_APPROVAL}]
    /\ UNCHANGED <<status, nameOf, asks, names, tasks>>

\* Writing to the competing applications waits for their rows, and fails when
\* one is gone.
ApproveCommit(w) ==
    /\ tx[w].does = "approve" /\ tx[w].org # None
    /\ LET a == tx[w].app  o == tx[w].org  n == nameOf[tx[w].app]
       IN  /\ \A b \in tx[w].declines : Unlocked(b) /\ status[b] # "gone"
           /\ status' = [b \in Apps |-> IF b = a THEN "Approved"
                                        ELSE IF b \in tx[w].declines THEN "Declined"
                                        ELSE status[b]]
           /\ catalog' = [catalog EXCEPT ![n] = o]
           /\ orgName' = [orgName EXCEPT ![o] = n]
           /\ born' = [born EXCEPT ![o] = [app |-> a, name |-> n]]
    /\ tx' = [tx EXCEPT ![w] = Idle]
    /\ UNCHANGED <<nameOf, asks, tasks>>

\* An error of a handler: the name was taken, a row was deleted, two
\* transactions waited for each other, or anything else.
Rollback(w) ==
    /\ tx[w] # Idle
    /\ tx' = [tx EXCEPT ![w] = Idle]
    /\ UNCHANGED <<status, nameOf, asks, names, tasks>>

\* organization_rename answers the error of add_catalog_entry with a redirect,
\* which is committed with the new name.
Rename(o, n) ==
    /\ o \in Live
    /\ (\A p \in Live : orgName[p] # n) /\ ~Creating(n)
    /\ orgName' = [orgName EXCEPT ![o] = n]
    /\ catalog' = IF catalog[n] \in {"free", o} THEN [catalog EXCEPT ![n] = o] ELSE catalog
    /\ UNCHANGED <<status, nameOf, asks, tx, tasks, born>>

\* Variant: the names of a deleted organization are free again.
Orphaned_Free(o) == [n \in Names |-> IF catalog[n] = o THEN "free" ELSE catalog[n]]
Orphaned(o) == [n \in Names |-> IF catalog[n] = o THEN "orphan" ELSE catalog[n]]

\* The owner deletes the organization; its application stays as it is.
DeleteOrganization(o) ==
    /\ o \in Live
    /\ orgName' = [orgName EXCEPT ![o] = "deleted"]
    /\ catalog' = Orphaned(o)
    /\ UNCHANGED <<status, nameOf, asks, tx, tasks, born>>
-----------------------------------------------------------------------------
(* The tasks.                                                              *)

Selectable == {a \in Apps : status[a] = "Deferred" /\ ~Held(nameOf[a]) /\ Unlocked(a)}

Undefer ==
    /\ undefer = {} /\ Selectable # {}
    /\ undefer' = Selectable
    /\ UNCHANGED <<status, nameOf, asks, names, tx, doomed>>

UndeferCommit ==
    /\ undefer # {}
    /\ status' = [a \in Apps |-> IF a \in undefer THEN "Submitted" ELSE status[a]]
    /\ undefer' = {}
    /\ UNCHANGED <<nameOf, asks, names, tx, doomed>>

UndeferFails ==
    /\ undefer # {}
    /\ undefer' = {}
    /\ UNCHANGED <<status, nameOf, asks, names, tx, doomed>>

\* delete_declined_organization_applications selects without a lock, and deletes
\* by key whatever has become of the rows.
DeleteDeclined(a) ==
    /\ doomed = {} /\ status[a] \in {"Declined", "Withdrawn"}
    /\ doomed' = {a}
    /\ UNCHANGED <<status, nameOf, asks, names, tx, undefer>>

DeleteCommit ==
    /\ doomed # {} /\ \A a \in doomed : Unlocked(a)
    /\ status' = [a \in Apps |-> IF a \in doomed THEN "gone" ELSE status[a]]
    /\ doomed' = {}
    /\ UNCHANGED <<nameOf, asks, names, tx, undefer>>
-----------------------------------------------------------------------------
Init ==
    /\ status = [a \in Apps |-> "absent"]
    /\ nameOf \in [Apps -> Names]
    /\ open = [a \in Apps |-> {}]
    /\ asked = [a \in Apps |-> 0]
    /\ catalog = [n \in Names |-> "free"]
    /\ orgName = [o \in Orgs |-> "unused"]
    /\ tx = [w \in Workers |-> Idle]
    /\ undefer = {} /\ doomed = {}
    /\ born = [o \in Orgs |-> Unborn]

Next ==
    \/ \E a \in Apps : \/ Submit(a) \/ Withdraw(a) \/ Defer(a) \/ Decline(a)
                       \/ RequestMoreInfo(a) \/ DeleteDeclined(a)
    \/ \E w \in Workers, a \in Apps : \/ Answer(w, a)
                                     \/ \E n \in Names : Edit(w, a, n)
                                     \/ \E claim \in BOOLEAN : Approve(w, a, claim)
    \/ \E w \in Workers : \/ AnswerCommit(w) \/ EditCommit(w) \/ CreateOrganization(w)
                          \/ ApproveCommit(w) \/ Rollback(w)
    \/ \E o \in Orgs : DeleteOrganization(o) \/ \E n \in Names : Rename(o, n)
    \/ Undefer \/ UndeferCommit \/ UndeferFails \/ DeleteCommit

Spec == Init /\ [][Next]_vars
-----------------------------------------------------------------------------
(* Statuses are ones the code knows, and a name is catalogued for an       *)
(* organization that exists.                                               *)
TypeOK ==
    /\ status \in [Apps -> OPEN \cup CLOSED \cup {"absent", "gone"}]
    /\ asked \in [Apps -> 0..MaxRequests] /\ open \in [Apps -> SUBSET (1..MaxRequests)]
    /\ nameOf \in [Apps -> Names]
    /\ catalog \in [Names -> Live \cup {"free", "orphan"}]
    /\ orgName \in [Orgs -> Names \cup {"unused", "deleted"}]
    /\ born \in [Orgs -> [app : Apps, name : Names] \cup {Unborn}]
    /\ undefer \subseteq Apps /\ doomed \subseteq Apps

(* A name stays with the organization that had it, renamed or not, and is  *)
(* an orphan once that is deleted: add_catalog_entry gives it to nobody    *)
(* else unless an administrator claims it.                                 *)
NamesStayReserved ==
    [][\A n \in Names : catalog[n] # "free" =>
         \/ catalog'[n] = catalog[n]
         \/ catalog[n] \in Orgs /\ catalog'[n] = "orphan" /\ orgName'[catalog[n]] = "deleted"
         \/ catalog[n] = "orphan" /\ \E w \in Workers : tx[w].does = "approve" /\ tx[w].claim]_vars

(* No two organizations were approved for one name while both exist, be it *)
(* from two applications or from one that was approved twice, at once or   *)
(* after its applicant's answer reopened it, and whatever they are called  *)
(* since: an application makes a second organization only once an          *)
(* administrator has edited its name.                                      *)
OneOrganizationEach ==
    \A o, p \in Live : born[o].name = born[p].name => o = p

(* Nothing but an answer of the applicant takes an approval back.  The     *)
(* nightly task does not, nor does a decision that was under way, with one *)
(* exception: an approval that read the application as a competitor, which *)
(* was then renamed and approved for its new name, still declines it.  An  *)
(* approved application may be deleted, when the task had selected it.     *)
RenamedSince(w, a) ==
    /\ a \in tx[w].declines
    /\ \E o \in Orgs : born[o].app = a /\ born[o].name # nameOf[tx[w].app]

ApprovalStands ==
    [][\A a \in Apps : status[a] = "Approved" =>
         \/ status'[a] = "Approved"
         \/ status'[a] = "gone" /\ a \in doomed
         \/ status'[a] = "Submitted" /\ \E w \in Workers : AnswerCommit(w) /\ tx[w].app = a
         \/ status'[a] = "Declined"
            /\ \E w \in Workers : ApproveCommit(w) /\ RenamedSince(w, a)]_vars

(* organization_rename: 'Organization name "..." has been used' is said of *)
(* a renaming that does not happen, so an organization's name is its own.  *)
NamesAreReserved == \A o \in Live : catalog[orgName[o]] = o
=============================================================================
