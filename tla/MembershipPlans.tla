--------------------------- MODULE MembershipPlans ---------------------------
(***************************************************************************)
(* What a request of Memberships may rely on when it commits: as long as   *)
(* no row that its checks read was written by another request, what they   *)
(* found still holds, and that is what its writes need to keep the         *)
(* properties of Memberships.  An inductive invariant.                     *)
(*                                                                         *)
(* A request is described by the rows it read and the writes it plans.     *)
(***************************************************************************)
EXTENDS Memberships

Inserted(writes) == KeysOf(writes, "insert")
Updated(writes) == KeysOf(writes, "update")
Deleted(writes) == KeysOf(writes, "delete")
Changed(writes) == Updated(writes) \cup Deleted(writes)

Invitation(k) == k[1] \in {"invite", "orginvite"}

-----------------------------------------------------------------------------
(* The writes of any request, whatever has become of what it read.         *)

OneWritePerRow(writes) ==
    /\ \A x \in writes : x.op \in {"insert", "update", "delete"}
    /\ \A x, y \in writes :
          x.key = y.key /\ x.op # "delete" /\ y.op # "delete" => x = y
    /\ Inserted(writes) \cap Deleted(writes) = {}

(* A request that deletes an account or an organization inserts nothing.   *)
InsertsBesideRows(writes) ==
    \A k \in Inserted(writes), x \in Users \cup Orgs :
       /\ k # Key("org", x, x)
       /\ Key("user", x, x) \notin Deleted(writes)
       /\ Key("org", x, x) \notin Deleted(writes)

(* Only roles, the rights of teams and invitations are changed.            *)
UpdatesRoles(writes) ==
    \A x \in writes : x.op = "update" =>
       \/ x.key[1] \in {"role", "teamproject", "orgrole"} /\ DOMAIN x.row = {"role"}
       \/ Invitation(x.key)

WholeInvitations(writes) ==
    \A x \in writes : Invitation(x.key) =>
       /\ x.op = "insert" => /\ DOMAIN x.row = {"status", "token"}
                             /\ x.row.status = "Pending"
       /\ x.op = "update" => DOMAIN x.row \subseteq {"status", "token"}

WellFormed(writes) ==
    /\ OneWritePerRow(writes)
    /\ InsertsBesideRows(writes)
    /\ UpdatesRoles(writes)
    /\ WholeInvitations(writes)

-----------------------------------------------------------------------------
(* What a request needs of the rows it read, for each property.            *)

Losing(writes, p) ==
    {u \in Users : \/ Key("role", p, u) \in Changed(writes)
                   \/ Key("user", u, u) \in Deleted(writes)}
Leaving(writes, p) == {o \in Orgs : Key("orgproject", o, p) \in Deleted(writes)}
Joining(writes, p) == {o \in Orgs : Key("orgproject", o, p) \in Inserted(writes)}

LosingInOrg(writes, o) ==
    {u \in Users : \/ Key("orgrole", o, u) \in Changed(writes)
                   \/ Key("user", u, u) \in Deleted(writes)}

(* Of a project: one owner goes and is not the last one, the organization  *)
(* goes and there are owners, or it comes to an organization.              *)
KeepsAnOwner(reads, writes, p) ==
    \/ Losing(writes, p) = {} /\ Leaving(writes, p) = {}
    \/ Joining(writes, p) # {}
    \/ /\ OwnershipOf(p) \subseteq reads /\ Leaving(writes, p) = {}
       /\ \E u \in Users : /\ Losing(writes, p) \subseteq {u}
                           /\ OrgsOf(p) # {} \/ Owners(p) # {u}
    \/ /\ OwnershipOf(p) \subseteq reads /\ Losing(writes, p) = {}
       /\ Owners(p) # {}

LeavesNoProject(reads, writes, o) ==
    Key("org", o, o) \in Deleted(writes) =>
       \A p \in Projects : Key("orgproject", o, p) \in reads /\ ~Has("orgproject", o, p)

KeepsAnOrgOwner(reads, writes, o) ==
    \/ LosingInOrg(writes, o) = {}
    \/ /\ OwnershipOfOrg(o) \subseteq reads
       /\ \E u \in Users : LosingInOrg(writes, o) \subseteq {u} /\ OrgOwners(o) # {u}

JoinsOne(reads, writes, p) ==
    \/ Joining(writes, p) = {}
    \/ /\ OwnershipOf(p) \subseteq reads
       /\ OrgsOf(p) \subseteq Leaving(writes, p)
       /\ \E o \in Orgs : Joining(writes, p) = {o}

LeavesRights(reads, writes, o, p) ==
    /\ Key("orgproject", o, p) \in Deleted(writes) =>
          /\ Key("teamproject", o, p) \in Deleted(writes)
          /\ Key("publisher", p, p) \in Deleted(writes)
    /\ Key("teamproject", o, p) \in Inserted(writes) =>
          /\ Key("orgproject", o, p) \in reads /\ Has("orgproject", o, p)
          /\ Key("orgproject", o, p) \notin Deleted(writes)

PublishesHere(reads, writes, p) ==
    \A x \in writes : x.op = "insert" /\ x.key = Key("publisher", p, p) =>
       /\ OwnershipOf(p) \subseteq reads /\ Leaving(writes, p) = {}
       /\ x.row.role \subseteq OrgsOf(p)

(* Who joins a team or registers a publisher is in the organization.       *)
JoinsFromInside(reads, writes, o, u) ==
    /\ Key("member", o, u) \in Inserted(writes) =>
          /\ Key("orgrole", o, u) \in reads /\ Has("orgrole", o, u)
          /\ Key("orgrole", o, u) \notin Deleted(writes)
    /\ Key("pending", o, u) \in Inserted(writes) =>
          /\ Key("orgrole", o, u) \in reads /\ u \in OrgOwners(o)
          /\ Key("orgrole", o, u) \notin Changed(writes)

EndsOwnership(x) == x.op = "delete" \/ (x.op = "update" /\ x.row.role # "Owner")

(* Who leaves an organization leaves nothing there.                        *)
LeavesTogether(reads, writes, o, u) ==
    /\ Key("orgrole", o, u) \in Deleted(writes) =>
          /\ Key("member", o, u) \in reads
          /\ Has("member", o, u) => Key("member", o, u) \in Deleted(writes)
          /\ Key("member", o, u) \notin Inserted(writes)
    /\ \A x \in writes :
          x.key = Key("orgrole", o, u) /\ EndsOwnership(x) =>
             /\ Key("pending", o, u) \in reads
             /\ RoleIn("pending", o, u) = "row" => Key("pending", o, u) \in Deleted(writes)

InvitesOutsiders(reads, writes, o, u) ==
    /\ Key("orginvite", o, u) \in Inserted(writes) =>
          /\ Key("orgrole", o, u) \in reads /\ ~Has("orgrole", o, u)
          /\ Key("orgrole", o, u) \notin Inserted(writes)
    /\ Key("orgrole", o, u) \in Inserted(writes) => Key("orginvite", o, u) \in Deleted(writes)

ShowsPending(reads, writes, t, x, u) ==
    \A y \in writes : y.op = "update" /\ y.key = Key(t, x, u) =>
       /\ Key(t, x, u) \in reads
       /\ \/ "status" \in DOMAIN y.row /\ y.row.status = "Pending"
          \/ y.row = [status |-> "Expired"] /\ ~Readable(t, x, u)
          \/ "status" \notin DOMAIN y.row /\ (Has(t, x, u) => Pending(t, x, u))

KeepsOwners(reads, writes) == \A p \in Projects : KeepsAnOwner(reads, writes, p)
LeavesNoProjects(reads, writes) == \A o \in Orgs : LeavesNoProject(reads, writes, o)
KeepsOrgOwners(reads, writes) == \A o \in Orgs : KeepsAnOrgOwner(reads, writes, o)
JoinsAtMostOne(reads, writes) == \A p \in Projects : JoinsOne(reads, writes, p)
LeavesAllRights(reads, writes) ==
    \A o \in Orgs, p \in Projects : LeavesRights(reads, writes, o, p)
PublishesOnlyHere(reads, writes) == \A p \in Projects : PublishesHere(reads, writes, p)
AllJoinFromInside(reads, writes) ==
    \A o \in Orgs, u \in Users : JoinsFromInside(reads, writes, o, u)
AllLeaveTogether(reads, writes) ==
    \A o \in Orgs, u \in Users : LeavesTogether(reads, writes, o, u)
InvitesOnlyOutsiders(reads, writes) ==
    \A o \in Orgs, u \in Users : InvitesOutsiders(reads, writes, o, u)
ShowsAllPending(reads, writes) ==
    \A t \in {"invite", "orginvite"}, x \in Projects \cup Orgs, u \in Users :
       ShowsPending(reads, writes, t, x, u)

Justified(reads, writes) ==
    /\ KeepsOwners(reads, writes)
    /\ LeavesNoProjects(reads, writes)
    /\ KeepsOrgOwners(reads, writes)
    /\ JoinsAtMostOne(reads, writes)
    /\ LeavesAllRights(reads, writes)
    /\ PublishesOnlyHere(reads, writes)
    /\ AllJoinFromInside(reads, writes)
    /\ AllLeaveTogether(reads, writes)
    /\ InvitesOnlyOutsiders(reads, writes)
    /\ ShowsAllPending(reads, writes)

-----------------------------------------------------------------------------
(* The invariant.                                                          *)

Servers == Workers \cup {Beat}

PlansWellFormed ==
    /\ DOMAIN plan = Servers
    /\ \A w \in Servers : WellFormed(plan[w].writes)

RowsWhole ==
    /\ \A k \in DOMAIN db : Invitation(k) => DOMAIN db[k] = {"status", "token"}
    /\ \A o \in Orgs, p \in Projects : Has("orgproject", o, p) => Has("org", o, o)

(* An individual owner, or an organization: which has one.                 *)
ProjectsAreOwned == \A p \in Projects \ raced : Owners(p) # {} \/ OrgsOf(p) # {}

AtMostOneOrganization ==
    \A p \in Projects \ raced : \A o1, o2 \in OrgsOf(p) : o1 = o2

PlansJustified ==
    \A w \in Servers \ stale : Justified(plan[w].reads, plan[w].writes)

MembershipsInv ==
    /\ PlansWellFormed
    /\ RowsWhole
    /\ ProjectsAreOwned
    /\ OrganizationsHaveAnOwner
    /\ AtMostOneOrganization
    /\ MembershipsEndTogether
    /\ RightsStayBehind
    /\ AcceptableIsPending
    /\ PlansJustified

-----------------------------------------------------------------------------
(* What holds of a step, also for projects and organizations that a race   *)
(* has left with other rows than the checks meant.                         *)

HasOwner(p) == Owners(p) # {} \/ OrgsOf(p) # {}

(* The last owner of a project or an organization goes only with a commit  *)
(* whose checks are stale: views, deleted accounts and organizations, the  *)
(* tasks and the payments leave whatever owners there are with one.        *)
OwnersGoInRacesOnly ==
    [][\/ \E w \in stale : Commit(w)
       \/ /\ \A p \in Projects : HasOwner(p) => HasOwner(p)'
          /\ \A o \in Orgs : OrgOwners(o) # {} /\ Has("org", o, o)' => OrgOwners(o)' # {}]_vars
=============================================================================
