---------------------------- MODULE Memberships ----------------------------
(***************************************************************************)
(* Who may administer a project: individual roles, organizations, teams    *)
(* and the invitations that lead to them.                                  *)
(*                                                                         *)
(* Each handler reads rows, decides, and leaves writes in its session that *)
(* reach the database when the request's transaction commits.  Postgres    *)
(* runs them under READ COMMITTED and no handler here locks a row before   *)
(* it decides, so another request may commit in between.  A request is     *)
(* therefore two steps: the handler (one action per view) reads and plans  *)
(* its writes, Commit carries them out on the rows as they are by then.    *)
(* Inserting a row that exists or whose parent is gone, and updating a row *)
(* that is gone, fails and rolls everything back; deleting one that is     *)
(* gone only logs a warning.                                               *)
(*                                                                         *)
(* The database is one partial function from keys <<table, x, y>> to rows; *)
(* an organization has one team.  Journal entries, events and e-mails are  *)
(* left out: the modules on journals deal with the first.                  *)
(***************************************************************************)
EXTENDS Naturals, FiniteSets, Functions

CONSTANTS
    Users, Projects, Orgs,
    Workers,      \* web workers, each handling one request after another
    Beat,         \* the Celery worker of the invitation tasks
    MaxRequests   \* bound: requests handled

ASSUME OrgsAssumption == IsFiniteSet(Orgs)

VARIABLES
    db,       \* committed rows
    plan,     \* worker -> the writes its request is about to commit
    tokens,   \* bound on tokens: how many were issued
    expired,  \* tokens older than the token service's max_age
    handled,  \* requests begun
    stale,    \* history: workers whose checks read rows changed since
    raced     \* history: what a request wrote to after a stale check

vars == <<db, plan, tokens, expired, handled, stale, raced>>

Key(t, x, y) == <<t, x, y>>
Has(t, x, y) == Key(t, x, y) \in DOMAIN db
RoleIn(t, x, y) == IF Has(t, x, y) THEN db[Key(t, x, y)].role ELSE "none"

Owners(p) == {u \in Users : RoleIn("role", p, u) = "Owner"}
OrgOwners(o) == {u \in Users : RoleIn("orgrole", o, u) = "Owner"}
OrgsOf(p) == {o \in Orgs : Has("orgproject", o, p)}
ProjectsOf(o) == {p \in Projects : Has("orgproject", o, p)}
InGoodStanding(o) == RoleIn("org", o, o) = "good"
CanManageMembers(o) == RoleIn("org", o, o) \in {"good", "unpaid"}

\* Who has Permissions.ProjectsWrite.
Administers(a, p) ==
    \/ a \in Owners(p)
    \/ \E o \in OrgsOf(p) :
          \/ a \in OrgOwners(o)
          \/ InGoodStanding(o) /\ RoleIn("teamproject", o, p) = "Owner" /\ Has("member", o, a)

\* user_projects(): projects_owned and projects_sole_owned.
ProjectsOwned(a) ==
    {p \in Projects : \/ a \in Owners(p)
                      \/ \E o \in OrgsOf(p) : a \in OrgOwners(o)
                      \/ \E o \in Orgs : Has("member", o, a) /\ RoleIn("teamproject", o, p) = "Owner"}

SoleOwned(a) ==
    {p \in Projects : \/ Owners(p) = {a} /\ OrgsOf(p) = {}
                      \/ Owners(p) \subseteq {a} /\ \E o \in OrgsOf(p) : OrgOwners(o) = {a}}

OrgsWithSoleOwner(a) == {o \in Orgs : OrgOwners(o) = {a}}
-----------------------------------------------------------------------------
(* Transactions.                                                           *)

Row(r) == [role |-> r]
Ins(key, row) == [op |-> "insert", key |-> key, row |-> row]
Upd(key, row) == [op |-> "update", key |-> key, row |-> row]   \* the changed columns
Del(key) == [op |-> "delete", key |-> key, row |-> <<>>]
DelAll(keys) == {Del(k) : k \in keys}

\* What a request's checks read: the rows that decide who owns p or o.
OwnershipOf(p) == {Key("role", p, u) : u \in Users} \cup {Key("orgproject", o, p) : o \in Orgs}
OwnershipOfOrg(o) == {Key("orgrole", o, u) : u \in Users}
Ownership(p) == OwnershipOf(p) \cup UNION {OwnershipOfOrg(o) : o \in OrgsOf(p)}
AllOwnership == UNION ({Ownership(p) : p \in Projects} \cup {OwnershipOfOrg(o) : o \in Orgs})

NoPlan == [writes |-> {}, reads |-> {}]
Idle(w) == plan[w] = NoPlan

\* The end of a handler: its writes are planned, its session not yet flushed.
Request(w, reads, writes) ==
    /\ Idle(w) /\ handled < MaxRequests
    /\ plan' = [plan EXCEPT ![w] = [writes |-> writes, reads |-> reads]]
    /\ handled' = handled + 1
    /\ UNCHANGED <<db, tokens, expired, stale, raced>>

Parents(k) ==
    (CASE k[1] \in {"role", "invite"} -> {Key("user", k[3], k[3])}
       [] k[1] \in {"orgrole", "orginvite", "member", "pending"} ->
            {Key("org", k[2], k[2]), Key("user", k[3], k[3])}
       [] k[1] \in {"orgproject", "teamproject"} -> {Key("org", k[2], k[2])}
       [] OTHER -> {}) \ {k}

KeysOf(writes, op) == {x.key : x \in {y \in writes : y.op = op}}
Keys(w, op) == KeysOf(plan[w].writes, op)

Fails(w) ==
    \/ Keys(w, "insert") \cap DOMAIN db # {}
    \/ \E k \in Keys(w, "insert") : ~(Parents(k) \subseteq DOMAIN db)
    \/ ~(Keys(w, "update") \subseteq DOMAIN db)

\* ON DELETE CASCADE; pending_oidc_publishers.organization_id has none, and
\* the session sets it to NULL, which makes the row a publisher of the user.
Cascade(gone) ==
    {k \in DOMAIN db : Parents(k) \cap gone # {}
                       /\ (k[1] = "pending" => Key("user", k[3], k[3]) \in gone)}

Removed(w) == Keys(w, "delete") \cup Cascade(Keys(w, "delete"))
Touched(w) == Removed(w) \cup Keys(w, "insert") \cup Keys(w, "update")

\* The columns of new in place of those of old.
Over(new, old) ==
    [c \in DOMAIN new \cup DOMAIN old |-> IF c \in DOMAIN new THEN new[c] ELSE old[c]]

NewRow(w, k) ==
    LET written == {x \in plan[w].writes : x.key = k /\ x.op # "delete"}
    IN  IF written = {} THEN db[k]
        ELSE LET x == CHOOSE y \in written : TRUE
             IN  IF x.op = "insert" THEN x.row ELSE Over(x.row, db[k])

Detached(w) ==
    {k \in DOMAIN db : k[1] = "pending" /\ Key("org", k[2], k[2]) \in Removed(w)} \ Removed(w)

\* Organizations and projects whose rows a request wrote.
Subjects(keys) == (UNION {{k[2], k[3]} : k \in keys}) \cap (Projects \cup Orgs)

Commit(w) ==
    /\ ~Idle(w) /\ ~Fails(w)
    /\ LET rows == (DOMAIN db \cup Keys(w, "insert")) \ Removed(w)
       IN  db' = [k \in rows |-> IF k \in Detached(w) THEN Row("personal") ELSE NewRow(w, k)]
    /\ stale' = (stale \ {w})
                \cup {v \in DOMAIN plan \ {w} : plan[v].reads \cap Touched(w) # {}}
    /\ raced' = IF w \in stale THEN raced \cup Subjects(Touched(w)) ELSE raced
    /\ plan' = [plan EXCEPT ![w] = NoPlan]
    /\ UNCHANGED <<tokens, expired, handled>>

\* The request answers with an error; a retry of it is another request.
Rollback(w) ==
    /\ ~Idle(w) /\ Fails(w)
    /\ plan' = [plan EXCEPT ![w] = NoPlan]
    /\ stale' = stale \ {w}
    /\ UNCHANGED <<db, tokens, expired, handled, raced>>
-----------------------------------------------------------------------------
(* Invitations.  A token is its number, the role and the submitter.        *)

Readable(t, x, u) == Has(t, x, u) /\ db[Key(t, x, u)].token.n \notin expired
Pending(t, x, u) == Has(t, x, u) /\ db[Key(t, x, u)].status = "Pending"

\* A new token: on the row of an earlier invitation, or on a new one.  The
\* status column is written only when it changes.
\* Variant: sending again does not restore the status.
Invite_KeepsStatus(w, a, t, x, u, r, reads) ==
    LET token == [n |-> tokens + 1, role |-> r, by |-> a]
        key == Key(t, x, u)
    IN  /\ Idle(w) /\ handled < MaxRequests
        /\ ~(Pending(t, x, u) /\ Readable(t, x, u))
        /\ plan' = [plan EXCEPT ![w] =
              [reads  |-> reads \cup {key},
               writes |-> {IF Has(t, x, u) THEN Upd(key, [token |-> token])
                           ELSE Ins(key, [status |-> "Pending", token |-> token])}]]
        /\ handled' = handled + 1
        /\ tokens' = tokens + 1
        /\ UNCHANGED <<db, expired, stale, raced>>

Invite(w, a, t, x, u, r, reads) ==
    LET token == [n |-> tokens + 1, role |-> r, by |-> a]
        row == [status |-> "Pending", token |-> token]
        key == Key(t, x, u)
        change == IF Pending(t, x, u) THEN [token |-> token] ELSE row
    IN  /\ Idle(w) /\ handled < MaxRequests
        /\ ~(Pending(t, x, u) /\ Readable(t, x, u))
        /\ plan' = [plan EXCEPT ![w] =
              [reads  |-> reads \cup {key},
               writes |-> {IF Has(t, x, u) THEN Upd(key, change) ELSE Ins(key, row)}]]
        /\ handled' = handled + 1
        /\ tokens' = tokens + 1
        /\ UNCHANGED <<db, expired, stale, raced>>

RevokeInvite(w, t, x, u) ==
    /\ Has(t, x, u)
    /\ Request(w, {Key(t, x, u)}, {Del(Key(t, x, u))})

\* The link in the e-mail holds the token of the row, not yet expired; its
\* status is not looked at.  What is accepted becomes a row of table `to'.
AcceptInvite(w, t, to, x, u) ==
    /\ Readable(t, x, u)
    /\ LET token == db[Key(t, x, u)].token
       IN  /\ Has("user", token.by, token.by)
           /\ Request(w, {Key(t, x, u), Key(to, x, u)},
                      {Ins(Key(to, x, u), Row(token.role)), Del(Key(t, x, u))})

DeclineInvite(w, t, x, u) ==
    /\ Readable(t, x, u)
    /\ LET by == db[Key(t, x, u)].token.by IN Has("user", by, by)
    /\ Request(w, {Key(t, x, u)}, {Del(Key(t, x, u))})

\* update_role_invitation_status, update_organization_invitation_status.
UpdateInvitationStatus(t) ==
    LET due == {k \in DOMAIN db : /\ k[1] = t
                                  /\ db[k].status = "Pending"
                                  /\ db[k].token.n \in expired}
    IN  /\ Idle(Beat) /\ due # {}
        /\ plan' = [plan EXCEPT ![Beat] =
              [reads |-> due, writes |-> {Upd(k, [status |-> "Expired"]) : k \in due}]]
        /\ UNCHANGED <<db, tokens, expired, handled, stale, raced>>

TokenExpires(n) ==
    /\ n \notin expired
    /\ expired' = expired \cup {n}
    /\ UNCHANGED <<db, plan, tokens, handled, stale, raced>>
-----------------------------------------------------------------------------
(* Roles of a project.                                                     *)

MayAddCollaborators(a, p) == Administers(a, p) /\ \A o \in OrgsOf(p) : InGoodStanding(o)
InternalUsers(o) == {u \in Users : RoleIn("orgrole", o, u) \in {"Owner", "Manager", "Member"}}

\* manage_project_roles, by the form that was submitted.
AddTeam(w, a, p, o, r) ==
    /\ MayAddCollaborators(a, p) /\ o \in OrgsOf(p)
    /\ ~Has("teamproject", o, p)
    /\ Request(w, {Key("orgproject", o, p)}, {Ins(Key("teamproject", o, p), Row(r))})

AddInternalUser(w, a, p, o, u, r) ==
    /\ MayAddCollaborators(a, p) /\ o \in OrgsOf(p)
    /\ u \in InternalUsers(o) /\ ~Has("role", p, u)
    /\ Request(w, {Key("role", p, u), Key("orgrole", o, u)}, {Ins(Key("role", p, u), Row(r))})

InviteCollaborator(w, a, p, u, r) ==
    /\ MayAddCollaborators(a, p) /\ ~Has("role", p, u) /\ Has("user", u, u)
    /\ \A o \in OrgsOf(p) : u \notin InternalUsers(o)
    /\ Invite(w, a, "invite", p, u, r, {Key("role", p, u)})

ChangeProjectRole(w, a, p, u, r) ==
    /\ Administers(a, p) /\ Has("role", p, u) /\ r # RoleIn("role", p, u)
    /\ ~(RoleIn("role", p, u) = "Owner" /\ u = a)
    /\ Request(w, Ownership(p), {Upd(Key("role", p, u), Row(r))})

\* Variant: only individual owners count as the sole owner.
DeleteProjectRole_IgnoresOrganization(w, a, p, u) ==
    /\ Administers(a, p) /\ Has("role", p, u)
    /\ ~(RoleIn("role", p, u) = "Owner" /\ u = a /\ OrgsOf(p) # {} /\ p \in SoleOwned(a))
    /\ Request(w, Ownership(p), {Del(Key("role", p, u))})

DeleteProjectRole(w, a, p, u) ==
    /\ Administers(a, p) /\ Has("role", p, u)
    /\ ~(RoleIn("role", p, u) = "Owner" /\ u = a /\ p \in SoleOwned(a))
    /\ Request(w, Ownership(p), {Del(Key("role", p, u))})

OwnTeam(a, o, p) ==
    /\ RoleIn("teamproject", o, p) = "Owner"
    /\ Has("member", o, a) /\ a \notin OrgOwners(o)

ChangeTeamProjectRole(w, a, p, o, r) ==
    /\ Administers(a, p) /\ Has("teamproject", o, p) /\ ~OwnTeam(a, o, p)
    /\ r # RoleIn("teamproject", o, p)
    /\ Request(w, Ownership(p), {Upd(Key("teamproject", o, p), Row(r))})

DeleteTeamProjectRole(w, a, p, o) ==
    /\ Administers(a, p) /\ Has("teamproject", o, p) /\ ~OwnTeam(a, o, p)
    /\ Request(w, Ownership(p), {Del(Key("teamproject", o, p))})

\* A trusted publisher added to the project; its row remembers, for the
\* properties, the organization that the project was in.
AddPublisher(w, a, p) ==
    /\ Administers(a, p) /\ ~Has("publisher", p, p)
    /\ Request(w, Ownership(p), {Ins(Key("publisher", p, p), Row(OrgsOf(p)))})
-----------------------------------------------------------------------------
(* Projects of an organization.                                            *)

OwnRole(a, p) == IF a \in Owners(p) THEN {Key("role", p, a)} ELSE {}
\* Variant: only the association itself is deleted.
Leave_KeepsRights(o, p) == DelAll({Key("orgproject", o, p)})

Leave(o, p) == DelAll({Key("orgproject", o, p), Key("teamproject", o, p), Key("publisher", p, p)})
LeaveAll(p) == UNION {Leave(o, p) : o \in OrgsOf(p)}
Join(o, p) == {Ins(Key("orgproject", o, p), Row("row"))}

AddOrganizationProject(w, a, o, p) ==
    /\ InGoodStanding(o) /\ RoleIn("orgrole", o, a) \in {"Owner", "Manager"}
    /\ p \in ProjectsOwned(a) /\ OrgsOf(p) = {}
    /\ Request(w, OwnershipOf(p) \cup {Key("orgrole", o, a)}, DelAll(OwnRole(a, p)) \cup Join(o, p))

RemoveOrganizationProject(w, a, o, p) ==
    /\ Administers(a, p) /\ o \in OrgsOf(p)
    /\ a \in OrgOwners(o) /\ Owners(p) # {}
    /\ Request(w, Ownership(p), Leave(o, p))

\* Variant: the project stays in the organization it came from.
TransferOrganizationProject_Stays(w, a, p, o) ==
    /\ Administers(a, p) /\ \A x \in OrgsOf(p) : a \in OrgOwners(x)
    /\ o \notin OrgsOf(p) /\ InGoodStanding(o)
    /\ RoleIn("orgrole", o, a) \in {"Owner", "Manager"}
    /\ Request(w, Ownership(p) \cup {Key("orgrole", o, a)}, DelAll(OwnRole(a, p)) \cup Join(o, p))

TransferOrganizationProject(w, a, p, o) ==
    /\ Administers(a, p) /\ \A x \in OrgsOf(p) : a \in OrgOwners(x)
    /\ o \notin OrgsOf(p) /\ InGoodStanding(o)
    /\ RoleIn("orgrole", o, a) \in {"Owner", "Manager"}
    /\ Request(w, Ownership(p) \cup {Key("orgrole", o, a)},
               DelAll(OwnRole(a, p)) \cup LeaveAll(p) \cup Join(o, p))
-----------------------------------------------------------------------------
(* Members of an organization and of its team.                             *)

InviteMember(w, a, o, u, r) ==
    /\ a \in OrgOwners(o) /\ CanManageMembers(o) /\ Has("user", u, u)
    /\ InGoodStanding(o) \/ r = "Billing Manager"
    /\ ~Has("orgrole", o, u)
    /\ Invite(w, a, "orginvite", o, u, r, {Key("orgrole", o, u)})

ResendOrganizationInvitation(w, a, o, u) ==
    /\ Has("orginvite", o, u)
    /\ InviteMember(w, a, o, u, db[Key("orginvite", o, u)].token.role)

PendingPublisher(o, u) ==
    IF RoleIn("pending", o, u) = "row" THEN {Key("pending", o, u)} ELSE {}

\* Variant: a demotion leaves pending publishers alone.
ChangeOrganizationRole_KeepsPublisher(w, a, o, u, r) ==
    /\ a \in OrgOwners(o) /\ CanManageMembers(o) /\ Has("orgrole", o, u)
    /\ r # RoleIn("orgrole", o, u)
    /\ InGoodStanding(o) \/ r = "Billing Manager"
    /\ ~(RoleIn("orgrole", o, u) = "Owner" /\ u = a)
    /\ Request(w, OwnershipOfOrg(o) \cup {Key("pending", o, u)}, {Upd(Key("orgrole", o, u), Row(r))})

ChangeOrganizationRole(w, a, o, u, r) ==
    /\ a \in OrgOwners(o) /\ CanManageMembers(o) /\ Has("orgrole", o, u)
    /\ r # RoleIn("orgrole", o, u)
    /\ InGoodStanding(o) \/ r = "Billing Manager"
    /\ ~(RoleIn("orgrole", o, u) = "Owner" /\ u = a)
    /\ Request(w, OwnershipOfOrg(o) \cup {Key("pending", o, u)},
               {Upd(Key("orgrole", o, u), Row(r))}
               \cup (IF r = "Owner" THEN {} ELSE DelAll(PendingPublisher(o, u))))

DeleteOrganizationRole(w, a, o, u) ==
    /\ CanManageMembers(o) /\ Has("orgrole", o, u)
    /\ \/ a \in OrgOwners(o)
       \/ a = u /\ RoleIn("orgrole", o, a) \in {"Manager", "Member"}
    /\ ~(RoleIn("orgrole", o, u) = "Owner" /\ u = a /\ o \in OrgsWithSoleOwner(a))
    /\ Request(w, OwnershipOfOrg(o) \cup {Key("pending", o, u), Key("member", o, u)},
               DelAll({Key("orgrole", o, u)} \cup PendingPublisher(o, u)
                      \cup ({Key("member", o, u)} \cap DOMAIN db)))

CreateTeamRole(w, a, o, u) ==
    /\ InGoodStanding(o) /\ RoleIn("orgrole", o, a) \in {"Owner", "Manager"}
    /\ u \in InternalUsers(o) /\ ~Has("member", o, u)
    /\ Request(w, {Key("orgrole", o, u)}, {Ins(Key("member", o, u), Row("row"))})

DeleteTeamRole(w, a, o, u) ==
    /\ InGoodStanding(o) /\ Has("member", o, u)
    /\ \/ RoleIn("orgrole", o, a) \in {"Owner", "Manager"}
       \/ a = u /\ RoleIn("orgrole", o, a) = "Member"
    /\ Request(w, {}, {Del(Key("member", o, u))})

AddPendingPublisher(w, a, o) ==
    /\ InGoodStanding(o) /\ a \in OrgOwners(o) /\ ~Has("pending", o, a)
    /\ Request(w, {Key("orgrole", o, a)}, {Ins(Key("pending", o, a), Row("row"))})

DeleteOrganization(w, a, o) ==
    /\ a \in OrgOwners(o) /\ ProjectsOf(o) = {}
    /\ Request(w, {Key("orgproject", o, p) : p \in Projects}, {Del(Key("org", o, o))})

\* Variant: an account that owns no project alone may go.
DeleteAccount_KeepsNoOrganization(w, a) ==
    /\ SoleOwned(a) = {} /\ Has("user", a, a)
    /\ Request(w, AllOwnership, {Del(Key("user", a, a))})

DeleteAccount(w, a) ==
    /\ SoleOwned(a) = {} /\ OrgsWithSoleOwner(a) = {} /\ Has("user", a, a)
    /\ Request(w, AllOwnership, {Del(Key("user", a, a))})

\* Payments change the standing of an organization, as Billing describes.
StandingChanges(o, s) ==
    /\ Has("org", o, o) /\ RoleIn("org", o, o) # s
    /\ handled < MaxRequests
    /\ handled' = handled + 1
    /\ db' = [db EXCEPT ![Key("org", o, o)] = Row(s)]
    /\ UNCHANGED <<plan, tokens, expired, stale, raced>>
-----------------------------------------------------------------------------
ProjectRoles == {"Owner", "Maintainer"}
OrgRoles == {"Owner", "Manager", "Billing Manager", "Member"}
Standings == {"good", "unpaid", "inactive"}

(* Databases in which projects and organizations have owners.  Either the  *)
(* teams exist, with all members and as owners of the project, or not yet. *)
Roles(owners, in) == [k \in {Key("role", p, u) : p \in Projects, u \in owners}
                            \cup {Key("orgproject", o, p) : o \in in, p \in Projects}
                      |-> IF k[1] = "role" THEN Row("Owner") ELSE Row("row")]

Members(roleOf) == [k \in {Key("orgrole", o, u) : o \in Orgs, u \in Users} |-> Row(roleOf[k[2]][k[3]])]

Joined(roleOf) == {k \in DOMAIN Members(roleOf) : Members(roleOf)[k].role # "none"}

Teams(members, in) == [k \in {Key("member", m[2], m[3]) : m \in members}
                              \cup {Key("teamproject", o, p) : o \in in, p \in Projects}
                       |-> IF k[1] = "member" THEN Row("row") ELSE Row("Owner")]

\* One who is not an owner of the project or has no role in an organization
\* may have been invited, by someone who owns it.
Invitations(owners, in, roleOf) ==
    LET Owner(o) == CHOOSE u \in Users : roleOf[o][u] = "Owner"
        by == IF owners # {} THEN CHOOSE u \in owners : TRUE ELSE Owner(CHOOSE o \in in : TRUE)
    IN  [k \in {Key("invite", p, u) : p \in Projects, u \in Users \ owners}
               \cup {Key("orginvite", o, u) : o \in Orgs, u \in Users}
         |-> [status |-> "Pending",
              token  |-> [n |-> 1, role |-> "Owner",
                          by |-> IF k[1] = "invite" THEN by ELSE Owner(k[2])]]]

\* Those of them that are in no organization yet, when there are no teams.
Open(owners, in, invited, roleOf) ==
    {k \in DOMAIN Invitations(owners, in, roleOf) :
        k[3] \in invited /\ Key("orgrole", k[2], k[3]) \notin Joined(roleOf)}

Given(owners, in, teams, invited, roleOf) ==
    IF teams THEN Teams(Joined(roleOf), in)
             ELSE Restrict(Invitations(owners, in, roleOf), Open(owners, in, invited, roleOf))

Accounts == [k \in {Key("user", u, u) : u \in Users} \cup {Key("org", o, o) : o \in Orgs}
             |-> IF k[1] = "user" THEN Row("row") ELSE Row("good")]

Init ==
    /\ \E owners \in SUBSET Users, in \in SUBSET Orgs, teams \in BOOLEAN, invited \in SUBSET Users,
          roleOf \in [Orgs -> [Users -> {"Owner", "Member", "none"}]] :
          /\ Cardinality(in) <= 1 /\ Cardinality(invited) <= 1 /\ (teams => invited = {})
          /\ (owners # {} \/ in # {})
          /\ \A o \in Orgs : \E u \in Users : roleOf[o][u] = "Owner"
          /\ invited # {} => \A o \in Orgs, u \in Users : roleOf[o][u] # "Member"
          /\ db = Over(Accounts, Over(Roles(owners, in),
                  Over(Restrict(Members(roleOf), Joined(roleOf)), Given(owners, in, teams, invited, roleOf))))
          /\ tokens = Cardinality(invited)
    /\ plan = [w \in Workers \cup {Beat} |-> NoPlan]
    /\ handled = 0
    /\ expired = {} /\ stale = {} /\ raced = {}

ProjectRequest(w, a, p, u) ==
    \/ \E r \in ProjectRoles :
          \/ InviteCollaborator(w, a, p, u, r)
          \/ ChangeProjectRole(w, a, p, u, r)
          \/ \E o \in Orgs : AddInternalUser(w, a, p, o, u, r)
    \/ DeleteProjectRole(w, a, p, u)
    \/ Administers(a, p) /\ RevokeInvite(w, "invite", p, u)

TeamRequest(w, a, p, o) ==
    \/ \E r \in ProjectRoles : AddTeam(w, a, p, o, r) \/ ChangeTeamProjectRole(w, a, p, o, r)
    \/ DeleteTeamProjectRole(w, a, p, o)
    \/ AddOrganizationProject(w, a, o, p)
    \/ RemoveOrganizationProject(w, a, o, p)
    \/ TransferOrganizationProject(w, a, p, o)

OrganizationRequest(w, a, o, u) ==
    \/ \E r \in OrgRoles : InviteMember(w, a, o, u, r) \/ ChangeOrganizationRole(w, a, o, u, r)
    \/ ResendOrganizationInvitation(w, a, o, u)
    \/ a \in OrgOwners(o) /\ CanManageMembers(o) /\ RevokeInvite(w, "orginvite", o, u)
    \/ DeleteOrganizationRole(w, a, o, u)
    \/ CreateTeamRole(w, a, o, u)
    \/ DeleteTeamRole(w, a, o, u)

\* verify_project_role and verify_organization_role.
Answer(w, u) ==
    \/ \E p \in Projects : AcceptInvite(w, "invite", "role", p, u) \/ DeclineInvite(w, "invite", p, u)
    \/ \E o \in Orgs : AcceptInvite(w, "orginvite", "orgrole", o, u) \/ DeclineInvite(w, "orginvite", o, u)

Handle(w) ==
    Idle(w) /\ handled < MaxRequests /\ \E a \in Users :
       \/ \E p \in Projects, u \in Users : ProjectRequest(w, a, p, u)
       \/ \E p \in Projects, o \in Orgs : TeamRequest(w, a, p, o)
       \/ \E o \in Orgs, u \in Users : OrganizationRequest(w, a, o, u)
       \/ \E p \in Projects : AddPublisher(w, a, p)
       \/ \E o \in Orgs : AddPendingPublisher(w, a, o) \/ DeleteOrganization(w, a, o)
       \/ Answer(w, a)
       \/ DeleteAccount(w, a)

Ends(w) == Commit(w) \/ Rollback(w)
UpdateInvitations == UpdateInvitationStatus("invite") \/ UpdateInvitationStatus("orginvite")

Next ==
    \/ \E w \in Workers : Handle(w)
    \/ \E w \in Workers \cup {Beat} : Ends(w)
    \/ UpdateInvitations
    \/ \E n \in 1..tokens : TokenExpires(n)
    \/ \E o \in Orgs, s \in Standings : StandingChanges(o, s)

Spec == Init /\ [][Next]_vars
-----------------------------------------------------------------------------
(* Each handler's checks are right when nothing it read has changed by the *)
(* time it commits; `raced' names what was written after a stale check.    *)

(* A project keeps an individual owner or an organization with an owner:   *)
(* the sole-owner checks of the role, organization and account views agree *)
(* with each other and with the cascades.                                  *)
ProjectsHaveAnOwner ==
    \A p \in Projects \ raced :
        \/ Owners(p) # {}
        \/ \E o \in OrgsOf(p) : o \in raced \/ OrgOwners(o) # {}

(* An organization keeps an owner until it is deleted.                     *)
OrganizationsHaveAnOwner ==
    \A o \in Orgs \ raced : Has("org", o, o) => OrgOwners(o) # {}

(* Nothing but checks keeps a project from being in two organizations.     *)
OneOrganization == \A p \in Projects \ raced : Cardinality(OrgsOf(p)) <= 1

(* Who leaves an organization leaves its team and its pending publishers,  *)
(* and who is in it is not invited.                                        *)
MembershipsEndTogether ==
    \A o \in Orgs \ raced, u \in Users :
        /\ Has("member", o, u) => Has("orgrole", o, u)
        /\ RoleIn("pending", o, u) = "row" => u \in OrgOwners(o)
        /\ ~(Has("orginvite", o, u) /\ Has("orgrole", o, u))

(* A project that leaves an organization takes neither its team's rights   *)
(* nor the trusted publishers that were set up there.                      *)
RightsStayBehind ==
    \A p \in Projects \ raced :
        /\ \A o \in Orgs \ raced : Has("teamproject", o, p) => Has("orgproject", o, p)
        /\ Has("publisher", p, p) => RoleIn("publisher", p, p) \subseteq OrgsOf(p) \cup raced

(* An invitation that can be accepted is shown as pending, also when it is *)
(* sent again after it expired, whether or not the task has marked it.     *)
(* Not where the task and the sending read the row at the same time: who   *)
(* commits last has a stale check, and whatever order they come in, the    *)
(* new token can be left with the status Expired (organizations/tasks.py:  *)
(* 111, manage/tasks.py:25); `raced' excludes it.                          *)
AcceptableIsPending ==
    \A t \in {"invite", "orginvite"}, x \in (Projects \cup Orgs) \ raced, u \in Users :
        Readable(t, x, u) => Pending(t, x, u)
=============================================================================
