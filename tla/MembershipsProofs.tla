-------------------------- MODULE MembershipsProofs --------------------------
(* Theorems about Memberships. *)
EXTENDS MembershipPlans, FiniteSetTheorems, TLAPS

LEMMA KeysDiffer ==
    \A t, x, y, s, v, z :
       Key(t, x, y) = Key(s, v, z) <=> t = s /\ x = v /\ y = z
  BY DEF Key

LEMMA KeyParts ==
    \A t, x, y : Key(t, x, y)[1] = t /\ Key(t, x, y)[2] = x /\ Key(t, x, y)[3] = y
  BY DEF Key

(* Which rows go with an account and which with an organization.           *)
LEMMA ParentRows ==
    /\ \A x, y : Parents(Key("role", x, y)) = {Key("user", y, y)}
    /\ \A x, y : Parents(Key("invite", x, y)) = {Key("user", y, y)}
    /\ \A x, y : Parents(Key("orgrole", x, y)) = {Key("org", x, x), Key("user", y, y)}
    /\ \A x, y : Parents(Key("orginvite", x, y)) = {Key("org", x, x), Key("user", y, y)}
    /\ \A x, y : Parents(Key("member", x, y)) = {Key("org", x, x), Key("user", y, y)}
    /\ \A x, y : Parents(Key("pending", x, y)) = {Key("org", x, x), Key("user", y, y)}
    /\ \A x, y : Parents(Key("orgproject", x, y)) = {Key("org", x, x)}
    /\ \A x, y : Parents(Key("teamproject", x, y)) = {Key("org", x, x)}
    /\ \A x, y : Parents(Key("publisher", x, y)) = {}
    /\ \A x, y : Parents(Key("user", x, y)) = {}
    /\ \A x, y : Parents(Key("org", x, y)) = {}
  <1>1. \A x, y : Parents(Key("role", x, y)) = {Key("user", y, y)}
    BY KeysDiffer, KeyParts DEF Parents
  <1>2. \A x, y : Parents(Key("invite", x, y)) = {Key("user", y, y)}
    BY KeysDiffer, KeyParts DEF Parents
  <1>3. \A x, y : Parents(Key("orgrole", x, y)) = {Key("org", x, x), Key("user", y, y)}
    BY KeysDiffer, KeyParts DEF Parents
  <1>4. \A x, y : Parents(Key("orginvite", x, y)) = {Key("org", x, x), Key("user", y, y)}
    BY KeysDiffer, KeyParts DEF Parents
  <1>5. \A x, y : Parents(Key("member", x, y)) = {Key("org", x, x), Key("user", y, y)}
    BY KeysDiffer, KeyParts DEF Parents
  <1>6. \A x, y : Parents(Key("pending", x, y)) = {Key("org", x, x), Key("user", y, y)}
    BY KeysDiffer, KeyParts DEF Parents
  <1>7. \A x, y : Parents(Key("orgproject", x, y)) = {Key("org", x, x)}
    BY KeysDiffer, KeyParts DEF Parents
  <1>8. \A x, y : Parents(Key("teamproject", x, y)) = {Key("org", x, x)}
    BY KeysDiffer, KeyParts DEF Parents
  <1>9. \A x, y : Parents(Key("publisher", x, y)) = {}
    BY KeysDiffer, KeyParts DEF Parents
  <1>10. \A x, y : Parents(Key("user", x, y)) = {}
    BY KeysDiffer, KeyParts DEF Parents
  <1>11. \A x, y : Parents(Key("org", x, y)) = {}
    BY KeysDiffer, KeyParts DEF Parents
  <1> QED
    BY <1>1, <1>2, <1>3, <1>4, <1>5, <1>6, <1>7, <1>8, <1>9, <1>10, <1>11

(* What a DELETE takes with it. *)
LEMMA RemovedRows ==
    ASSUME NEW w, NEW D, D = Deleted(plan[w].writes)
    PROVE  /\ \A p, u : Key("role", p, u) \in Removed(w)
                 <=> \/ Key("role", p, u) \in D
                     \/ Has("role", p, u) /\ Key("user", u, u) \in D
           /\ \A p, u : Key("invite", p, u) \in Removed(w)
                 <=> \/ Key("invite", p, u) \in D
                     \/ Has("invite", p, u) /\ Key("user", u, u) \in D
           /\ \A t \in {"orgrole", "orginvite", "member"} : \A o, u : Key(t, o, u) \in Removed(w)
                 <=> \/ Key(t, o, u) \in D
                     \/ Has(t, o, u) /\ (Key("org", o, o) \in D \/ Key("user", u, u) \in D)
           /\ \A o, u : Key("pending", o, u) \in Removed(w)
                 <=> \/ Key("pending", o, u) \in D
                     \/ Has("pending", o, u) /\ Key("user", u, u) \in D
           /\ \A t \in {"orgproject", "teamproject"} : \A o, p : Key(t, o, p) \in Removed(w)
                 <=> \/ Key(t, o, p) \in D
                     \/ Has(t, o, p) /\ Key("org", o, o) \in D
           /\ \A t \in {"org", "user", "publisher"} : \A x, y : Key(t, x, y) \in Removed(w)
                 <=> Key(t, x, y) \in D
  <1>1. Keys(w, "delete") = D
    BY DEF Keys, Deleted
  <1>2. \A k : k \in Removed(w) <=>
           \/ k \in D
           \/ /\ k \in DOMAIN db /\ Parents(k) \cap D # {}
              /\ (k[1] = "pending" => Key("user", k[3], k[3]) \in D)
    BY <1>1 DEF Removed, Cascade
  <1>3. \A t, x, y : Key(t, x, y) \in Removed(w) <=>
           \/ Key(t, x, y) \in D
           \/ /\ Has(t, x, y) /\ Parents(Key(t, x, y)) \cap D # {}
              /\ (t = "pending" => Key("user", y, y) \in D)
    BY <1>2, KeyParts DEF Has
  <1>4. \A p, u : Key("role", p, u) \in Removed(w)
                 <=> \/ Key("role", p, u) \in D
                     \/ Has("role", p, u) /\ Key("user", u, u) \in D
    BY <1>3, ParentRows
  <1>5. \A p, u : Key("invite", p, u) \in Removed(w)
                 <=> \/ Key("invite", p, u) \in D
                     \/ Has("invite", p, u) /\ Key("user", u, u) \in D
    BY <1>3, ParentRows
  <1>6. \A t \in {"orgrole", "orginvite", "member"} : \A o, u : Key(t, o, u) \in Removed(w)
                 <=> \/ Key(t, o, u) \in D
                     \/ Has(t, o, u) /\ (Key("org", o, o) \in D \/ Key("user", u, u) \in D)
    BY <1>3, ParentRows
  <1>7. \A o, u : Key("pending", o, u) \in Removed(w)
                 <=> \/ Key("pending", o, u) \in D
                     \/ Has("pending", o, u) /\ Key("user", u, u) \in D
    BY <1>3, ParentRows
  <1>8. \A t \in {"orgproject", "teamproject"} : \A o, p : Key(t, o, p) \in Removed(w)
                 <=> \/ Key(t, o, p) \in D
                     \/ Has(t, o, p) /\ Key("org", o, o) \in D
    BY <1>3, ParentRows
  <1>9. \A t \in {"org", "user", "publisher"} : \A x, y : Key(t, x, y) \in Removed(w)
                 <=> Key(t, x, y) \in D
    BY <1>3, ParentRows
  <1> QED
    BY <1>4, <1>5, <1>6, <1>7, <1>8, <1>9

(* The rows after a commit. *)
LEMMA CommittedRows ==
    ASSUME PlansWellFormed, NEW w \in Servers, Commit(w),
           NEW W, W = plan[w].writes
    PROVE  /\ Inserted(W) \cap DOMAIN db = {}
           /\ \A k \in Inserted(W) : Parents(k) \subseteq DOMAIN db
           /\ Updated(W) \subseteq DOMAIN db
           /\ \A k : k \in DOMAIN db' <=> (k \in DOMAIN db \/ k \in Inserted(W)) /\ k \notin Removed(w)
           /\ \A k \in DOMAIN db' : k \notin Inserted(W) \cup Updated(W) \cup Detached(w) => db'[k] = db[k]
           /\ \A k \in Detached(w) : k \in DOMAIN db' /\ db'[k] = Row("personal")
           /\ \A x \in W : x.op = "insert" => db'[x.key] = x.row
           /\ \A x \in W : x.op = "update" /\ x.key \in DOMAIN db'
                 => db'[x.key] = Over(x.row, db[x.key])
  <1>1. Keys(w, "delete") = Deleted(W) /\ Keys(w, "insert") = Inserted(W) /\ Keys(w, "update") = Updated(W)
    BY DEF Keys, Deleted, Inserted, Updated
  <1>2. WellFormed(W)
    BY DEF PlansWellFormed
  <1>3. /\ Inserted(W) \cap DOMAIN db = {}
        /\ \A k \in Inserted(W) : Parents(k) \subseteq DOMAIN db
        /\ Updated(W) \subseteq DOMAIN db
    BY <1>1 DEF Commit, Fails
  <1>4. db' = [k \in (DOMAIN db \cup Inserted(W)) \ Removed(w) |->
                 IF k \in Detached(w) THEN Row("personal") ELSE NewRow(w, k)]
    BY <1>1 DEF Commit
  <1>5. \A k : k \in DOMAIN db' <=> (k \in DOMAIN db \/ k \in Inserted(W)) /\ k \notin Removed(w)
    BY <1>4
  <1>6. Detached(w) \subseteq DOMAIN db' /\ Detached(w) \subseteq DOMAIN db
    BY <1>4 DEF Detached
  <1>7. \A k \in Detached(w) : db'[k] = Row("personal")
    BY <1>4, <1>6
  <1>8. ASSUME NEW x \in W, x.op # "delete"
        PROVE  NewRow(w, x.key) = IF x.op = "insert" THEN x.row ELSE Over(x.row, db[x.key])
    <2>1. {y \in W : y.key = x.key /\ y.op # "delete"} = {x}
      BY <1>2, <1>8 DEF WellFormed, OneWritePerRow
    <2> DEFINE written == {y \in plan[w].writes : y.key = x.key /\ y.op # "delete"}
    <2>2. written = {x}
      BY <2>1
    <2>3. (CHOOSE y \in written : TRUE) = x
      BY <2>2
    <2> QED
      BY <2>2, <2>3 DEF NewRow
  <1>9. ASSUME NEW k, k \notin Inserted(W) \cup Updated(W)
        PROVE  NewRow(w, k) = db[k]
    <2> DEFINE written == {y \in plan[w].writes : y.key = k /\ y.op # "delete"}
    <2>1. written = {}
      BY <1>2, <1>9 DEF WellFormed, OneWritePerRow, Inserted, Updated, KeysOf
    <2> QED
      BY <2>1 DEF NewRow
  <1>10. \A k \in DOMAIN db' : k \notin Inserted(W) \cup Updated(W) \cup Detached(w) => db'[k] = db[k]
    BY <1>4, <1>9
  <1>11. Inserted(W) \cap Removed(w) = {}
    BY <1>1, <1>2, <1>3 DEF Removed, Cascade, WellFormed, OneWritePerRow
  <1>12. ASSUME NEW x \in W, x.op = "insert"
         PROVE  db'[x.key] = x.row
    <2>1. x.key \in Inserted(W)
      BY <1>12 DEF Inserted, KeysOf
    <2>2. x.key \in DOMAIN db' /\ x.key \notin Detached(w)
      BY <2>1, <1>3, <1>5, <1>6, <1>11
    <2> QED
      BY <2>2, <1>4, <1>8, <1>12
  <1>13. ASSUME NEW x \in W, x.op = "update", x.key \in DOMAIN db'
         PROVE  db'[x.key] = Over(x.row, db[x.key])
    <2>1. x.key \in Updated(W)
      BY <1>13 DEF Updated, KeysOf
    <2>2. x.key \notin Detached(w)
      BY <2>1, <1>2 DEF WellFormed, UpdatesRoles, Invitation, Updated, KeysOf, Detached
    <2> QED
      BY <2>2, <1>4, <1>8, <1>13
  <1> QED
    BY <1>3, <1>5, <1>6, <1>7, <1>10, <1>12, <1>13

-----------------------------------------------------------------------------
(* Commits of requests whose checks are stale.                             *)

SameRow(k) == (k \in DOMAIN db' <=> k \in DOMAIN db) /\ (k \in DOMAIN db => db'[k] = db[k])

LEMMA UntouchedRows ==
    ASSUME PlansWellFormed, NEW w \in Servers, Commit(w)
    PROVE  \A k : k \notin Touched(w) \cup Detached(w) => SameRow(k)
  <1> DEFINE W == plan[w].writes
  <1>1. \A k : k \notin Touched(w) => k \notin Inserted(W) \cup Updated(W) \cup Removed(w)
    BY DEF Touched, Keys, Inserted, Updated
  <1>2. /\ \A k : k \in DOMAIN db' <=> (k \in DOMAIN db \/ k \in Inserted(W)) /\ k \notin Removed(w)
        /\ \A k \in DOMAIN db' : k \notin Inserted(W) \cup Updated(W) \cup Detached(w) => db'[k] = db[k]
    BY CommittedRows
  <1> HIDE DEF W
  <1> QED
    BY <1>1, <1>2 DEF SameRow

LEMMA RacedRows ==
    ASSUME PlansWellFormed, NEW w \in Servers, Commit(w), w \in stale
    PROVE  /\ raced \subseteq raced'
           /\ \A x \in (Projects \cup Orgs) \ raced' : \A t, y : SameRow(Key(t, x, y))
           /\ \A y \in (Projects \cup Orgs) \ raced' : \A t, x : t # "pending" => SameRow(Key(t, x, y))
  <1>1. raced' = raced \cup Subjects(Touched(w))
    BY DEF Commit
  <1>2. \A k \in Touched(w) : {k[2], k[3]} \cap (Projects \cup Orgs) \subseteq raced'
    BY <1>1 DEF Subjects
  <1>3. ASSUME NEW x \in (Projects \cup Orgs) \ raced', NEW t, NEW y
        PROVE  SameRow(Key(t, x, y))
    <2>1. Key(t, x, y) \notin Touched(w)
      BY <1>2, KeyParts
    <2>2. Key("org", x, x) \notin Touched(w)
      BY <1>2, KeyParts
    <2>3. Key(t, x, y) \notin Detached(w)
      BY <2>2, KeyParts DEF Detached, Touched
    <2> QED
      BY <2>1, <2>3, UntouchedRows
  <1>4. ASSUME NEW y \in (Projects \cup Orgs) \ raced', NEW t, NEW x, t # "pending"
        PROVE  SameRow(Key(t, x, y))
    <2>1. Key(t, x, y) \notin Touched(w)
      BY <1>2, KeyParts
    <2>2. Key(t, x, y) \notin Detached(w)
      BY <1>4, KeyParts DEF Detached
    <2> QED
      BY <2>1, <2>2, UntouchedRows
  <1> QED
    BY <1>1, <1>3, <1>4

LEMMA StaleCommit ==
    ASSUME MembershipsInv, NEW w \in Servers, Commit(w), w \in stale
    PROVE  /\ ProjectsAreOwned'
           /\ OrganizationsHaveAnOwner'
           /\ AtMostOneOrganization'
           /\ MembershipsEndTogether'
           /\ RightsStayBehind'
           /\ AcceptableIsPending'
  <1> USE DEF MembershipsInv
  <1>1. raced \subseteq raced' /\ expired' = expired
    BY RacedRows DEF Commit
  <1>2. \A x \in (Projects \cup Orgs) \ raced' : \A t, y :
           /\ Has(t, x, y)' <=> Has(t, x, y)
           /\ RoleIn(t, x, y)' = RoleIn(t, x, y)
           /\ Has(t, x, y) => db'[Key(t, x, y)] = db[Key(t, x, y)]
    BY RacedRows DEF SameRow, Has, RoleIn
  <1>3. \A p \in Projects \ raced' : \A o : Has("orgproject", o, p)' <=> Has("orgproject", o, p)
    BY RacedRows DEF SameRow, Has
  <1>4. \A p \in Projects \ raced' : Owners(p)' = Owners(p)
    BY <1>2 DEF Owners
  <1>5. \A p \in Projects \ raced' : OrgsOf(p)' = OrgsOf(p)
    BY <1>3 DEF OrgsOf
  <1>6. \A o \in Orgs \ raced' : OrgOwners(o)' = OrgOwners(o)
    BY <1>2 DEF OrgOwners
  <1>7. ProjectsAreOwned'
    BY <1>1, <1>4, <1>5 DEF ProjectsAreOwned
  <1>8. OrganizationsHaveAnOwner'
    BY <1>1, <1>2, <1>6 DEF OrganizationsHaveAnOwner
  <1>9. AtMostOneOrganization'
    BY <1>1, <1>5 DEF AtMostOneOrganization
  <1>10. MembershipsEndTogether'
    BY <1>1, <1>2, <1>6 DEF MembershipsEndTogether
  <1>11. RightsStayBehind'
    BY <1>1, <1>2, <1>3, <1>5 DEF RightsStayBehind
  <1>12. AcceptableIsPending'
    BY <1>1, <1>2 DEF AcceptableIsPending, Readable, Pending, Has
  <1> QED
    BY <1>7, <1>8, <1>9, <1>10, <1>11, <1>12

-----------------------------------------------------------------------------
(* Commits of requests whose checks still hold.                            *)

(* What becomes of the rows of each table. *)
LEMMA RowsAfter ==
    ASSUME PlansWellFormed, NEW w \in Servers, Commit(w),
           NEW W, W = plan[w].writes
    PROVE  /\ \A p, u : Has("role", p, u)' <=>
                 /\ Has("role", p, u) \/ Key("role", p, u) \in Inserted(W)
                 /\ Key("role", p, u) \notin Deleted(W)
                 /\ ~(Has("role", p, u) /\ Key("user", u, u) \in Deleted(W))
           /\ \A t \in {"orgrole", "orginvite", "member"} : \A o, u : Has(t, o, u)' <=>
                 /\ Has(t, o, u) \/ Key(t, o, u) \in Inserted(W)
                 /\ Key(t, o, u) \notin Deleted(W)
                 /\ ~(Has(t, o, u) /\ Key("user", u, u) \in Deleted(W))
                 /\ ~(Has(t, o, u) /\ Key("org", o, o) \in Deleted(W))
           /\ \A o, u : Has("pending", o, u)' <=>
                 /\ Has("pending", o, u) \/ Key("pending", o, u) \in Inserted(W)
                 /\ Key("pending", o, u) \notin Deleted(W)
                 /\ ~(Has("pending", o, u) /\ Key("user", u, u) \in Deleted(W))
           /\ \A t \in {"orgproject", "teamproject"} : \A o, p : Has(t, o, p)' <=>
                 /\ Has(t, o, p) \/ Key(t, o, p) \in Inserted(W)
                 /\ Key(t, o, p) \notin Deleted(W)
                 /\ ~(Has(t, o, p) /\ Key("org", o, o) \in Deleted(W))
           /\ \A t \in {"org", "user", "publisher"} : \A x, y : Has(t, x, y)' <=>
                 /\ Has(t, x, y) \/ Key(t, x, y) \in Inserted(W)
                 /\ Key(t, x, y) \notin Deleted(W)
  <1>1. \A t, x, y : Has(t, x, y)' <=>
           (Has(t, x, y) \/ Key(t, x, y) \in Inserted(W)) /\ Key(t, x, y) \notin Removed(w)
    BY CommittedRows DEF Has
  <1> QED
    BY <1>1, RemovedRows

(* Values of rows. *)
LEMMA RolesAfter ==
    ASSUME PlansWellFormed, NEW w \in Servers, Commit(w),
           NEW W, W = plan[w].writes
    PROVE  /\ \A t, x, y : Has(t, x, y) /\ Has(t, x, y)' /\ t # "pending"
                 /\ Key(t, x, y) \notin Updated(W) => RoleIn(t, x, y)' = RoleIn(t, x, y)
           /\ \A x \in W : \A t, y, z : x.op = "insert" /\ x.key = Key(t, y, z) /\ Has(t, y, z)'
                 => RoleIn(t, y, z)' = x.row.role
           /\ \A o, u : Has("pending", o, u) /\ Has("pending", o, u)'
                 => \/ RoleIn("pending", o, u)' = RoleIn("pending", o, u)
                    \/ RoleIn("pending", o, u)' = "personal"
           /\ \A o, u : Has("pending", o, u) /\ Key("org", o, o) \in Deleted(W) /\ Has("pending", o, u)'
                 => RoleIn("pending", o, u)' = "personal"
  <1>1. WellFormed(W)
    BY DEF PlansWellFormed
  <1>2. \A t, x, y : Has(t, x, y)' => RoleIn(t, x, y)' = db'[Key(t, x, y)].role
    BY DEF RoleIn
  <1>3. \A t, x, y : Has(t, x, y) => RoleIn(t, x, y) = db[Key(t, x, y)].role
    BY DEF RoleIn
  <1>4. ASSUME NEW t, NEW x, NEW y, Has(t, x, y), Has(t, x, y)', t # "pending",
               Key(t, x, y) \notin Updated(W)
        PROVE  RoleIn(t, x, y)' = RoleIn(t, x, y)
    <2>1. Key(t, x, y) \notin Detached(w)
      BY <1>4, KeyParts DEF Detached
    <2>2. Key(t, x, y) \notin Inserted(W)
      BY <1>4, CommittedRows DEF Has
    <2>3. db'[Key(t, x, y)] = db[Key(t, x, y)]
      BY <1>4, <2>1, <2>2, CommittedRows DEF Has
    <2> QED
      BY <2>3, <1>2, <1>3, <1>4
  <1>5. \A x \in W : \A t, y, z : x.op = "insert" /\ x.key = Key(t, y, z) /\ Has(t, y, z)'
           => RoleIn(t, y, z)' = x.row.role
    BY <1>2, CommittedRows
  <1>6. ASSUME NEW o, NEW u, Has("pending", o, u), Has("pending", o, u)'
        PROVE  IF Key("pending", o, u) \in Detached(w)
                 THEN RoleIn("pending", o, u)' = "personal"
                 ELSE RoleIn("pending", o, u)' = RoleIn("pending", o, u)
    <2>1. Key("pending", o, u) \notin Updated(W)
      BY <1>1, KeyParts DEF WellFormed, UpdatesRoles, Invitation, Updated, KeysOf
    <2>2. Key("pending", o, u) \notin Inserted(W)
      BY <1>6, CommittedRows DEF Has
    <2>3. CASE Key("pending", o, u) \in Detached(w)
      BY <2>3, <1>2, <1>6, CommittedRows DEF Row
    <2>4. CASE Key("pending", o, u) \notin Detached(w)
      <3>1. db'[Key("pending", o, u)] = db[Key("pending", o, u)]
        BY <2>4, <2>1, <2>2, <1>6, CommittedRows DEF Has
      <3> QED
        BY <3>1, <2>4, <1>2, <1>3, <1>6
    <2> QED
      BY <2>3, <2>4
  <1>7. ASSUME NEW o, NEW u, Has("pending", o, u), Key("org", o, o) \in Deleted(W), Has("pending", o, u)'
        PROVE  Key("pending", o, u) \in Detached(w)
    <2>1. Key("pending", o, u) \notin Removed(w)
      BY <1>7, CommittedRows DEF Has
    <2>2. Key("org", o, o) \in Removed(w)
      BY <1>7, RemovedRows
    <2> QED
      BY <2>1, <2>2, <1>7, KeyParts DEF Detached, Has
  <1> QED
    BY <1>4, <1>5, <1>6, <1>7

USE DEF KeepsOwners, LeavesNoProjects, KeepsOrgOwners, JoinsAtMostOne, LeavesAllRights,
        PublishesOnlyHere, AllJoinFromInside, AllLeaveTogether, InvitesOnlyOutsiders, ShowsAllPending

LEMMA OwnerStays ==
    ASSUME MembershipsInv, NEW w \in Servers, Commit(w), w \notin stale,
           NEW p \in Projects, HasOwner(p)
    PROVE  HasOwner(p)'
  <1> DEFINE R == plan[w].reads
             W == plan[w].writes
  <1>1. PlansWellFormed
    BY DEF MembershipsInv
  <1>2. /\ KeepsAnOwner(R, W, p)
        /\ \A o \in Orgs : LeavesNoProject(R, W, o)
    BY DEF MembershipsInv, PlansJustified, Justified
  <1>3. Owners(p) # {} \/ OrgsOf(p) # {}
    BY DEF HasOwner
  <1>4. ASSUME NEW u \in Owners(p), u \notin Losing(W, p)
        PROVE  u \in Owners(p)'
    <2>1. Has("role", p, u) /\ RoleIn("role", p, u) = "Owner" /\ u \in Users
      BY DEF Owners, RoleIn
    <2>2. /\ Key("role", p, u) \notin Updated(W)
          /\ Key("role", p, u) \notin Deleted(W)
          /\ Key("user", u, u) \notin Deleted(W)
      BY <1>4, <2>1 DEF Losing, Changed
    <2>3. Has("role", p, u)'
      BY <2>1, <2>2, <1>1, RowsAfter
    <2>4. RoleIn("role", p, u)' = "Owner"
      BY <2>1, <2>2, <2>3, <1>1, RolesAfter
    <2> QED
      BY <2>1, <2>4 DEF Owners
  <1>5. ASSUME NEW o \in OrgsOf(p), o \notin Leaving(W, p)
        PROVE  o \in OrgsOf(p)'
    <2>1. Has("orgproject", o, p) /\ o \in Orgs
      BY DEF OrgsOf
    <2>2. Key("orgproject", o, p) \notin Deleted(W)
      BY <1>5, <2>1 DEF Leaving
    <2>3. Key("org", o, o) \notin Deleted(W)
      BY <1>2, <2>1 DEF LeavesNoProject
    <2>4. Has("orgproject", o, p)'
      BY <2>1, <2>2, <2>3, <1>1, RowsAfter
    <2> QED
      BY <2>1, <2>4 DEF OrgsOf
  <1>6. ASSUME NEW o \in Joining(W, p)
        PROVE  o \in OrgsOf(p)'
    <2>1. Key("orgproject", o, p) \in Inserted(W) /\ o \in Orgs
      BY DEF Joining
    <2>2. Key("orgproject", o, p) \notin DOMAIN db
      BY <2>1, <1>1, CommittedRows
    <2>3. Key("orgproject", o, p) \notin Deleted(W)
      BY <2>1, <1>1 DEF PlansWellFormed, WellFormed, OneWritePerRow
    <2>4. Has("orgproject", o, p)'
      BY <2>1, <2>2, <2>3, <1>1, RowsAfter DEF Has
    <2> QED
      BY <2>1, <2>4 DEF OrgsOf
  <1> HIDE DEF R, W
  <1> QED
    BY <1>2, <1>3, <1>4, <1>5, <1>6 DEF KeepsAnOwner, HasOwner

LEMMA OwnersKept ==
    ASSUME MembershipsInv, NEW w \in Servers, Commit(w), w \notin stale
    PROVE  ProjectsAreOwned'
  <1>1. raced' = raced
    BY DEF Commit
  <1>2. ASSUME NEW p \in Projects \ raced
        PROVE  HasOwner(p)'
    <2>1. HasOwner(p)
      BY DEF MembershipsInv, ProjectsAreOwned, HasOwner
    <2> QED
      BY <2>1, OwnerStays
  <1> QED
    BY <1>1, <1>2 DEF ProjectsAreOwned, HasOwner

LEMMA OrgOwnerStays ==
    ASSUME MembershipsInv, NEW w \in Servers, Commit(w), w \notin stale,
           NEW o \in Orgs, Has("org", o, o)'
    PROVE  /\ Has("org", o, o)
           /\ OrgOwners(o) # {} => OrgOwners(o)' # {}
  <1> DEFINE R == plan[w].reads
             W == plan[w].writes
  <1>1. PlansWellFormed
    BY DEF MembershipsInv
  <1>2. KeepsAnOrgOwner(R, W, o)
    BY DEF MembershipsInv, PlansJustified, Justified
  <1>3. Key("org", o, o) \notin Inserted(W)
    BY <1>1 DEF PlansWellFormed, WellFormed, InsertsBesideRows
  <1>4. Has("org", o, o) /\ Key("org", o, o) \notin Deleted(W)
    BY <1>1, <1>3, RowsAfter
  <1>5. ASSUME NEW u \in OrgOwners(o), u \notin LosingInOrg(W, o)
        PROVE  u \in OrgOwners(o)'
    <2>1. Has("orgrole", o, u) /\ RoleIn("orgrole", o, u) = "Owner" /\ u \in Users
      BY DEF OrgOwners, RoleIn
    <2>2. /\ Key("orgrole", o, u) \notin Updated(W)
          /\ Key("orgrole", o, u) \notin Deleted(W)
          /\ Key("user", u, u) \notin Deleted(W)
      BY <1>5, <2>1 DEF LosingInOrg, Changed
    <2>3. Has("orgrole", o, u)'
      BY <2>1, <2>2, <1>1, <1>4, RowsAfter
    <2>4. RoleIn("orgrole", o, u)' = "Owner"
      BY <2>1, <2>2, <2>3, <1>1, RolesAfter
    <2> QED
      BY <2>1, <2>4 DEF OrgOwners
  <1> HIDE DEF R, W
  <1> QED
    BY <1>2, <1>4, <1>5 DEF KeepsAnOrgOwner

LEMMA OrgOwnersKept ==
    ASSUME MembershipsInv, NEW w \in Servers, Commit(w), w \notin stale
    PROVE  OrganizationsHaveAnOwner'
  <1>1. raced' = raced
    BY DEF Commit
  <1>2. ASSUME NEW o \in Orgs \ raced, Has("org", o, o)'
        PROVE  OrgOwners(o)' # {}
    <2>1. Has("org", o, o)
      BY <1>2, OrgOwnerStays
    <2>2. OrgOwners(o) # {}
      BY <2>1 DEF MembershipsInv, OrganizationsHaveAnOwner
    <2> QED
      BY <2>2, <1>2, OrgOwnerStays
  <1> QED
    BY <1>1, <1>2 DEF OrganizationsHaveAnOwner

LEMMA OneOrganizationKept ==
    ASSUME MembershipsInv, NEW w \in Servers, Commit(w), w \notin stale
    PROVE  AtMostOneOrganization'
  <1> DEFINE R == plan[w].reads
             W == plan[w].writes
  <1>1. PlansWellFormed /\ AtMostOneOrganization
    BY DEF MembershipsInv
  <1>2. raced' = raced
    BY DEF Commit
  <1>3. \A p \in Projects : JoinsOne(R, W, p)
    BY DEF MembershipsInv, PlansJustified, Justified
  <1>4. SUFFICES ASSUME NEW p \in Projects, p \notin raced,
                        NEW o1 \in OrgsOf(p)', NEW o2 \in OrgsOf(p)'
                 PROVE  o1 = o2
    BY <1>2 DEF AtMostOneOrganization
  <1>5. \A a, b \in OrgsOf(p) : a = b
    BY <1>1, <1>4 DEF AtMostOneOrganization
  <1>6. ASSUME NEW o \in OrgsOf(p)'
        PROVE  (o \in OrgsOf(p) /\ o \notin Leaving(W, p)) \/ o \in Joining(W, p)
    <2>1. Has("orgproject", o, p)' /\ o \in Orgs
      BY <1>6 DEF OrgsOf
    <2>2. /\ Has("orgproject", o, p) \/ Key("orgproject", o, p) \in Inserted(W)
          /\ Key("orgproject", o, p) \notin Deleted(W)
      BY <2>1, <1>1, RowsAfter
    <2> QED
      BY <2>1, <2>2 DEF OrgsOf, Leaving, Joining
  <1> HIDE DEF R, W
  <1>7. JoinsOne(R, W, p)
    BY <1>3
  <1> QED
    BY <1>4, <1>5, <1>6, <1>7 DEF JoinsOne

LEMMA MembershipsKept ==
    ASSUME MembershipsInv, NEW w \in Servers, Commit(w), w \notin stale
    PROVE  MembershipsEndTogether'
  <1> DEFINE R == plan[w].reads
             W == plan[w].writes
  <1>1. PlansWellFormed /\ MembershipsEndTogether /\ WellFormed(W)
    BY DEF MembershipsInv, PlansWellFormed
  <1>2. raced' = raced
    BY DEF Commit
  <1>3. SUFFICES ASSUME NEW o \in Orgs, o \notin raced, NEW u \in Users
                 PROVE  /\ Has("member", o, u)' => Has("orgrole", o, u)'
                        /\ RoleIn("pending", o, u)' = "row" => u \in OrgOwners(o)'
                        /\ ~(Has("orginvite", o, u)' /\ Has("orgrole", o, u)')
    BY <1>2 DEF MembershipsEndTogether
  <1>4. /\ Has("member", o, u) => Has("orgrole", o, u)
        /\ RoleIn("pending", o, u) = "row" => u \in OrgOwners(o)
        /\ ~(Has("orginvite", o, u) /\ Has("orgrole", o, u))
    BY <1>1, <1>3 DEF MembershipsEndTogether
  <1>5. /\ JoinsFromInside(R, W, o, u)
        /\ LeavesTogether(R, W, o, u)
        /\ InvitesOutsiders(R, W, o, u)
    BY <1>3 DEF MembershipsInv, PlansJustified, Justified
  <1>6. \A k \in Inserted(W) :
           /\ Key("user", u, u) \notin Deleted(W)
           /\ Key("org", o, o) \notin Deleted(W)
    BY <1>1, <1>3 DEF WellFormed, InsertsBesideRows
  <1>7. \A t \in {"orgrole", "orginvite", "member"} : Has(t, o, u)' <=>
           /\ Has(t, o, u) \/ Key(t, o, u) \in Inserted(W)
           /\ Key(t, o, u) \notin Deleted(W)
           /\ ~(Has(t, o, u) /\ Key("user", u, u) \in Deleted(W))
           /\ ~(Has(t, o, u) /\ Key("org", o, o) \in Deleted(W))
    BY <1>1, RowsAfter
  <1>8. Has("pending", o, u)' <=>
           /\ Has("pending", o, u) \/ Key("pending", o, u) \in Inserted(W)
           /\ Key("pending", o, u) \notin Deleted(W)
           /\ ~(Has("pending", o, u) /\ Key("user", u, u) \in Deleted(W))
    BY <1>1, RowsAfter
  <1>9. Has("member", o, u)' => Has("orgrole", o, u)'
    <2>1. CASE Has("member", o, u)
      BY <2>1, <1>4, <1>5, <1>7 DEF LeavesTogether
    <2>2. CASE Key("member", o, u) \in Inserted(W)
      BY <2>2, <1>5, <1>6, <1>7 DEF JoinsFromInside
    <2> QED
      BY <2>1, <2>2, <1>7
  <1>10. ASSUME RoleIn("pending", o, u)' = "row"
         PROVE  u \in OrgOwners(o)'
    <2>1. Has("pending", o, u)'
      BY <1>10 DEF RoleIn
    <2>2. u \in OrgOwners(o) /\ \/ Key("orgrole", o, u) \notin Changed(W)
                                \/ /\ RoleIn("pending", o, u) = "row"
                                   /\ Key("pending", o, u) \notin Deleted(W)
      <3>1. CASE Has("pending", o, u)
        <4>1. RoleIn("pending", o, u) = "row"
          BY <3>1, <2>1, <1>1, <1>10, RolesAfter
        <4> QED
          BY <4>1, <2>1, <1>4, <1>8
      <3>2. CASE Key("pending", o, u) \in Inserted(W)
        BY <3>2, <1>5 DEF JoinsFromInside
      <3> QED
        BY <3>1, <3>2, <2>1, <1>8
    <2>3. Has("orgrole", o, u) /\ RoleIn("orgrole", o, u) = "Owner"
      BY <2>2 DEF OrgOwners, RoleIn
    <2>4. /\ Key("user", u, u) \notin Deleted(W)
          /\ Key("org", o, o) \notin Deleted(W)
      <3>1. CASE Has("pending", o, u)
        BY <3>1, <2>1, <1>1, <1>8, <1>10, RolesAfter
      <3>2. CASE Key("pending", o, u) \in Inserted(W)
        BY <3>2, <1>6
      <3> QED
        BY <3>1, <3>2, <2>1, <1>8
    <2>5. ASSUME NEW x \in W, x.key = Key("orgrole", o, u)
          PROVE  ~EndsOwnership(x)
      <3>1. SUFFICES ASSUME EndsOwnership(x)
                     PROVE  FALSE
        OBVIOUS
      <3>2. Key("orgrole", o, u) \in Changed(W)
        BY <3>1, <2>5 DEF EndsOwnership, Changed, Updated, Deleted, KeysOf
      <3> QED
        BY <3>1, <3>2, <2>2, <2>5, <1>5 DEF LeavesTogether
    <2>6. Key("orgrole", o, u) \notin Deleted(W)
      BY <2>5 DEF Deleted, KeysOf, EndsOwnership
    <2>7. Has("orgrole", o, u)'
      BY <2>3, <2>4, <2>6, <1>7
    <2>8. RoleIn("orgrole", o, u)' = "Owner"
      <3>1. CASE Key("orgrole", o, u) \notin Updated(W)
        BY <3>1, <2>3, <2>7, <1>1, RolesAfter
      <3>2. CASE Key("orgrole", o, u) \in Updated(W)
        <4>1. PICK x \in W : x.op = "update" /\ x.key = Key("orgrole", o, u)
          BY <3>2 DEF Updated, KeysOf
        <4>2. x.row.role = "Owner"
          BY <4>1, <2>5 DEF EndsOwnership
        <4>3. db'[Key("orgrole", o, u)] = Over(x.row, db[Key("orgrole", o, u)])
          BY <4>1, <2>7, <1>1, CommittedRows DEF Has
        <4>4. "role" \in DOMAIN x.row
          BY <4>1, <1>1, KeyParts DEF WellFormed, UpdatesRoles, Invitation
        <4> QED
          BY <4>2, <4>3, <4>4, <2>7 DEF Over, RoleIn
      <3> QED
        BY <3>1, <3>2
    <2> QED
      BY <2>7, <2>8 DEF OrgOwners
  <1>11. ~(Has("orginvite", o, u)' /\ Has("orgrole", o, u)')
    BY <1>4, <1>5, <1>7 DEF InvitesOutsiders
  <1> QED
    BY <1>9, <1>10, <1>11

LEMMA RightsKept ==
    ASSUME MembershipsInv, NEW w \in Servers, Commit(w), w \notin stale
    PROVE  RightsStayBehind'
  <1> DEFINE R == plan[w].reads
             W == plan[w].writes
  <1>1. PlansWellFormed /\ RightsStayBehind /\ WellFormed(W)
    BY DEF MembershipsInv, PlansWellFormed
  <1>2. raced' = raced
    BY DEF Commit
  <1>3. /\ \A o \in Orgs, p \in Projects : LeavesRights(R, W, o, p)
        /\ \A p \in Projects : PublishesHere(R, W, p)
        /\ \A o \in Orgs : LeavesNoProject(R, W, o)
    BY DEF MembershipsInv, PlansJustified, Justified
  <1>4. ASSUME NEW p \in Projects, p \notin raced, NEW o \in Orgs, o \notin raced,
               Has("teamproject", o, p)'
        PROVE  Has("orgproject", o, p)'
    <2>1. \A t \in {"orgproject", "teamproject"} : Has(t, o, p)' <=>
             /\ Has(t, o, p) \/ Key(t, o, p) \in Inserted(W)
             /\ Key(t, o, p) \notin Deleted(W)
             /\ ~(Has(t, o, p) /\ Key("org", o, o) \in Deleted(W))
      BY <1>1, RowsAfter
    <2>2. CASE Has("teamproject", o, p)
      <3>1. Has("orgproject", o, p)
        BY <2>2, <1>1, <1>4 DEF RightsStayBehind
      <3> QED
        BY <3>1, <2>1, <2>2, <1>3, <1>4 DEF LeavesRights
    <2>3. CASE Key("teamproject", o, p) \in Inserted(W)
      <3>1. Key("org", o, o) \notin Deleted(W)
        BY <2>3, <1>1 DEF WellFormed, InsertsBesideRows
      <3> QED
        BY <3>1, <2>1, <2>3, <1>3 DEF LeavesRights
    <2> QED
      BY <2>1, <2>2, <2>3, <1>4
  <1>5. ASSUME NEW p \in Projects, p \notin raced, NEW o \in OrgsOf(p), o \notin Leaving(W, p)
        PROVE  o \in OrgsOf(p)'
    <2>1. Has("orgproject", o, p) /\ o \in Orgs
      BY DEF OrgsOf
    <2>2. Key("orgproject", o, p) \notin Deleted(W)
      BY <1>5, <2>1 DEF Leaving
    <2>3. Key("org", o, o) \notin Deleted(W)
      BY <1>3, <2>1 DEF LeavesNoProject
    <2>4. Has("orgproject", o, p)'
      BY <2>1, <2>2, <2>3, <1>1, RowsAfter
    <2> QED
      BY <2>1, <2>4 DEF OrgsOf
  <1>6. ASSUME NEW p \in Projects, p \notin raced, Has("publisher", p, p)'
        PROVE  RoleIn("publisher", p, p)' \subseteq OrgsOf(p)' \cup raced
    <2>1. /\ Has("publisher", p, p) \/ Key("publisher", p, p) \in Inserted(W)
          /\ Key("publisher", p, p) \notin Deleted(W)
      BY <1>1, <1>6, RowsAfter
    <2>2. CASE Has("publisher", p, p)
      <3>1. Key("publisher", p, p) \notin Updated(W)
        BY <1>1, KeyParts DEF WellFormed, UpdatesRoles, Invitation, Updated, KeysOf
      <3>2. RoleIn("publisher", p, p)' = RoleIn("publisher", p, p)
        BY <3>1, <2>2, <1>1, <1>6, RolesAfter
      <3>3. RoleIn("publisher", p, p) \subseteq OrgsOf(p) \cup raced
        BY <2>2, <1>1, <1>6 DEF RightsStayBehind
      <3>4. \A o \in Orgs : o \notin Leaving(W, p)
        BY <2>1, <1>3, <1>6 DEF Leaving, LeavesRights
      <3>5. OrgsOf(p) \subseteq Orgs
        BY DEF OrgsOf
      <3> QED
        BY <3>2, <3>3, <3>4, <3>5, <1>5, <1>6
    <2>3. CASE Key("publisher", p, p) \in Inserted(W)
      <3>1. PICK x \in W : x.op = "insert" /\ x.key = Key("publisher", p, p)
        BY <2>3 DEF Inserted, KeysOf
      <3>2. RoleIn("publisher", p, p)' = x.row.role
        BY <3>1, <1>1, <1>6, RolesAfter
      <3>3. Leaving(W, p) = {} /\ x.row.role \subseteq OrgsOf(p)
        BY <3>1, <1>3, <1>6 DEF PublishesHere
      <3> QED
        BY <3>2, <3>3, <1>5, <1>6
    <2> QED
      BY <2>1, <2>2, <2>3
  <1> QED
    BY <1>2, <1>4, <1>6 DEF RightsStayBehind

LEMMA InvitationsKept ==
    ASSUME MembershipsInv, NEW w \in Servers, Commit(w), w \notin stale
    PROVE  AcceptableIsPending'
  <1> DEFINE R == plan[w].reads
             W == plan[w].writes
  <1>1. PlansWellFormed /\ AcceptableIsPending /\ RowsWhole /\ WellFormed(W)
    BY DEF MembershipsInv, PlansWellFormed
  <1>2. raced' = raced /\ expired' = expired
    BY DEF Commit
  <1>3. SUFFICES ASSUME NEW t \in {"invite", "orginvite"},
                        NEW x \in (Projects \cup Orgs) \ raced, NEW u \in Users,
                        Readable(t, x, u)'
                 PROVE  Pending(t, x, u)'
    BY <1>2 DEF AcceptableIsPending
  <1> DEFINE k == Key(t, x, u)
  <1>4. k \in DOMAIN db' /\ db'[k].token.n \notin expired
    BY <1>2, <1>3 DEF Readable, Has
  <1>5. SUFFICES db'[k].status = "Pending"
    BY <1>4 DEF Pending, Has
  <1>6. Invitation(k) /\ t # "pending"
    BY <1>3, KeyParts DEF Invitation
  <1>7. k \notin Detached(w)
    BY <1>6, KeyParts DEF Detached
  <1>8. CASE k \in Inserted(W)
    <2>1. PICK y \in W : y.op = "insert" /\ y.key = k
      BY <1>8 DEF Inserted, KeysOf
    <2>2. db'[k] = y.row
      BY <2>1, <1>1, CommittedRows
    <2> QED
      BY <2>1, <2>2, <1>1, <1>6 DEF WellFormed, WholeInvitations
  <1>9. CASE k \in Updated(W)
    <2>1. PICK y \in W : y.op = "update" /\ y.key = k
      BY <1>9 DEF Updated, KeysOf
    <2>2. db'[k] = Over(y.row, db[k])
      BY <2>1, <1>1, <1>4, CommittedRows
    <2>3. k \in DOMAIN db
      BY <1>1, <1>9, CommittedRows
    <2>4. DOMAIN db[k] = {"status", "token"}
      BY <2>3, <1>1, <1>6 DEF RowsWhole
    <2>5. /\ db'[k].status = IF "status" \in DOMAIN y.row THEN y.row.status ELSE db[k].status
          /\ db'[k].token = IF "token" \in DOMAIN y.row THEN y.row.token ELSE db[k].token
      BY <2>2, <2>4 DEF Over
    <2>6. \/ "status" \in DOMAIN y.row /\ y.row.status = "Pending"
          \/ y.row = [status |-> "Expired"] /\ ~Readable(t, x, u)
          \/ "status" \notin DOMAIN y.row /\ (Has(t, x, u) => Pending(t, x, u))
      BY <2>1, <1>3 DEF MembershipsInv, PlansJustified, Justified, ShowsPending
    <2>7. CASE y.row = [status |-> "Expired"] /\ ~Readable(t, x, u)
      <3>1. db'[k].token = db[k].token
        BY <2>5, <2>7
      <3> QED
        BY <3>1, <2>3, <2>7, <1>4 DEF Readable, Has
    <2> QED
      BY <2>3, <2>5, <2>6, <2>7 DEF Has, Pending
  <1>10. CASE k \notin Inserted(W) /\ k \notin Updated(W)
    <2>1. k \in DOMAIN db /\ db'[k] = db[k]
      BY <1>1, <1>4, <1>7, <1>10, CommittedRows
    <2>2. Readable(t, x, u)
      BY <2>1, <1>4 DEF Readable, Has
    <2>3. Pending(t, x, u)
      BY <2>2, <1>1, <1>3 DEF AcceptableIsPending
    <2> QED
      BY <2>1, <2>3 DEF Pending
  <1> QED
    BY <1>8, <1>9, <1>10

-----------------------------------------------------------------------------
(* Any commit. *)

LEMMA WholeRowsKept ==
    ASSUME MembershipsInv, NEW w \in Servers, Commit(w)
    PROVE  RowsWhole'
  <1> DEFINE W == plan[w].writes
  <1>1. PlansWellFormed /\ RowsWhole /\ WellFormed(W)
    BY DEF MembershipsInv, PlansWellFormed
  <1>2. ASSUME NEW k \in DOMAIN db', Invitation(k)
        PROVE  DOMAIN db'[k] = {"status", "token"}
    <2>1. k \notin Detached(w)
      BY <1>2 DEF Detached, Invitation
    <2>2. CASE k \in Inserted(W)
      <3>1. PICK y \in W : y.op = "insert" /\ y.key = k
        BY <2>2 DEF Inserted, KeysOf
      <3>2. db'[k] = y.row
        BY <3>1, <1>1, CommittedRows
      <3> QED
        BY <3>1, <3>2, <1>1, <1>2 DEF WellFormed, WholeInvitations
    <2>3. CASE k \in Updated(W)
      <3>1. PICK y \in W : y.op = "update" /\ y.key = k
        BY <2>3 DEF Updated, KeysOf
      <3>2. db'[k] = Over(y.row, db[k])
        BY <3>1, <1>1, <1>2, CommittedRows
      <3>3. DOMAIN db[k] = {"status", "token"}
        BY <2>3, <1>1, <1>2, CommittedRows DEF RowsWhole
      <3>4. DOMAIN y.row \subseteq {"status", "token"}
        BY <3>1, <1>1, <1>2 DEF WellFormed, WholeInvitations
      <3> QED
        BY <3>2, <3>3, <3>4 DEF Over
    <2>4. CASE k \notin Inserted(W) /\ k \notin Updated(W)
      BY <2>1, <2>4, <1>1, <1>2, CommittedRows DEF RowsWhole
    <2> QED
      BY <2>2, <2>3, <2>4
  <1>3. ASSUME NEW o \in Orgs, NEW p \in Projects, Has("orgproject", o, p)'
        PROVE  Has("org", o, o)'
    <2>1. /\ Has("orgproject", o, p) \/ Key("orgproject", o, p) \in Inserted(W)
          /\ ~(Has("orgproject", o, p) /\ Key("org", o, o) \in Deleted(W))
      BY <1>1, <1>3, RowsAfter
    <2>2. Has("org", o, o)
      <3>1. CASE Has("orgproject", o, p)
        BY <3>1, <1>1 DEF RowsWhole
      <3>2. CASE Key("orgproject", o, p) \in Inserted(W)
        BY <3>2, <1>1, CommittedRows, ParentRows DEF Has
      <3> QED
        BY <2>1, <3>1, <3>2
    <2>3. Key("org", o, o) \notin Deleted(W)
      BY <2>1, <1>1 DEF WellFormed, InsertsBesideRows
    <2> QED
      BY <2>2, <2>3, <1>1, RowsAfter
  <1> QED
    BY <1>2, <1>3 DEF RowsWhole

-----------------------------------------------------------------------------
(* What a request has read stays true until another one writes to it. *)

(* No request looks at the value of an organization's standing after it    *)
(* was planned, and that a publisher was detached only adds to what holds. *)
KeptRow(k) ==
    /\ k \in DOMAIN db' <=> k \in DOMAIN db
    /\ k \in DOMAIN db => \/ db'[k] = db[k]
                          \/ k[1] = "org"
                          \/ k[1] = "pending" /\ db'[k] = Row("personal")

LEMMA StillJustified ==
    ASSUME NEW v, plan'[v] = plan[v],
           \A k \in plan[v].reads : KeptRow(k),
           expired \subseteq expired',
           Justified(plan[v].reads, plan[v].writes)
    PROVE  Justified(plan[v].reads, plan[v].writes)'
  <1> DEFINE R == plan[v].reads
             W == plan[v].writes
  <1>1. R' = R /\ W' = W
    OBVIOUS
  <1>2. \A t, x, y : Key(t, x, y) \in R => (Has(t, x, y)' <=> Has(t, x, y))
    BY DEF KeptRow, Has
  <1>3. ASSUME NEW t, NEW x, NEW y, Key(t, x, y) \in R, t # "org", t # "pending"
        PROVE  /\ RoleIn(t, x, y)' = RoleIn(t, x, y)
               /\ Has(t, x, y) => db'[Key(t, x, y)] = db[Key(t, x, y)]
    BY <1>3, KeyParts DEF KeptRow, Has, RoleIn
  <1>4. ASSUME NEW o, NEW u, Key("pending", o, u) \in R, RoleIn("pending", o, u)' = "row"
        PROVE  RoleIn("pending", o, u) = "row"
    BY <1>4, KeyParts DEF KeptRow, Has, RoleIn, Row
  <1>5. ASSUME NEW p \in Projects, OwnershipOf(p) \subseteq R
        PROVE  Owners(p)' = Owners(p) /\ OrgsOf(p)' = OrgsOf(p)
    <2>1. \A u \in Users : Key("role", p, u) \in R
      BY <1>5 DEF OwnershipOf
    <2>2. \A o \in Orgs : Key("orgproject", o, p) \in R
      BY <1>5 DEF OwnershipOf
    <2>3. Owners(p)' = Owners(p)
      BY <2>1, <1>3 DEF Owners
    <2>4. OrgsOf(p)' = OrgsOf(p)
      BY <2>2, <1>2 DEF OrgsOf
    <2> QED
      BY <2>3, <2>4
  <1>6. ASSUME NEW o \in Orgs, NEW u \in Users, Key("orgrole", o, u) \in R
        PROVE  u \in OrgOwners(o)' <=> u \in OrgOwners(o)
    BY <1>6, <1>3 DEF OrgOwners
  <1>7. ASSUME NEW o \in Orgs, OwnershipOfOrg(o) \subseteq R
        PROVE  OrgOwners(o)' = OrgOwners(o)
    <2>1. \A u \in Users : Key("orgrole", o, u) \in R
      BY <1>7 DEF OwnershipOfOrg
    <2>2. OrgOwners(o)' \subseteq Users /\ OrgOwners(o) \subseteq Users
      BY DEF OrgOwners
    <2> QED
      BY <2>1, <2>2, <1>6
  <1>8. ASSUME NEW p \in Projects
        PROVE  KeepsAnOwner(R, W, p)'
    <2>1. KeepsAnOwner(R, W, p)
      BY DEF Justified
    <2>2. Losing(W, p)' = Losing(W, p) /\ Leaving(W, p)' = Leaving(W, p) /\ Joining(W, p)' = Joining(W, p)
      BY <1>1 DEF Losing, Leaving, Joining, Changed, Updated, Deleted, Inserted, KeysOf
    <2> QED
      BY <2>1, <2>2, <1>1, <1>5 DEF KeepsAnOwner, OwnershipOf
  <1>9. ASSUME NEW o \in Orgs
        PROVE  LeavesNoProject(R, W, o)'
    <2>1. LeavesNoProject(R, W, o)
      BY DEF Justified
    <2> QED
      BY <2>1, <1>1, <1>2 DEF LeavesNoProject, Deleted, KeysOf
  <1>10. ASSUME NEW o \in Orgs
         PROVE  KeepsAnOrgOwner(R, W, o)'
    <2>1. KeepsAnOrgOwner(R, W, o)
      BY DEF Justified
    <2>2. LosingInOrg(W, o)' = LosingInOrg(W, o)
      BY <1>1 DEF LosingInOrg, Changed, Updated, Deleted, KeysOf
    <2> QED
      BY <2>1, <2>2, <1>1, <1>7 DEF KeepsAnOrgOwner, OwnershipOfOrg
  <1>11. ASSUME NEW p \in Projects
         PROVE  JoinsOne(R, W, p)'
    <2>1. JoinsOne(R, W, p)
      BY DEF Justified
    <2>2. Leaving(W, p)' = Leaving(W, p) /\ Joining(W, p)' = Joining(W, p)
      BY <1>1 DEF Leaving, Joining, Deleted, Inserted, KeysOf
    <2> QED
      BY <2>1, <2>2, <1>1, <1>5 DEF JoinsOne, OwnershipOf
  <1>12. ASSUME NEW o \in Orgs, NEW p \in Projects
         PROVE  LeavesRights(R, W, o, p)'
    <2>1. LeavesRights(R, W, o, p)
      BY DEF Justified
    <2> QED
      BY <2>1, <1>1, <1>2 DEF LeavesRights, Deleted, Inserted, KeysOf
  <1>13. ASSUME NEW p \in Projects
         PROVE  PublishesHere(R, W, p)'
    <2>1. PublishesHere(R, W, p)
      BY DEF Justified
    <2>2. Leaving(W, p)' = Leaving(W, p)
      BY <1>1 DEF Leaving, Deleted, KeysOf
    <2> QED
      BY <2>1, <2>2, <1>1, <1>5 DEF PublishesHere, OwnershipOf
  <1>14. ASSUME NEW o \in Orgs, NEW u \in Users
         PROVE  JoinsFromInside(R, W, o, u)'
    <2>1. JoinsFromInside(R, W, o, u)
      BY DEF Justified
    <2> QED
      BY <2>1, <1>1, <1>2, <1>6 DEF JoinsFromInside, Changed, Updated, Deleted, Inserted, KeysOf
  <1>15. ASSUME NEW o \in Orgs, NEW u \in Users
         PROVE  LeavesTogether(R, W, o, u)'
    <2>1. LeavesTogether(R, W, o, u)
      BY DEF Justified
    <2> QED
      BY <2>1, <1>1, <1>2, <1>4 DEF LeavesTogether, Deleted, Inserted, KeysOf
  <1>16. ASSUME NEW o \in Orgs, NEW u \in Users
         PROVE  InvitesOutsiders(R, W, o, u)'
    <2>1. InvitesOutsiders(R, W, o, u)
      BY DEF Justified
    <2> QED
      BY <2>1, <1>1, <1>2 DEF InvitesOutsiders, Deleted, Inserted, KeysOf
  <1>17. ASSUME NEW t \in {"invite", "orginvite"}, NEW x \in Projects \cup Orgs, NEW u \in Users
         PROVE  ShowsPending(R, W, t, x, u)'
    <2>1. ShowsPending(R, W, t, x, u)
      BY DEF Justified
    <2>2. ASSUME Key(t, x, u) \in R
          PROVE  /\ Readable(t, x, u)' => Readable(t, x, u)
                 /\ (Has(t, x, u) => Pending(t, x, u)) => (Has(t, x, u)' => Pending(t, x, u)')
      BY <2>2, <1>2, <1>3 DEF Readable, Pending
    <2> QED
      BY <2>1, <2>2, <1>1 DEF ShowsPending
  <1> QED
    BY <1>8, <1>9, <1>10, <1>11, <1>12, <1>13, <1>14, <1>15, <1>16, <1>17 DEF Justified

LEMMA NothingPlanned ==
    /\ WellFormed({})
    /\ \A reads : Justified(reads, {})
  <1>1. Inserted({}) = {} /\ Updated({}) = {} /\ Deleted({}) = {} /\ Changed({}) = {}
    BY DEF Inserted, Updated, Deleted, Changed, KeysOf
  <1>2. WellFormed({})
    BY <1>1 DEF WellFormed, OneWritePerRow, InsertsBesideRows, UpdatesRoles, WholeInvitations
  <1>3. /\ \A p : Losing({}, p) = {} /\ Leaving({}, p) = {} /\ Joining({}, p) = {}
        /\ \A o : LosingInOrg({}, o) = {}
    BY <1>1 DEF Losing, Leaving, Joining, LosingInOrg
  <1>4. \A reads : Justified(reads, {})
    BY <1>1, <1>3
    DEF Justified, KeepsAnOwner, LeavesNoProject, KeepsAnOrgOwner, JoinsOne, LeavesRights,
        PublishesHere, JoinsFromInside, LeavesTogether, InvitesOutsiders, ShowsPending
  <1> QED
    BY <1>2, <1>4

LEMMA NothingPlannedNext ==
    ASSUME NEW v, plan'[v] = NoPlan
    PROVE  Justified(plan[v].reads, plan[v].writes)'
  <1> DEFINE R == plan[v].reads
             W == plan[v].writes
  <1>1. W' = {}
    BY DEF NoPlan
  <1>2. Inserted(W)' = {} /\ Updated(W)' = {} /\ Deleted(W)' = {} /\ Changed(W)' = {}
    BY <1>1 DEF Inserted, Updated, Deleted, Changed, KeysOf
  <1>3. /\ \A p : Losing(W, p)' = {} /\ Leaving(W, p)' = {} /\ Joining(W, p)' = {}
        /\ \A o : LosingInOrg(W, o)' = {}
    BY <1>2 DEF Losing, Leaving, Joining, LosingInOrg
  <1>4. /\ \A p \in Projects : KeepsAnOwner(R, W, p)'
        /\ \A o \in Orgs : LeavesNoProject(R, W, o)'
        /\ \A o \in Orgs : KeepsAnOrgOwner(R, W, o)'
        /\ \A p \in Projects : JoinsOne(R, W, p)'
        /\ \A o \in Orgs, p \in Projects : LeavesRights(R, W, o, p)'
    BY <1>2, <1>3 DEF KeepsAnOwner, LeavesNoProject, KeepsAnOrgOwner, JoinsOne, LeavesRights
  <1>5. /\ \A p \in Projects : PublishesHere(R, W, p)'
        /\ \A o \in Orgs, u \in Users : JoinsFromInside(R, W, o, u)'
        /\ \A o \in Orgs, u \in Users : LeavesTogether(R, W, o, u)'
        /\ \A o \in Orgs, u \in Users : InvitesOutsiders(R, W, o, u)'
        /\ \A t \in {"invite", "orginvite"}, x \in Projects \cup Orgs, u \in Users :
              ShowsPending(R, W, t, x, u)'
    BY <1>1, <1>2 DEF PublishesHere, JoinsFromInside, LeavesTogether, InvitesOutsiders, ShowsPending
  <1> QED
    BY <1>4, <1>5 DEF Justified

(* The same rows, and one plan that its own rows justify. *)
LEMMA JustifiedPlanned ==
    ASSUME NEW w, NEW R, NEW W, plan'[w] = [writes |-> W, reads |-> R],
           db' = db, expired' = expired, Justified(R, W)
    PROVE  Justified(plan[w].reads, plan[w].writes)'
  <1>1. plan'[w].reads = R /\ plan'[w].writes = W
    OBVIOUS
  <1>2. \A t, x, y : Has(t, x, y)' = Has(t, x, y) /\ RoleIn(t, x, y)' = RoleIn(t, x, y)
    BY DEF Has, RoleIn
  <1>3. /\ \A p : Owners(p)' = Owners(p) /\ OrgsOf(p)' = OrgsOf(p)
        /\ \A o : OrgOwners(o)' = OrgOwners(o)
    BY <1>2 DEF Owners, OrgsOf, OrgOwners
  <1>4. \A t, x, y : Readable(t, x, y)' = Readable(t, x, y) /\ Pending(t, x, y)' = Pending(t, x, y)
    BY <1>2 DEF Readable, Pending
  <1>5. /\ \A p \in Projects : KeepsAnOwner(plan[w].reads, plan[w].writes, p)'
        /\ \A o \in Orgs : LeavesNoProject(plan[w].reads, plan[w].writes, o)'
        /\ \A o \in Orgs : KeepsAnOrgOwner(plan[w].reads, plan[w].writes, o)'
        /\ \A p \in Projects : JoinsOne(plan[w].reads, plan[w].writes, p)'
        /\ \A o \in Orgs, p \in Projects : LeavesRights(plan[w].reads, plan[w].writes, o, p)'
    BY <1>1, <1>2, <1>3
    DEF Justified, KeepsAnOwner, LeavesNoProject, KeepsAnOrgOwner, JoinsOne, LeavesRights,
        Losing, Leaving, Joining, LosingInOrg, OwnershipOf, OwnershipOfOrg,
        Changed, Inserted, Updated, Deleted, KeysOf
  <1>6. /\ \A p \in Projects : PublishesHere(plan[w].reads, plan[w].writes, p)'
        /\ \A o \in Orgs, u \in Users : JoinsFromInside(plan[w].reads, plan[w].writes, o, u)'
        /\ \A o \in Orgs, u \in Users : LeavesTogether(plan[w].reads, plan[w].writes, o, u)'
        /\ \A o \in Orgs, u \in Users : InvitesOutsiders(plan[w].reads, plan[w].writes, o, u)'
        /\ \A t \in {"invite", "orginvite"}, x \in Projects \cup Orgs, u \in Users :
              ShowsPending(plan[w].reads, plan[w].writes, t, x, u)'
    BY <1>1, <1>2, <1>3, <1>4
    DEF Justified, PublishesHere, JoinsFromInside, LeavesTogether, InvitesOutsiders, ShowsPending,
        Leaving, OwnershipOf, Changed, Inserted, Updated, Deleted, KeysOf
  <1> QED
    BY <1>5, <1>6 DEF Justified

-----------------------------------------------------------------------------
(* The steps that are not views.                                           *)

LEMMA CommitKeeps ==
    ASSUME MembershipsInv, NEW w \in Servers, Commit(w)
    PROVE  MembershipsInv'
  <1>1. PlansWellFormed
    BY DEF MembershipsInv
  <1>2. /\ plan' = [plan EXCEPT ![w] = NoPlan]
        /\ stale' = (stale \ {w})
             \cup {v \in DOMAIN plan \ {w} : plan[v].reads \cap Touched(w) # {}}
        /\ expired' = expired
    BY DEF Commit
  <1>3. /\ DOMAIN plan = Servers
        /\ plan'[w] = NoPlan
        /\ \A v \in Servers : v # w => plan'[v] = plan[v]
    BY <1>1, <1>2 DEF PlansWellFormed
  <1>4. PlansWellFormed'
    BY <1>1, <1>2, <1>3, NothingPlanned DEF PlansWellFormed, NoPlan, Servers
  <1>5. ASSUME NEW v \in Servers, v \notin stale'
        PROVE  Justified(plan[v].reads, plan[v].writes)'
    <2>1. CASE v = w
      BY <2>1, <1>3, NothingPlannedNext
    <2>2. CASE v # w
      <3>1. v \notin stale /\ plan[v].reads \cap Touched(w) = {}
        BY <2>2, <1>2, <1>3, <1>5
      <3>2. ASSUME NEW k \in plan[v].reads
            PROVE  KeptRow(k)
        <4>1. k \notin Touched(w)
          BY <3>1
        <4>2. CASE k \in Detached(w)
          <5>1. k \in DOMAIN db' /\ db'[k] = Row("personal")
            BY <4>2, <1>1, CommittedRows
          <5> QED
            BY <5>1, <4>2 DEF KeptRow, Detached
        <4>3. CASE k \notin Detached(w)
          BY <4>1, <4>3, <1>1, UntouchedRows DEF KeptRow, SameRow
        <4> QED
          BY <4>2, <4>3
      <3>3. Justified(plan[v].reads, plan[v].writes)
        BY <3>1 DEF MembershipsInv, PlansJustified
      <3> QED
        BY <3>2, <3>3, <2>2, <1>2, <1>3, StillJustified
    <2> QED
      BY <2>1, <2>2
  <1>6. PlansJustified'
    BY <1>5 DEF PlansJustified, Servers
  <1>7. RowsWhole'
    BY WholeRowsKept
  <1>8. CASE w \in stale
    BY <1>4, <1>6, <1>7, <1>8, StaleCommit DEF MembershipsInv
  <1>9. CASE w \notin stale
    BY <1>4, <1>6, <1>7, <1>9, OwnersKept, OrgOwnersKept, OneOrganizationKept,
       MembershipsKept, RightsKept, InvitationsKept DEF MembershipsInv
  <1> QED
    BY <1>8, <1>9

(* Nothing but the plans and the tokens changes. *)
LEMMA SameRowsKeep ==
    ASSUME MembershipsInv, db' = db, raced' = raced, expired \subseteq expired'
    PROVE  /\ RowsWhole' /\ ProjectsAreOwned' /\ OrganizationsHaveAnOwner'
           /\ AtMostOneOrganization' /\ MembershipsEndTogether' /\ RightsStayBehind'
           /\ AcceptableIsPending'
  <1>1. \A t, x, y : Has(t, x, y)' = Has(t, x, y) /\ RoleIn(t, x, y)' = RoleIn(t, x, y)
    BY DEF Has, RoleIn
  <1>2. /\ \A p : Owners(p)' = Owners(p) /\ OrgsOf(p)' = OrgsOf(p)
        /\ \A o : OrgOwners(o)' = OrgOwners(o)
    BY <1>1 DEF Owners, OrgsOf, OrgOwners
  <1>3. RowsWhole'
    BY DEF MembershipsInv, RowsWhole, Has
  <1>4. ProjectsAreOwned' /\ OrganizationsHaveAnOwner' /\ AtMostOneOrganization'
    BY <1>1, <1>2 DEF MembershipsInv, ProjectsAreOwned, OrganizationsHaveAnOwner, AtMostOneOrganization
  <1>5. MembershipsEndTogether' /\ RightsStayBehind'
    BY <1>1, <1>2 DEF MembershipsInv, MembershipsEndTogether, RightsStayBehind
  <1>6. AcceptableIsPending'
    BY <1>1 DEF MembershipsInv, AcceptableIsPending, Readable, Pending
  <1> QED
    BY <1>3, <1>4, <1>5, <1>6

(* A handler, or a task: a plan that what it read justifies. *)
LEMMA PlanKeeps ==
    ASSUME MembershipsInv, NEW w \in Servers, NEW R, NEW W,
           plan' = [plan EXCEPT ![w] = [writes |-> W, reads |-> R]],
           UNCHANGED <<db, expired, stale, raced>>,
           WellFormed(W), Justified(R, W)
    PROVE  MembershipsInv'
  <1>1. /\ DOMAIN plan = Servers
        /\ plan'[w] = [writes |-> W, reads |-> R]
        /\ \A v \in Servers : v # w => plan'[v] = plan[v]
    BY DEF MembershipsInv, PlansWellFormed
  <1>2. PlansWellFormed'
    BY <1>1 DEF MembershipsInv, PlansWellFormed, Servers
  <1>3. ASSUME NEW v \in Servers, v \notin stale'
        PROVE  Justified(plan[v].reads, plan[v].writes)'
    <2>1. CASE v = w
      BY <2>1, <1>1, JustifiedPlanned
    <2>2. CASE v # w
      <3>1. Justified(plan[v].reads, plan[v].writes)
        BY <1>3 DEF MembershipsInv, PlansJustified
      <3> QED
        BY <3>1, <2>2, <1>1, StillJustified DEF KeptRow
    <2> QED
      BY <2>1, <2>2
  <1>4. PlansJustified'
    BY <1>3 DEF PlansJustified, Servers
  <1> QED
    BY <1>2, <1>4, SameRowsKeep DEF MembershipsInv

LEMMA RollbackKeeps ==
    ASSUME MembershipsInv, NEW w \in Servers, Rollback(w)
    PROVE  MembershipsInv'
  <1>1. /\ DOMAIN plan = Servers
        /\ plan' = [plan EXCEPT ![w] = NoPlan]
        /\ plan'[w] = NoPlan
        /\ \A v \in Servers : v # w => plan'[v] = plan[v]
        /\ stale' = stale \ {w}
        /\ UNCHANGED <<db, expired, raced>>
    BY DEF MembershipsInv, PlansWellFormed, Rollback
  <1>2. PlansWellFormed'
    BY <1>1, NothingPlanned DEF MembershipsInv, PlansWellFormed, Servers, NoPlan
  <1>3. ASSUME NEW v \in Servers, v \notin stale'
        PROVE  Justified(plan[v].reads, plan[v].writes)'
    <2>1. CASE v = w
      BY <2>1, <1>1, NothingPlannedNext
    <2>2. CASE v # w
      <3>1. Justified(plan[v].reads, plan[v].writes)
        BY <2>2, <1>1, <1>3 DEF MembershipsInv, PlansJustified
      <3> QED
        BY <3>1, <2>2, <1>1, StillJustified DEF KeptRow
    <2> QED
      BY <2>1, <2>2
  <1>4. PlansJustified'
    BY <1>3 DEF PlansJustified, Servers
  <1> QED
    BY <1>1, <1>2, <1>4, SameRowsKeep DEF MembershipsInv

LEMMA SamePlansKeep ==
    ASSUME MembershipsInv, UNCHANGED <<plan, stale, raced>>, expired \subseteq expired',
           \A k : KeptRow(k)
    PROVE  PlansWellFormed' /\ PlansJustified'
  <1>1. PlansWellFormed'
    BY DEF MembershipsInv, PlansWellFormed, Servers
  <1>2. ASSUME NEW v \in Servers, v \notin stale
        PROVE  Justified(plan[v].reads, plan[v].writes)'
    <2>1. Justified(plan[v].reads, plan[v].writes)
      BY <1>2 DEF MembershipsInv, PlansJustified
    <2> QED
      BY <2>1, StillJustified
  <1> QED
    BY <1>1, <1>2 DEF PlansJustified, Servers

LEMMA ExpiryKeeps ==
    ASSUME MembershipsInv, NEW n, TokenExpires(n)
    PROVE  MembershipsInv'
  <1>1. UNCHANGED <<db, plan, stale, raced>> /\ expired \subseteq expired'
    BY DEF TokenExpires
  <1>2. \A k : KeptRow(k)
    BY <1>1 DEF KeptRow
  <1> QED
    BY <1>1, <1>2, SameRowsKeep, SamePlansKeep DEF MembershipsInv

LEMMA StandingKeeps ==
    ASSUME MembershipsInv, NEW o, NEW s, StandingChanges(o, s)
    PROVE  MembershipsInv'
  <1>1. /\ UNCHANGED <<plan, expired, stale, raced>>
        /\ db' = [db EXCEPT ![Key("org", o, o)] = Row(s)]
    BY DEF StandingChanges
  <1>2. /\ DOMAIN db' = DOMAIN db
        /\ \A k \in DOMAIN db : k # Key("org", o, o) => db'[k] = db[k]
    BY <1>1
  <1>3. \A k : KeptRow(k)
    BY <1>2, KeyParts DEF KeptRow
  <1>4. PlansWellFormed' /\ PlansJustified'
    BY <1>1, <1>3, SamePlansKeep
  <1>5. \A t, x, y : Has(t, x, y)' = Has(t, x, y)
    BY <1>2 DEF Has
  <1>6. \A t, x, y : t # "org" =>
           /\ RoleIn(t, x, y)' = RoleIn(t, x, y)
           /\ Has(t, x, y) => db'[Key(t, x, y)] = db[Key(t, x, y)]
    BY <1>2, <1>5, KeysDiffer DEF Has, RoleIn
  <1>7. /\ \A p : Owners(p)' = Owners(p) /\ OrgsOf(p)' = OrgsOf(p)
        /\ \A x : OrgOwners(x)' = OrgOwners(x)
    BY <1>5, <1>6 DEF Owners, OrgsOf, OrgOwners
  <1>8. RowsWhole'
    BY <1>2, <1>5, KeyParts DEF MembershipsInv, RowsWhole, Invitation
  <1>9. ProjectsAreOwned' /\ OrganizationsHaveAnOwner' /\ AtMostOneOrganization'
    BY <1>1, <1>5, <1>7 DEF MembershipsInv, ProjectsAreOwned, OrganizationsHaveAnOwner, AtMostOneOrganization
  <1>10. MembershipsEndTogether' /\ RightsStayBehind'
    BY <1>1, <1>5, <1>6, <1>7 DEF MembershipsInv, MembershipsEndTogether, RightsStayBehind
  <1>11. AcceptableIsPending'
    BY <1>1, <1>5, <1>6 DEF MembershipsInv, AcceptableIsPending, Readable, Pending
  <1> QED
    BY <1>4, <1>8, <1>9, <1>10, <1>11 DEF MembershipsInv

HIDE DEF KeepsOwners, LeavesNoProjects, KeepsOrgOwners, JoinsAtMostOne, LeavesAllRights,
        PublishesOnlyHere, AllJoinFromInside, AllLeaveTogether, InvitesOnlyOutsiders, ShowsAllPending

-----------------------------------------------------------------------------
(* The shapes of plans.                                                    *)

(* One row written, others deleted. *)
Inserting(k, row, S) == {Ins(k, row)} \cup DelAll(S)
Updating(k, row, S) == {Upd(k, row)} \cup DelAll(S)

LEMMA InsertShape ==
    ASSUME NEW k, NEW row, NEW S, NEW W, W = Inserting(k, row, S)
    PROVE  /\ Inserted(W) = {k} /\ Updated(W) = {} /\ Deleted(W) = S /\ Changed(W) = S
           /\ \A x \in W : /\ x.op \in {"insert", "delete"}
                           /\ x.op = "insert" => x.key = k /\ x.row = row
  <1>1. \A x \in W : x = Ins(k, row) \/ \E d \in S : x = Del(d)
    BY DEF Inserting, DelAll
  <1>2. Ins(k, row) \in W /\ \A d \in S : Del(d) \in W
    BY DEF Inserting, DelAll
  <1>3. Inserted(W) = {k}
    BY <1>1, <1>2 DEF Inserted, KeysOf, Ins, Del
  <1>4. Updated(W) = {}
    BY <1>1 DEF Updated, KeysOf, Ins, Del
  <1>5. Deleted(W) = S
    <2>1. \A d : d \in Deleted(W) <=> \E x \in W : x.op = "delete" /\ x.key = d
      BY DEF Deleted, KeysOf
    <2>2. \A x \in W : x.op = "delete" => x.key \in S
      BY <1>1 DEF Ins, Del
    <2>3. \A d \in S : Del(d).op = "delete" /\ Del(d).key = d
      BY DEF Del
    <2>4. \A d \in S : d \in Deleted(W)
      BY <2>1, <2>3, <1>2
    <2> QED
      BY <2>1, <2>2, <2>4
  <1>6. \A x \in W : /\ x.op \in {"insert", "delete"}
                     /\ x.op = "insert" => x.key = k /\ x.row = row
    BY <1>1 DEF Ins, Del
  <1> QED
    BY <1>3, <1>4, <1>5, <1>6 DEF Changed

LEMMA UpdateShape ==
    ASSUME NEW k, NEW row, NEW S, NEW W, W = Updating(k, row, S)
    PROVE  /\ Inserted(W) = {} /\ Updated(W) = {k} /\ Deleted(W) = S /\ Changed(W) = S \cup {k}
           /\ \A x \in W : /\ x.op \in {"update", "delete"}
                           /\ x.op = "update" => x.key = k /\ x.row = row
  <1>1. \A x \in W : x = Upd(k, row) \/ \E d \in S : x = Del(d)
    BY DEF Updating, DelAll
  <1>2. Upd(k, row) \in W /\ \A d \in S : Del(d) \in W
    BY DEF Updating, DelAll
  <1>3. Updated(W) = {k}
    BY <1>1, <1>2 DEF Updated, KeysOf, Upd, Del
  <1>4. Inserted(W) = {}
    BY <1>1 DEF Inserted, KeysOf, Upd, Del
  <1>5. Deleted(W) = S
    <2>1. \A d : d \in Deleted(W) <=> \E x \in W : x.op = "delete" /\ x.key = d
      BY DEF Deleted, KeysOf
    <2>2. \A x \in W : x.op = "delete" => x.key \in S
      BY <1>1 DEF Upd, Del
    <2>3. \A d \in S : Del(d).op = "delete" /\ Del(d).key = d
      BY DEF Del
    <2>4. \A d \in S : d \in Deleted(W)
      BY <2>1, <2>3, <1>2
    <2> QED
      BY <2>1, <2>2, <2>4
  <1>6. \A x \in W : /\ x.op \in {"update", "delete"}
                     /\ x.op = "update" => x.key = k /\ x.row = row
    BY <1>1 DEF Upd, Del
  <1> QED
    BY <1>3, <1>4, <1>5, <1>6 DEF Changed

LEMMA DeleteShape ==
    ASSUME NEW S, NEW W, W = DelAll(S)
    PROVE  /\ Inserted(W) = {} /\ Updated(W) = {} /\ Deleted(W) = S /\ Changed(W) = S
           /\ \A x \in W : x.op = "delete"
  <1>1. \A x \in W : \E d \in S : x = Del(d)
    BY DEF DelAll
  <1>2. \A d \in S : Del(d) \in W
    BY DEF DelAll
  <1>3. \A x \in W : x.op = "delete" /\ x.key \in S
    BY <1>1 DEF Del
  <1>4. Inserted(W) = {} /\ Updated(W) = {}
    BY <1>3 DEF Inserted, Updated, KeysOf
  <1>5. \A d : d \in Deleted(W) <=> \E x \in W : x.op = "delete" /\ x.key = d
    BY DEF Deleted, KeysOf
  <1>6. \A d \in S : Del(d).op = "delete" /\ Del(d).key = d
    BY DEF Del
  <1>7. \A d \in S : d \in Deleted(W)
    BY <1>2, <1>5, <1>6
  <1>8. Deleted(W) = S
    BY <1>3, <1>5, <1>7
  <1> QED
    BY <1>3, <1>4, <1>8 DEF Changed

LEMMA InsertWellFormed ==
    ASSUME NEW k, NEW row, NEW S, NEW W, W = Inserting(k, row, S),
           k \notin S,
           \A x \in Users \cup Orgs : k # Key("org", x, x) /\ Key("user", x, x) \notin S
                                      /\ Key("org", x, x) \notin S,
           Invitation(k) => DOMAIN row = {"status", "token"} /\ row.status = "Pending"
    PROVE  WellFormed(W)
  <1>1. /\ Inserted(W) = {k} /\ Updated(W) = {} /\ Deleted(W) = S
        /\ \A x \in W : /\ x.op \in {"insert", "delete"}
                        /\ x.op = "insert" => x.key = k /\ x.row = row
    BY InsertShape
  <1>2. \A x, y \in W : x.op = "insert" /\ y.op = "insert" => x = y
    BY DEF Inserting, DelAll, Ins, Del
  <1> QED
    BY <1>1, <1>2 DEF WellFormed, OneWritePerRow, InsertsBesideRows, UpdatesRoles, WholeInvitations

LEMMA UpdateWellFormed ==
    ASSUME NEW k, NEW row, NEW S, NEW W, W = Updating(k, row, S),
           \/ k[1] \in {"role", "teamproject", "orgrole"} /\ DOMAIN row = {"role"}
           \/ Invitation(k) /\ DOMAIN row \subseteq {"status", "token"}
    PROVE  WellFormed(W)
  <1>1. /\ Inserted(W) = {} /\ Updated(W) = {k} /\ Deleted(W) = S
        /\ \A x \in W : /\ x.op \in {"update", "delete"}
                        /\ x.op = "update" => x.key = k /\ x.row = row
    BY UpdateShape
  <1>2. \A x, y \in W : x.op = "update" /\ y.op = "update" => x = y
    BY DEF Updating, DelAll, Upd, Del
  <1> QED
    BY <1>1, <1>2
    DEF WellFormed, OneWritePerRow, InsertsBesideRows, UpdatesRoles, WholeInvitations, Invitation

LEMMA DeleteWellFormed ==
    ASSUME NEW S, NEW W, W = DelAll(S)
    PROVE  WellFormed(W)
  <1>1. /\ Inserted(W) = {} /\ Updated(W) = {} /\ Deleted(W) = S
        /\ \A x \in W : x.op = "delete"
    BY DeleteShape
  <1> QED
    BY <1>1 DEF WellFormed, OneWritePerRow, InsertsBesideRows, UpdatesRoles, WholeInvitations

(* Tables that a request does not write. *)
NoInsert(W, t) == \A x, y : Key(t, x, y) \notin Inserted(W)
NoUpdate(W, t) == \A x, y : Key(t, x, y) \notin Updated(W)
NoDelete(W, t) == \A x, y : Key(t, x, y) \notin Deleted(W)

(* A request has nothing to justify about them. *)
LEMMA NothingToJustify ==
    ASSUME NEW R, NEW W
    PROVE  /\ NoUpdate(W, "role") /\ NoDelete(W, "role") /\ NoDelete(W, "user")
              /\ NoDelete(W, "orgproject") => KeepsOwners(R, W)
           /\ NoDelete(W, "org") => LeavesNoProjects(R, W)
           /\ NoUpdate(W, "orgrole") /\ NoDelete(W, "orgrole") /\ NoDelete(W, "user") =>
                 KeepsOrgOwners(R, W)
           /\ NoInsert(W, "orgproject") => JoinsAtMostOne(R, W)
           /\ NoDelete(W, "orgproject") /\ NoInsert(W, "teamproject") =>
                 LeavesAllRights(R, W)
           /\ NoInsert(W, "publisher") => PublishesOnlyHere(R, W)
           /\ NoInsert(W, "member") /\ NoInsert(W, "pending") =>
                 AllJoinFromInside(R, W)
           /\ NoUpdate(W, "orgrole") /\ NoDelete(W, "orgrole") =>
                 AllLeaveTogether(R, W)
           /\ NoInsert(W, "orginvite") /\ NoInsert(W, "orgrole") =>
                 InvitesOnlyOutsiders(R, W)
           /\ NoUpdate(W, "invite") /\ NoUpdate(W, "orginvite") =>
                 ShowsAllPending(R, W)
  <1> USE DEF NoInsert, NoUpdate, NoDelete
  <1>1. \A y \in W : /\ y.op = "insert" => y.key \in Inserted(W)
                     /\ y.op = "update" => y.key \in Updated(W)
                     /\ y.op = "delete" => y.key \in Deleted(W)
    BY DEF Inserted, Updated, Deleted, KeysOf
  <1>2. NoUpdate(W, "role") /\ NoDelete(W, "role") /\ NoDelete(W, "user")
           /\ NoDelete(W, "orgproject") => KeepsOwners(R, W)
    BY DEF KeepsOwners, KeepsAnOwner, Losing, Leaving, Changed
  <1>3. NoDelete(W, "org") => LeavesNoProjects(R, W)
    BY DEF LeavesNoProjects, LeavesNoProject
  <1>4. NoUpdate(W, "orgrole") /\ NoDelete(W, "orgrole") /\ NoDelete(W, "user") =>
           KeepsOrgOwners(R, W)
    BY DEF KeepsOrgOwners, KeepsAnOrgOwner, LosingInOrg, Changed
  <1>5. NoInsert(W, "orgproject") => JoinsAtMostOne(R, W)
    BY DEF JoinsAtMostOne, JoinsOne, Joining
  <1>6. NoDelete(W, "orgproject") /\ NoInsert(W, "teamproject") =>
           LeavesAllRights(R, W)
    BY DEF LeavesAllRights, LeavesRights
  <1>7. NoInsert(W, "publisher") => PublishesOnlyHere(R, W)
    BY <1>1 DEF PublishesOnlyHere, PublishesHere
  <1>8. NoInsert(W, "member") /\ NoInsert(W, "pending") =>
           AllJoinFromInside(R, W)
    BY DEF AllJoinFromInside, JoinsFromInside
  <1>9. NoUpdate(W, "orgrole") /\ NoDelete(W, "orgrole") =>
           AllLeaveTogether(R, W)
    BY <1>1 DEF AllLeaveTogether, LeavesTogether, EndsOwnership
  <1>10. NoInsert(W, "orginvite") /\ NoInsert(W, "orgrole") =>
            InvitesOnlyOutsiders(R, W)
    BY DEF InvitesOnlyOutsiders, InvitesOutsiders
  <1>11. NoUpdate(W, "invite") /\ NoUpdate(W, "orginvite") =>
            ShowsAllPending(R, W)
    BY <1>1 DEF ShowsAllPending, ShowsPending
  <1> QED
    BY <1>2, <1>3, <1>4, <1>5, <1>6, <1>7, <1>8, <1>9, <1>10, <1>11

-----------------------------------------------------------------------------
(* The views: each plans what it has read the right for.                   *)

Sound(R, W) == WellFormed(W) /\ Justified(R, W)

LEMMA SingleWrites ==
    /\ \A k, row : {Ins(k, row)} = Inserting(k, row, {})
    /\ \A k, row : {Upd(k, row)} = Updating(k, row, {})
    /\ \A k : {Del(k)} = DelAll({k})
  BY DEF Inserting, Updating, DelAll

LEMMA RowColumns == \A r : DOMAIN Row(r) = {"role"} /\ Row(r).role = r
  BY DEF Row

(* Revoking or declining an invitation. *)
LEMMA InvitationDropped ==
    ASSUME NEW t \in {"invite", "orginvite"}, NEW x, NEW u, NEW R, NEW W,
           W = DelAll({Key(t, x, u)})
    PROVE  Sound(R, W)
  <1>1. WellFormed(W)
    BY DeleteWellFormed
  <1>2. \A s : /\ NoInsert(W, s) /\ NoUpdate(W, s)
               /\ s \notin {"invite", "orginvite"} => NoDelete(W, s)
    BY DeleteShape, KeysDiffer DEF NoInsert, NoUpdate, NoDelete
  <1>3. Justified(R, W)
    BY <1>2, NothingToJustify DEF Justified
  <1> QED
    BY <1>1, <1>3 DEF Sound

(* Accepting one. *)
LEMMA InvitationAccepted ==
    ASSUME NEW t, NEW to, (t = "invite" /\ to = "role") \/ (t = "orginvite" /\ to = "orgrole"),
           NEW x, NEW u, NEW row, NEW R, NEW W,
           W = Inserting(Key(to, x, u), row, {Key(t, x, u)})
    PROVE  Sound(R, W)
  <1>1. (t = "invite" /\ to = "role") \/ (t = "orginvite" /\ to = "orgrole")
    OBVIOUS
  <1>2. WellFormed(W)
    BY <1>1, InsertWellFormed, KeysDiffer, KeyParts DEF Invitation
  <1>3. Inserted(W) = {Key(to, x, u)} /\ Updated(W) = {} /\ Deleted(W) = {Key(t, x, u)}
    BY InsertShape
  <1>4. \A s : /\ s # to => NoInsert(W, s)
               /\ NoUpdate(W, s)
               /\ s # t => NoDelete(W, s)
    BY <1>3, KeysDiffer DEF NoInsert, NoUpdate, NoDelete
  <1>5. InvitesOnlyOutsiders(R, W)
    BY <1>1, <1>3, KeysDiffer DEF InvitesOnlyOutsiders, InvitesOutsiders
  <1>6. Justified(R, W)
    BY <1>1, <1>4, <1>5, NothingToJustify DEF Justified
  <1> QED
    BY <1>2, <1>6 DEF Sound

(* A role or a team's right given, a team's right changed or withdrawn, a  *)
(* member of a team removed: none of these needs anything.                 *)
LEMMA RoleAdded ==
    ASSUME NEW p, NEW u, NEW r, NEW R, NEW W, W = Inserting(Key("role", p, u), Row(r), {})
    PROVE  Sound(R, W)
  <1>1. WellFormed(W)
    BY InsertWellFormed, KeysDiffer, KeyParts DEF Invitation
  <1>2. \A s : /\ s # "role" => NoInsert(W, s)
               /\ NoUpdate(W, s) /\ NoDelete(W, s)
    BY InsertShape, KeysDiffer DEF NoInsert, NoUpdate, NoDelete
  <1>3. Justified(R, W)
    BY <1>2, NothingToJustify DEF Justified
  <1> QED
    BY <1>1, <1>3 DEF Sound

LEMMA TeamRoleChanged ==
    ASSUME NEW o, NEW p, NEW r, NEW R, NEW W,
           W = Updating(Key("teamproject", o, p), Row(r), {})
    PROVE  Sound(R, W)
  <1>1. WellFormed(W)
    BY UpdateWellFormed, KeyParts, RowColumns
  <1>2. \A s : /\ NoInsert(W, s) /\ NoDelete(W, s)
               /\ s # "teamproject" => NoUpdate(W, s)
    BY UpdateShape, KeysDiffer DEF NoInsert, NoUpdate, NoDelete
  <1>3. Justified(R, W)
    BY <1>2, NothingToJustify DEF Justified
  <1> QED
    BY <1>1, <1>3 DEF Sound

LEMMA RightWithdrawn ==
    ASSUME NEW t \in {"teamproject", "member"}, NEW x, NEW y, NEW R, NEW W,
           W = DelAll({Key(t, x, y)})
    PROVE  Sound(R, W)
  <1>1. WellFormed(W)
    BY DeleteWellFormed
  <1>2. \A s : /\ NoInsert(W, s) /\ NoUpdate(W, s)
               /\ s \notin {"teamproject", "member"} => NoDelete(W, s)
    BY DeleteShape, KeysDiffer DEF NoInsert, NoUpdate, NoDelete
  <1>3. Justified(R, W)
    BY <1>2, NothingToJustify DEF Justified
  <1> QED
    BY <1>1, <1>3 DEF Sound

(* A team gets a right to a project of its organization. *)
LEMMA TeamAdded ==
    ASSUME NEW o, NEW p, NEW r, NEW R, NEW W,
           W = Inserting(Key("teamproject", o, p), Row(r), {}),
           Has("orgproject", o, p), Key("orgproject", o, p) \in R
    PROVE  Sound(R, W)
  <1>1. WellFormed(W)
    BY InsertWellFormed, KeysDiffer, KeyParts DEF Invitation
  <1>2. Inserted(W) = {Key("teamproject", o, p)} /\ Updated(W) = {} /\ Deleted(W) = {}
    BY InsertShape
  <1>3. \A s : /\ s # "teamproject" => NoInsert(W, s)
               /\ NoUpdate(W, s) /\ NoDelete(W, s)
    BY <1>2, KeysDiffer DEF NoInsert, NoUpdate, NoDelete
  <1>4. LeavesAllRights(R, W)
    BY <1>2, KeysDiffer DEF LeavesAllRights, LeavesRights
  <1>5. Justified(R, W)
    BY <1>3, <1>4, NothingToJustify DEF Justified
  <1> QED
    BY <1>1, <1>5 DEF Sound

(* A collaborator's role changed or withdrawn, who is not the sole owner.  *)
LEMMA ProjectRoleWritten ==
    ASSUME NEW p, NEW u \in Users, NEW r, NEW R, NEW W,
           \/ W = Updating(Key("role", p, u), Row(r), {})
           \/ W = DelAll({Key("role", p, u)}),
           OwnershipOf(p) \subseteq R,
           OrgsOf(p) # {} \/ Owners(p) # {u}
    PROVE  Sound(R, W)
  <1>1. WellFormed(W)
    BY UpdateWellFormed, DeleteWellFormed, KeyParts, RowColumns
  <1>2. /\ Inserted(W) = {}
        /\ Updated(W) \subseteq {Key("role", p, u)}
        /\ Deleted(W) \subseteq {Key("role", p, u)}
    BY UpdateShape, DeleteShape
  <1>3. \A s : /\ NoInsert(W, s)
               /\ s # "role" => NoUpdate(W, s) /\ NoDelete(W, s)
    BY <1>2, KeysDiffer DEF NoInsert, NoUpdate, NoDelete
  <1>4. \A q : /\ Leaving(W, q) = {}
               /\ Losing(W, q) \subseteq {u}
               /\ q # p => Losing(W, q) = {}
    BY <1>2, KeysDiffer DEF Leaving, Losing, Changed
  <1>5. KeepsOwners(R, W)
    BY <1>4 DEF KeepsOwners, KeepsAnOwner
  <1>6. Justified(R, W)
    BY <1>3, <1>5, NothingToJustify DEF Justified
  <1> QED
    BY <1>1, <1>6 DEF Sound

LEMMA PublisherAdded ==
    ASSUME NEW p, NEW R, NEW W,
           W = Inserting(Key("publisher", p, p), Row(OrgsOf(p)), {}),
           OwnershipOf(p) \subseteq R
    PROVE  Sound(R, W)
  <1>1. WellFormed(W)
    BY InsertWellFormed, KeysDiffer, KeyParts DEF Invitation
  <1>2. /\ Inserted(W) = {Key("publisher", p, p)} /\ Updated(W) = {} /\ Deleted(W) = {}
        /\ \A x \in W : x.op = "insert" =>
              x.key = Key("publisher", p, p) /\ x.row = Row(OrgsOf(p))
    BY InsertShape
  <1>3. \A s : /\ s # "publisher" => NoInsert(W, s)
               /\ NoUpdate(W, s) /\ NoDelete(W, s)
    BY <1>2, KeysDiffer DEF NoInsert, NoUpdate, NoDelete
  <1>4. \A q : Leaving(W, q) = {}
    BY <1>2 DEF Leaving
  <1>5. PublishesOnlyHere(R, W)
    <2>1. SUFFICES ASSUME NEW q \in Projects, NEW x \in W,
                          x.op = "insert", x.key = Key("publisher", q, q)
                   PROVE  /\ OwnershipOf(q) \subseteq R /\ Leaving(W, q) = {}
                          /\ x.row.role \subseteq OrgsOf(q)
      BY DEF PublishesOnlyHere, PublishesHere
    <2>2. q = p /\ x.row = Row(OrgsOf(p))
      BY <1>2, <2>1, KeysDiffer
    <2> QED
      BY <2>2, <1>4, RowColumns
  <1>6. Justified(R, W)
    BY <1>3, <1>5, NothingToJustify DEF Justified
  <1> QED
    BY <1>1, <1>6 DEF Sound

(* A member joins the team, an owner registers a pending publisher.        *)
LEMMA InsiderJoins ==
    ASSUME NEW t \in {"member", "pending"}, NEW o, NEW u, NEW r, NEW R, NEW W,
           W = Inserting(Key(t, o, u), Row(r), {}),
           Has("orgrole", o, u), Key("orgrole", o, u) \in R,
           t = "pending" => u \in OrgOwners(o)
    PROVE  Sound(R, W)
  <1>1. WellFormed(W)
    BY InsertWellFormed, KeysDiffer, KeyParts DEF Invitation
  <1>2. /\ Inserted(W) = {Key(t, o, u)} /\ Updated(W) = {} /\ Deleted(W) = {}
        /\ Changed(W) = {}
    BY InsertShape
  <1>3. \A s : /\ s # t => NoInsert(W, s)
               /\ NoUpdate(W, s) /\ NoDelete(W, s)
    BY <1>2, KeysDiffer DEF NoInsert, NoUpdate, NoDelete
  <1>4. AllJoinFromInside(R, W)
    BY <1>2, KeysDiffer DEF AllJoinFromInside, JoinsFromInside
  <1>5. /\ t # "orgproject" /\ t # "teamproject" /\ t # "publisher"
        /\ t # "orginvite" /\ t # "orgrole"
    OBVIOUS
  <1>6. Justified(R, W)
    BY <1>3, <1>4, <1>5, NothingToJustify DEF Justified
  <1> QED
    BY <1>1, <1>6 DEF Sound

(* A project comes to an organization, from another one or from its owners; *)
(* whoever brings it is no longer an owner of it.                           *)
RightsIn(o, p) ==
    {Key("orgproject", o, p), Key("teamproject", o, p), Key("publisher", p, p)}

LEMMA ProjectJoins ==
    ASSUME NEW o \in Orgs, NEW p \in Projects, NEW S, NEW R, NEW W,
           W = Inserting(Key("orgproject", o, p), Row("row"), S),
           o \notin OrgsOf(p), OwnershipOf(p) \subseteq R,
           \A k \in S : \/ \E a \in Users : k = Key("role", p, a)
                        \/ \E x \in OrgsOf(p) : k \in RightsIn(x, p),
           \A x \in OrgsOf(p) : RightsIn(x, p) \subseteq S
    PROVE  Sound(R, W)
  <1>1. \A s, x, y : Key(s, x, y) \in S =>
           \/ s = "role" /\ x = p
           \/ s \in {"orgproject", "teamproject"} /\ x \in OrgsOf(p) /\ y = p
           \/ s = "publisher"
    BY KeysDiffer DEF RightsIn
  <1>2. \A s, x, y : Key(s, x, y) \in S /\ s \in {"orgproject", "teamproject"} =>
           /\ y = p
           /\ Key("orgproject", x, p) \in S
           /\ Key("teamproject", x, p) \in S
           /\ Key("publisher", p, p) \in S
    BY <1>1 DEF RightsIn
  <1>3. WellFormed(W)
    BY <1>1, InsertWellFormed, KeysDiffer, KeyParts DEF Invitation
  <1>4. /\ Inserted(W) = {Key("orgproject", o, p)} /\ Updated(W) = {} /\ Deleted(W) = S
        /\ Changed(W) = S
    BY InsertShape
  <1>5. \A s : /\ s # "orgproject" => NoInsert(W, s)
               /\ NoUpdate(W, s)
               /\ s \notin {"role", "orgproject", "teamproject", "publisher"} => NoDelete(W, s)
    BY <1>1, <1>4, KeysDiffer DEF NoInsert, NoUpdate, NoDelete
  <1>6. \A q : q # p => Losing(W, q) = {} /\ Leaving(W, q) = {} /\ Joining(W, q) = {}
    BY <1>1, <1>4, KeysDiffer DEF Losing, Leaving, Joining
  <1>7. Joining(W, p) = {o}
    BY <1>4, KeysDiffer DEF Joining
  <1>8. KeepsOwners(R, W)
    BY <1>6, <1>7 DEF KeepsOwners, KeepsAnOwner
  <1>9. OrgsOf(p) \subseteq Leaving(W, p)
    BY <1>4 DEF OrgsOf, Leaving, RightsIn
  <1>10. JoinsAtMostOne(R, W)
    BY <1>6, <1>7, <1>9 DEF JoinsAtMostOne, JoinsOne
  <1>11. LeavesAllRights(R, W)
    <2>1. NoInsert(W, "teamproject")
      BY <1>5
    <2> QED
      BY <2>1, <1>2, <1>4 DEF LeavesAllRights, LeavesRights, NoInsert
  <1>12. Justified(R, W)
    BY <1>5, <1>8, <1>10, <1>11, NothingToJustify DEF Justified
  <1> QED
    BY <1>3, <1>12 DEF Sound

(* A project leaves its organization to its owners. *)
LEMMA ProjectLeaves ==
    ASSUME NEW o \in Orgs, NEW p \in Projects, NEW R, NEW W, W = DelAll(RightsIn(o, p)),
           OwnershipOf(p) \subseteq R, Owners(p) # {}
    PROVE  Sound(R, W)
  <1>1. WellFormed(W)
    BY DeleteWellFormed
  <1>2. Inserted(W) = {} /\ Updated(W) = {} /\ Deleted(W) = RightsIn(o, p) /\ Changed(W) = RightsIn(o, p)
    BY DeleteShape
  <1>3. \A s, x, y : Key(s, x, y) \in RightsIn(o, p) <=>
           \/ s \in {"orgproject", "teamproject"} /\ x = o /\ y = p
           \/ s = "publisher" /\ x = p /\ y = p
    BY KeysDiffer DEF RightsIn
  <1>4. \A s : /\ NoInsert(W, s) /\ NoUpdate(W, s)
               /\ s \notin {"orgproject", "teamproject", "publisher"} => NoDelete(W, s)
    BY <1>2, <1>3 DEF NoInsert, NoUpdate, NoDelete
  <1>5. \A q : /\ Losing(W, q) = {}
               /\ q # p => Leaving(W, q) = {}
    BY <1>2, <1>3 DEF Losing, Leaving
  <1>6. KeepsOwners(R, W)
    BY <1>5 DEF KeepsOwners, KeepsAnOwner
  <1>7. LeavesAllRights(R, W)
    BY <1>2, <1>3 DEF LeavesAllRights, LeavesRights
  <1>8. Justified(R, W)
    BY <1>4, <1>6, <1>7, NothingToJustify DEF Justified
  <1> QED
    BY <1>1, <1>8 DEF Sound

(* A role in an organization changed: who stops being an owner there loses *)
(* the pending publisher.                                                  *)
LEMMA OrgRoleChanged ==
    ASSUME NEW o \in Orgs, NEW u \in Users, NEW r, NEW S, NEW R, NEW W,
           W = Updating(Key("orgrole", o, u), Row(r), S),
           S \subseteq {Key("pending", o, u)},
           r # "Owner" /\ RoleIn("pending", o, u) = "row" => Key("pending", o, u) \in S,
           Key("pending", o, u) \in R, OwnershipOfOrg(o) \subseteq R,
           OrgOwners(o) # {u}
    PROVE  Sound(R, W)
  <1>1. WellFormed(W)
    BY UpdateWellFormed, KeyParts, RowColumns
  <1>2. /\ Inserted(W) = {} /\ Updated(W) = {Key("orgrole", o, u)} /\ Deleted(W) = S
        /\ Changed(W) = S \cup {Key("orgrole", o, u)}
        /\ \A x \in W : /\ x.op \in {"update", "delete"}
                        /\ x.op = "update" => x.row = Row(r)
                        /\ x.op = "delete" => x.key \in S
    <2>1. \A x \in W : x.op = "delete" => x.key \in Deleted(W)
      BY DEF Deleted, KeysOf
    <2> QED
      BY <2>1, UpdateShape
  <1>3. \A s : /\ NoInsert(W, s)
               /\ s # "orgrole" => NoUpdate(W, s)
               /\ s # "pending" => NoDelete(W, s)
    BY <1>2, KeysDiffer DEF NoInsert, NoUpdate, NoDelete
  <1>4. \A x : /\ LosingInOrg(W, x) \subseteq {u}
               /\ x # o => LosingInOrg(W, x) = {}
    BY <1>2, KeysDiffer DEF LosingInOrg
  <1>5. KeepsOrgOwners(R, W)
    BY <1>4 DEF KeepsOrgOwners, KeepsAnOrgOwner
  <1>6. AllLeaveTogether(R, W)
    <2>1. \A x, v : Key("orgrole", x, v) \notin Deleted(W)
      BY <1>3 DEF NoDelete
    <2>2. ASSUME NEW x \in Orgs, NEW v \in Users, NEW y \in W,
                 y.key = Key("orgrole", x, v), EndsOwnership(y)
          PROVE  /\ Key("pending", x, v) \in R
                 /\ RoleIn("pending", x, v) = "row" => Key("pending", x, v) \in Deleted(W)
      <3>1. y.op = "update" /\ y.row.role # "Owner"
        BY <2>1, <2>2, <1>2 DEF EndsOwnership
      <3>2. y.key \in Updated(W)
        BY <3>1 DEF Updated, KeysOf
      <3>3. x = o /\ v = u
        BY <3>2, <2>2, <1>2, KeysDiffer
      <3>4. r # "Owner"
        BY <3>1, <1>2, RowColumns
      <3> QED
        BY <3>3, <3>4, <1>2
    <2> QED
      BY <2>1, <2>2 DEF AllLeaveTogether, LeavesTogether
  <1>7. Justified(R, W)
    BY <1>3, <1>5, <1>6, NothingToJustify DEF Justified
  <1> QED
    BY <1>1, <1>7 DEF Sound

(* Someone leaves an organization, and with that its team; the pending     *)
(* publishers there go, too.                                               *)
LEMMA OrgRoleDeleted ==
    ASSUME NEW o \in Orgs, NEW u \in Users, NEW S, NEW R, NEW W, W = DelAll(S),
           Key("orgrole", o, u) \in S,
           S \subseteq {Key("orgrole", o, u), Key("pending", o, u), Key("member", o, u)},
           RoleIn("pending", o, u) = "row" => Key("pending", o, u) \in S,
           Has("member", o, u) => Key("member", o, u) \in S,
           {Key("pending", o, u), Key("member", o, u)} \subseteq R,
           OwnershipOfOrg(o) \subseteq R,
           OrgOwners(o) # {u}
    PROVE  Sound(R, W)
  <1>1. WellFormed(W)
    BY DeleteWellFormed
  <1>2. /\ Inserted(W) = {} /\ Updated(W) = {} /\ Deleted(W) = S /\ Changed(W) = S
        /\ \A x \in W : x.op = "delete"
    BY DeleteShape
  <1>3. \A s : /\ NoInsert(W, s) /\ NoUpdate(W, s)
               /\ s \notin {"orgrole", "pending", "member"} => NoDelete(W, s)
    BY <1>2, KeysDiffer DEF NoInsert, NoUpdate, NoDelete
  <1>4. \A x : /\ LosingInOrg(W, x) \subseteq {u}
               /\ x # o => LosingInOrg(W, x) = {}
    BY <1>2, KeysDiffer DEF LosingInOrg
  <1>5. KeepsOrgOwners(R, W)
    BY <1>4 DEF KeepsOrgOwners, KeepsAnOrgOwner
  <1>6. AllLeaveTogether(R, W)
    <2>1. ASSUME NEW x \in Orgs, NEW v \in Users, Key("orgrole", x, v) \in Deleted(W)
          PROVE  x = o /\ v = u
      BY <2>1, <1>2, KeysDiffer
    <2>2. \A y \in W : y.key \in Deleted(W)
      BY <1>2 DEF Deleted, KeysOf
    <2> QED
      BY <2>1, <2>2, <1>2 DEF AllLeaveTogether, LeavesTogether
  <1>7. Justified(R, W)
    BY <1>3, <1>5, <1>6, NothingToJustify DEF Justified
  <1> QED
    BY <1>1, <1>7 DEF Sound

LEMMA OrganizationDeleted ==
    ASSUME NEW o, NEW R, NEW W, W = DelAll({Key("org", o, o)}),
           \A p \in Projects : Key("orgproject", o, p) \in R /\ ~Has("orgproject", o, p)
    PROVE  Sound(R, W)
  <1>1. WellFormed(W)
    BY DeleteWellFormed
  <1>2. Inserted(W) = {} /\ Updated(W) = {} /\ Deleted(W) = {Key("org", o, o)}
    BY DeleteShape
  <1>3. \A s : /\ NoInsert(W, s) /\ NoUpdate(W, s)
               /\ s # "org" => NoDelete(W, s)
    BY <1>2, KeysDiffer DEF NoInsert, NoUpdate, NoDelete
  <1>4. LeavesNoProjects(R, W)
    BY <1>2, KeysDiffer DEF LeavesNoProjects, LeavesNoProject
  <1>5. Justified(R, W)
    BY <1>3, <1>4, NothingToJustify DEF Justified
  <1> QED
    BY <1>1, <1>5 DEF Sound

LEMMA AccountDeleted ==
    ASSUME NEW a \in Users, NEW R, NEW W, W = DelAll({Key("user", a, a)}),
           \A p \in Projects : /\ OwnershipOf(p) \subseteq R
                               /\ OrgsOf(p) # {} \/ Owners(p) # {a},
           \A o \in Orgs : OwnershipOfOrg(o) \subseteq R /\ OrgOwners(o) # {a}
    PROVE  Sound(R, W)
  <1>1. WellFormed(W)
    BY DeleteWellFormed
  <1>2. /\ Inserted(W) = {} /\ Updated(W) = {} /\ Deleted(W) = {Key("user", a, a)}
        /\ Changed(W) = {Key("user", a, a)}
    BY DeleteShape
  <1>3. \A s : /\ NoInsert(W, s) /\ NoUpdate(W, s)
               /\ s # "user" => NoDelete(W, s)
    BY <1>2, KeysDiffer DEF NoInsert, NoUpdate, NoDelete
  <1>4. /\ \A p : Losing(W, p) \subseteq {a} /\ Leaving(W, p) = {}
        /\ \A o : LosingInOrg(W, o) \subseteq {a}
    BY <1>2, KeysDiffer DEF Losing, Leaving, LosingInOrg
  <1>5. KeepsOwners(R, W)
    BY <1>4 DEF KeepsOwners, KeepsAnOwner
  <1>6. KeepsOrgOwners(R, W)
    BY <1>4 DEF KeepsOrgOwners, KeepsAnOrgOwner
  <1>7. Justified(R, W)
    BY <1>3, <1>5, <1>6, NothingToJustify DEF Justified
  <1> QED
    BY <1>1, <1>7 DEF Sound

(* A new token, on a new row or on that of an earlier invitation. *)
LEMMA InvitationCreated ==
    ASSUME NEW t \in {"invite", "orginvite"}, NEW x, NEW u, NEW token, NEW R, NEW W,
           W = Inserting(Key(t, x, u), [status |-> "Pending", token |-> token], {}),
           t = "orginvite" => ~Has("orgrole", x, u) /\ Key("orgrole", x, u) \in R
    PROVE  Sound(R, W)
  <1>1. WellFormed(W)
    <2> DEFINE row == [status |-> "Pending", token |-> token]
    <2>1. DOMAIN row = {"status", "token"} /\ row.status = "Pending"
      OBVIOUS
    <2>2. \A y \in Users \cup Orgs : Key(t, x, u) # Key("org", y, y)
      BY KeysDiffer
    <2> HIDE DEF row
    <2>3. W = Inserting(Key(t, x, u), row, {})
      BY DEF row
    <2> QED
      BY <2>1, <2>2, <2>3, InsertWellFormed
  <1>2. Inserted(W) = {Key(t, x, u)} /\ Updated(W) = {} /\ Deleted(W) = {}
    BY InsertShape
  <1>3. \A s : /\ s # t => NoInsert(W, s)
               /\ NoUpdate(W, s) /\ NoDelete(W, s)
    BY <1>2, KeysDiffer DEF NoInsert, NoUpdate, NoDelete
  <1>4. InvitesOnlyOutsiders(R, W)
    BY <1>2, KeysDiffer DEF InvitesOnlyOutsiders, InvitesOutsiders
  <1>5. /\ t # "orgproject" /\ t # "teamproject" /\ t # "publisher"
        /\ t # "member" /\ t # "pending"
    OBVIOUS
  <1>6. Justified(R, W)
    BY <1>3, <1>4, <1>5, NothingToJustify DEF Justified
  <1> QED
    BY <1>1, <1>6 DEF Sound

LEMMA InvitationRenewed ==
    ASSUME NEW t \in {"invite", "orginvite"}, NEW x, NEW u, NEW row, NEW R, NEW W,
           W = Updating(Key(t, x, u), row, {}),
           DOMAIN row \subseteq {"status", "token"},
           IF "status" \in DOMAIN row THEN row.status = "Pending" ELSE Pending(t, x, u),
           Key(t, x, u) \in R
    PROVE  Sound(R, W)
  <1>1. WellFormed(W)
    BY UpdateWellFormed, KeyParts DEF Invitation
  <1>2. /\ Inserted(W) = {} /\ Updated(W) = {Key(t, x, u)} /\ Deleted(W) = {}
        /\ \A y \in W : y.op = "update" => y.key = Key(t, x, u) /\ y.row = row
    BY UpdateShape
  <1>3. \A s : /\ NoInsert(W, s) /\ NoDelete(W, s)
               /\ s # t => NoUpdate(W, s)
    BY <1>2, KeysDiffer DEF NoInsert, NoUpdate, NoDelete
  <1>4. ShowsAllPending(R, W)
    <2>1. SUFFICES ASSUME NEW s, NEW z, NEW v, NEW y \in W,
                          y.op = "update", y.key = Key(s, z, v)
                   PROVE  /\ Key(s, z, v) \in R
                          /\ \/ "status" \in DOMAIN y.row /\ y.row.status = "Pending"
                             \/ "status" \notin DOMAIN y.row /\ (Has(s, z, v) => Pending(s, z, v))
      BY DEF ShowsAllPending, ShowsPending
    <2>2. s = t /\ z = x /\ v = u /\ y.row = row
      BY <1>2, <2>1, KeysDiffer
    <2> QED
      BY <2>2
  <1>5. t # "role" /\ t # "orgrole"
    OBVIOUS
  <1>6. Justified(R, W)
    BY <1>3, <1>4, <1>5, NothingToJustify DEF Justified
  <1> QED
    BY <1>1, <1>6 DEF Sound

(* The nightly task marks invitations whose token has expired.             *)
LEMMA InvitationsMarked ==
    ASSUME NEW t \in {"invite", "orginvite"}, NEW due, NEW W,
           W = {Upd(k, [status |-> "Expired"]) : k \in due},
           \A k \in due : k[1] = t /\ db[k].token.n \in expired
    PROVE  Sound(due, W)
  <1> DEFINE row == [status |-> "Expired"]
  <1>1. DOMAIN row = {"status"}
    OBVIOUS
  <1>2. \A y \in W : y.op = "update" /\ y.key \in due /\ y.row = row
    BY DEF Upd
  <1>3. \A y, z \in W : y.key = z.key => y = z
    BY DEF Upd
  <1>4. Inserted(W) = {} /\ Deleted(W) = {} /\ Updated(W) \subseteq due
    BY <1>2 DEF Inserted, Deleted, Updated, KeysOf
  <1>5. WellFormed(W)
    BY <1>1, <1>2, <1>3, <1>4
    DEF WellFormed, OneWritePerRow, InsertsBesideRows, UpdatesRoles, WholeInvitations, Invitation
  <1>6. \A s : /\ NoInsert(W, s) /\ NoDelete(W, s)
               /\ s # t => NoUpdate(W, s)
    BY <1>4, KeyParts DEF NoInsert, NoUpdate, NoDelete
  <1>7. ShowsAllPending(due, W)
    BY <1>2 DEF ShowsAllPending, ShowsPending, Readable
  <1>8. t # "role" /\ t # "orgrole"
    OBVIOUS
  <1>9. Justified(due, W)
    BY <1>6, <1>7, <1>8, NothingToJustify DEF Justified
  <1> QED
    BY <1>5, <1>9 DEF Sound

-----------------------------------------------------------------------------
(* The views themselves.                                                   *)

Planned(w) ==
    \E R, W : /\ plan' = [plan EXCEPT ![w] = [writes |-> W, reads |-> R]]
              /\ UNCHANGED <<db, expired, stale, raced>>
              /\ Sound(R, W)

LEMMA RequestPlans ==
    ASSUME NEW w, NEW R, NEW W, Request(w, R, W), Sound(R, W)
    PROVE  Planned(w)
  BY DEF Request, Planned

LEMMA OwnershipRead ==
    \A p : OwnershipOf(p) \subseteq Ownership(p)
  BY DEF Ownership

(* Who administers a project is its owner when it is in no organization.   *)
LEMMA AdministratorOwns ==
    ASSUME NEW a, NEW p, Administers(a, p), OrgsOf(p) = {}
    PROVE  a \in Owners(p)
  BY DEF Administers

LEMMA RevokePlans ==
    ASSUME NEW w, NEW t \in {"invite", "orginvite"}, NEW x, NEW u,
           RevokeInvite(w, t, x, u) \/ DeclineInvite(w, t, x, u)
    PROVE  Planned(w)
  <1>1. Request(w, {Key(t, x, u)}, {Del(Key(t, x, u))})
    BY DEF RevokeInvite, DeclineInvite
  <1>2. Sound({Key(t, x, u)}, {Del(Key(t, x, u))})
    BY SingleWrites, InvitationDropped
  <1> QED
    BY <1>1, <1>2, RequestPlans

LEMMA AcceptPlans ==
    ASSUME NEW w, NEW t, NEW to,
           (t = "invite" /\ to = "role") \/ (t = "orginvite" /\ to = "orgrole"),
           NEW x, NEW u, AcceptInvite(w, t, to, x, u)
    PROVE  Planned(w)
  <1> DEFINE row == Row(db[Key(t, x, u)].token.role)
             R == {Key(t, x, u), Key(to, x, u)}
             W == {Ins(Key(to, x, u), row), Del(Key(t, x, u))}
  <1>1. Request(w, R, W)
    BY DEF AcceptInvite
  <1>2. W = Inserting(Key(to, x, u), row, {Key(t, x, u)})
    BY DEF Inserting, DelAll
  <1> HIDE DEF R, W, row
  <1>3. Sound(R, W)
    BY <1>2, InvitationAccepted
  <1> QED
    BY <1>1, <1>3, RequestPlans

LEMMA InvitePlans ==
    ASSUME NEW w, NEW a, NEW t \in {"invite", "orginvite"}, NEW x, NEW u, NEW r, NEW reads,
           Invite(w, a, t, x, u, r, reads),
           t = "orginvite" => ~Has("orgrole", x, u) /\ Key("orgrole", x, u) \in reads
    PROVE  Planned(w)
  <1> DEFINE token == [n |-> tokens + 1, role |-> r, by |-> a]
             row == [status |-> "Pending", token |-> token]
             key == Key(t, x, u)
             change == IF Pending(t, x, u) THEN [token |-> token] ELSE row
             R == reads \cup {key}
             W == {IF Has(t, x, u) THEN Upd(key, change) ELSE Ins(key, row)}
  <1>1. /\ plan' = [plan EXCEPT ![w] = [reads |-> R, writes |-> W]]
        /\ UNCHANGED <<db, expired, stale, raced>>
    BY DEF Invite
  <1>2. CASE ~Has(t, x, u)
    <2>1. W = Inserting(key, row, {})
      BY <1>2, SingleWrites
    <2>2. Key("orgrole", x, u) \in reads => Key("orgrole", x, u) \in R
      OBVIOUS
    <2> HIDE DEF token, R, W
    <2>3. Sound(R, W)
      BY <2>1, <2>2, InvitationCreated
    <2> QED
      BY <2>3, <1>1 DEF Planned
  <1>3. CASE Has(t, x, u)
    <2>1. W = Updating(key, change, {})
      BY <1>3, SingleWrites
    <2>2. DOMAIN change \subseteq {"status", "token"}
      OBVIOUS
    <2>3. IF "status" \in DOMAIN change THEN change.status = "Pending" ELSE Pending(t, x, u)
      OBVIOUS
    <2>4. key \in R
      OBVIOUS
    <2> HIDE DEF change, R, W
    <2>5. Sound(R, W)
      BY <2>1, <2>2, <2>3, <2>4, InvitationRenewed
    <2> QED
      BY <2>5, <1>1 DEF Planned
  <1> QED
    BY <1>2, <1>3

(* manage_project_roles. *)
LEMMA ProjectRequestPlans ==
    ASSUME NEW w, NEW a \in Users, NEW p \in Projects, NEW u \in Users,
           ProjectRequest(w, a, p, u)
    PROVE  Planned(w)
  <1>1. ASSUME NEW r, InviteCollaborator(w, a, p, u, r)
        PROVE  Planned(w)
    <2>1. Invite(w, a, "invite", p, u, r, {Key("role", p, u)})
      BY <1>1 DEF InviteCollaborator
    <2> QED
      BY <2>1, InvitePlans
  <1>2. ASSUME NEW r, ChangeProjectRole(w, a, p, u, r)
        PROVE  Planned(w)
    <2> DEFINE W == {Upd(Key("role", p, u), Row(r))}
    <2>1. Request(w, Ownership(p), W)
      BY <1>2 DEF ChangeProjectRole
    <2>2. OrgsOf(p) # {} \/ Owners(p) # {u}
      BY <1>2, AdministratorOwns DEF ChangeProjectRole, Owners
    <2>3. W = Updating(Key("role", p, u), Row(r), {})
      BY SingleWrites
    <2> HIDE DEF W
    <2>4. Sound(Ownership(p), W)
      BY <2>2, <2>3, OwnershipRead, ProjectRoleWritten
    <2> QED
      BY <2>1, <2>4, RequestPlans
  <1>3. ASSUME NEW o \in Orgs, NEW r, AddInternalUser(w, a, p, o, u, r)
        PROVE  Planned(w)
    <2> DEFINE R == {Key("role", p, u), Key("orgrole", o, u)}
               W == {Ins(Key("role", p, u), Row(r))}
    <2>1. Request(w, R, W)
      BY <1>3 DEF AddInternalUser
    <2>2. W = Inserting(Key("role", p, u), Row(r), {})
      BY SingleWrites
    <2> HIDE DEF R, W
    <2>3. Sound(R, W)
      BY <2>2, RoleAdded
    <2> QED
      BY <2>1, <2>3, RequestPlans
  <1>4. ASSUME DeleteProjectRole(w, a, p, u)
        PROVE  Planned(w)
    <2> DEFINE W == {Del(Key("role", p, u))}
    <2>1. Request(w, Ownership(p), W)
      BY <1>4 DEF DeleteProjectRole
    <2>2. OrgsOf(p) # {} \/ Owners(p) # {u}
      BY <1>4, AdministratorOwns DEF DeleteProjectRole, Owners, SoleOwned
    <2>3. W = DelAll({Key("role", p, u)})
      BY SingleWrites
    <2> HIDE DEF W
    <2>4. Sound(Ownership(p), W)
      BY <2>2, <2>3, OwnershipRead, ProjectRoleWritten
    <2> QED
      BY <2>1, <2>4, RequestPlans
  <1>5. ASSUME RevokeInvite(w, "invite", p, u)
        PROVE  Planned(w)
    BY <1>5, RevokePlans
  <1> QED
    BY <1>1, <1>2, <1>3, <1>4, <1>5 DEF ProjectRequest

(* The teams of a project, and the organization that it is in. *)
LEMMA JoiningPlan ==
    ASSUME NEW a \in Users, NEW o \in Orgs, NEW p \in Projects,
           o \notin OrgsOf(p), NEW R, OwnershipOf(p) \subseteq R
    PROVE  Sound(R, DelAll(OwnRole(a, p)) \cup LeaveAll(p) \cup Join(o, p))
  <1> DEFINE S == OwnRole(a, p) \cup UNION {RightsIn(x, p) : x \in OrgsOf(p)}
             W == DelAll(OwnRole(a, p)) \cup LeaveAll(p) \cup Join(o, p)
  <1>1. W = Inserting(Key("orgproject", o, p), Row("row"), S)
    <2>1. \A x : Leave(x, p) = DelAll(RightsIn(x, p))
      BY DEF Leave, RightsIn
    <2>2. DelAll(S) = DelAll(OwnRole(a, p)) \cup UNION {DelAll(RightsIn(x, p)) : x \in OrgsOf(p)}
      BY DEF DelAll
    <2>3. LeaveAll(p) = UNION {DelAll(RightsIn(x, p)) : x \in OrgsOf(p)}
      BY <2>1 DEF LeaveAll
    <2>4. Join(o, p) = {Ins(Key("orgproject", o, p), Row("row"))}
      BY DEF Join
    <2>5. DelAll(S) = DelAll(OwnRole(a, p)) \cup LeaveAll(p)
      BY <2>2, <2>3
    <2> HIDE DEF S
    <2> QED
      BY <2>4, <2>5 DEF Inserting
  <1>2. \A k \in S : \/ \E b \in Users : k = Key("role", p, b)
                     \/ \E x \in OrgsOf(p) : k \in RightsIn(x, p)
    BY DEF OwnRole
  <1>3. \A x \in OrgsOf(p) : RightsIn(x, p) \subseteq S
    OBVIOUS
  <1> HIDE DEF S, W
  <1>4. Sound(R, W)
    BY <1>1, <1>2, <1>3, ProjectJoins
  <1> QED
    BY <1>4 DEF W

LEMMA TeamRequestPlans ==
    ASSUME NEW w, NEW a \in Users, NEW p \in Projects, NEW o \in Orgs,
           TeamRequest(w, a, p, o)
    PROVE  Planned(w)
  <1>1. ASSUME NEW r, AddTeam(w, a, p, o, r)
        PROVE  Planned(w)
    <2> DEFINE R == {Key("orgproject", o, p)}
               W == {Ins(Key("teamproject", o, p), Row(r))}
    <2>1. Request(w, R, W)
      BY <1>1 DEF AddTeam
    <2>2. W = Inserting(Key("teamproject", o, p), Row(r), {})
      BY SingleWrites
    <2>3. Has("orgproject", o, p) /\ Key("orgproject", o, p) \in R
      BY <1>1 DEF AddTeam, OrgsOf
    <2> HIDE DEF R, W
    <2>4. Sound(R, W)
      BY <2>2, <2>3, TeamAdded
    <2> QED
      BY <2>1, <2>4, RequestPlans
  <1>2. ASSUME NEW r, ChangeTeamProjectRole(w, a, p, o, r)
        PROVE  Planned(w)
    <2> DEFINE W == {Upd(Key("teamproject", o, p), Row(r))}
    <2>1. Request(w, Ownership(p), W)
      BY <1>2 DEF ChangeTeamProjectRole
    <2>2. W = Updating(Key("teamproject", o, p), Row(r), {})
      BY SingleWrites
    <2> HIDE DEF W
    <2>3. Sound(Ownership(p), W)
      BY <2>2, TeamRoleChanged
    <2> QED
      BY <2>1, <2>3, RequestPlans
  <1>3. ASSUME DeleteTeamProjectRole(w, a, p, o)
        PROVE  Planned(w)
    <2> DEFINE W == {Del(Key("teamproject", o, p))}
    <2>1. Request(w, Ownership(p), W)
      BY <1>3 DEF DeleteTeamProjectRole
    <2>2. W = DelAll({Key("teamproject", o, p)})
      BY SingleWrites
    <2> HIDE DEF W
    <2>3. Sound(Ownership(p), W)
      BY <2>2, RightWithdrawn
    <2> QED
      BY <2>1, <2>3, RequestPlans
  <1>4. ASSUME AddOrganizationProject(w, a, o, p)
        PROVE  Planned(w)
    <2> DEFINE R == OwnershipOf(p) \cup {Key("orgrole", o, a)}
               W == DelAll(OwnRole(a, p)) \cup LeaveAll(p) \cup Join(o, p)
    <2>1. OrgsOf(p) = {} /\ Request(w, R, DelAll(OwnRole(a, p)) \cup Join(o, p))
      BY <1>4 DEF AddOrganizationProject
    <2>2. LeaveAll(p) = {}
      BY <2>1 DEF LeaveAll
    <2>3. OwnershipOf(p) \subseteq R /\ o \notin OrgsOf(p)
      BY <2>1
    <2> HIDE DEF R
    <2>4. Sound(R, W)
      BY <2>3, JoiningPlan
    <2>5. W = DelAll(OwnRole(a, p)) \cup Join(o, p)
      BY <2>2
    <2> HIDE DEF W
    <2> QED
      BY <2>1, <2>4, <2>5, RequestPlans
  <1>5. ASSUME RemoveOrganizationProject(w, a, o, p)
        PROVE  Planned(w)
    <2>1. Request(w, Ownership(p), Leave(o, p)) /\ Owners(p) # {}
      BY <1>5 DEF RemoveOrganizationProject
    <2>2. Leave(o, p) = DelAll(RightsIn(o, p))
      BY DEF Leave, RightsIn
    <2>3. Sound(Ownership(p), Leave(o, p))
      BY <2>1, <2>2, OwnershipRead, ProjectLeaves
    <2> QED
      BY <2>1, <2>3, RequestPlans
  <1>6. ASSUME TransferOrganizationProject(w, a, p, o)
        PROVE  Planned(w)
    <2> DEFINE R == Ownership(p) \cup {Key("orgrole", o, a)}
               W == DelAll(OwnRole(a, p)) \cup LeaveAll(p) \cup Join(o, p)
    <2>1. o \notin OrgsOf(p) /\ Request(w, R, W)
      BY <1>6 DEF TransferOrganizationProject
    <2>2. OwnershipOf(p) \subseteq R
      BY OwnershipRead
    <2> HIDE DEF R
    <2>3. Sound(R, W)
      BY <2>1, <2>2, JoiningPlan
    <2> HIDE DEF W
    <2> QED
      BY <2>1, <2>3, RequestPlans
  <1> QED
    BY <1>1, <1>2, <1>3, <1>4, <1>5, <1>6 DEF TeamRequest

(* Roles in an organization and its team. *)
LEMMA InviteMemberPlans ==
    ASSUME NEW w, NEW a \in Users, NEW o \in Orgs, NEW u \in Users, NEW r,
           InviteMember(w, a, o, u, r)
    PROVE  Planned(w)
  <1>1. /\ ~Has("orgrole", o, u)
        /\ Invite(w, a, "orginvite", o, u, r, {Key("orgrole", o, u)})
    BY DEF InviteMember
  <1> QED
    BY <1>1, InvitePlans

LEMMA OrganizationRequestPlans ==
    ASSUME NEW w, NEW a \in Users, NEW o \in Orgs, NEW u \in Users,
           OrganizationRequest(w, a, o, u)
    PROVE  Planned(w)
  <1>1. ASSUME NEW r, InviteMember(w, a, o, u, r)
        PROVE  Planned(w)
    BY <1>1, InviteMemberPlans
  <1>2. ASSUME NEW r, ChangeOrganizationRole(w, a, o, u, r)
        PROVE  Planned(w)
    <2> DEFINE S == IF r = "Owner" THEN {} ELSE PendingPublisher(o, u)
               R == OwnershipOfOrg(o) \cup {Key("pending", o, u)}
               W == {Upd(Key("orgrole", o, u), Row(r))}
                    \cup (IF r = "Owner" THEN {} ELSE DelAll(PendingPublisher(o, u)))
    <2>1. Request(w, R, W)
      BY <1>2 DEF ChangeOrganizationRole
    <2>2. OrgOwners(o) # {u}
      BY <1>2 DEF ChangeOrganizationRole, OrgOwners
    <2>3. W = Updating(Key("orgrole", o, u), Row(r), S)
      BY DEF Updating, DelAll
    <2>4. /\ S \subseteq {Key("pending", o, u)}
          /\ r # "Owner" /\ RoleIn("pending", o, u) = "row" => Key("pending", o, u) \in S
      BY DEF PendingPublisher
    <2>5. Key("pending", o, u) \in R /\ OwnershipOfOrg(o) \subseteq R
      OBVIOUS
    <2> HIDE DEF S, R, W
    <2>6. Sound(R, W)
      BY <2>2, <2>3, <2>4, <2>5, OrgRoleChanged
    <2> QED
      BY <2>1, <2>6, RequestPlans
  <1>3. ASSUME ResendOrganizationInvitation(w, a, o, u)
        PROVE  Planned(w)
    BY <1>3, InviteMemberPlans DEF ResendOrganizationInvitation
  <1>4. ASSUME RevokeInvite(w, "orginvite", o, u)
        PROVE  Planned(w)
    BY <1>4, RevokePlans
  <1>5. ASSUME DeleteOrganizationRole(w, a, o, u)
        PROVE  Planned(w)
    <2> DEFINE S == {Key("orgrole", o, u)} \cup PendingPublisher(o, u)
                    \cup ({Key("member", o, u)} \cap DOMAIN db)
               R == OwnershipOfOrg(o) \cup {Key("pending", o, u), Key("member", o, u)}
               W == DelAll(S)
    <2>1. Request(w, R, W)
      BY <1>5 DEF DeleteOrganizationRole
    <2>2. OrgOwners(o) # {u}
      BY <1>5 DEF DeleteOrganizationRole, OrgsWithSoleOwner, OrgOwners
    <2>3. /\ Key("orgrole", o, u) \in S
          /\ S \subseteq {Key("orgrole", o, u), Key("pending", o, u), Key("member", o, u)}
          /\ RoleIn("pending", o, u) = "row" => Key("pending", o, u) \in S
          /\ Has("member", o, u) => Key("member", o, u) \in S
      BY DEF PendingPublisher, Has
    <2>4. /\ {Key("pending", o, u), Key("member", o, u)} \subseteq R
          /\ OwnershipOfOrg(o) \subseteq R
      OBVIOUS
    <2> HIDE DEF S, R
    <2>5. Sound(R, W)
      BY <2>2, <2>3, <2>4, OrgRoleDeleted
    <2> HIDE DEF W
    <2> QED
      BY <2>1, <2>5, RequestPlans
  <1>6. ASSUME CreateTeamRole(w, a, o, u)
        PROVE  Planned(w)
    <2> DEFINE R == {Key("orgrole", o, u)}
               W == {Ins(Key("member", o, u), Row("row"))}
    <2>1. Request(w, R, W)
      BY <1>6 DEF CreateTeamRole
    <2>2. Has("orgrole", o, u)
      BY <1>6 DEF CreateTeamRole, InternalUsers, RoleIn
    <2>3. W = Inserting(Key("member", o, u), Row("row"), {})
      BY SingleWrites
    <2>4. Key("orgrole", o, u) \in R
      OBVIOUS
    <2> HIDE DEF R, W
    <2>5. Sound(R, W)
      BY <2>2, <2>3, <2>4, InsiderJoins
    <2> QED
      BY <2>1, <2>5, RequestPlans
  <1>7. ASSUME DeleteTeamRole(w, a, o, u)
        PROVE  Planned(w)
    <2> DEFINE W == {Del(Key("member", o, u))}
    <2>1. Request(w, {}, W)
      BY <1>7 DEF DeleteTeamRole
    <2>2. W = DelAll({Key("member", o, u)})
      BY SingleWrites
    <2> HIDE DEF W
    <2>3. Sound({}, W)
      BY <2>2, RightWithdrawn
    <2> QED
      BY <2>1, <2>3, RequestPlans
  <1> QED
    BY <1>1, <1>2, <1>3, <1>4, <1>5, <1>6, <1>7 DEF OrganizationRequest

LEMMA PublisherPlans ==
    ASSUME NEW w, NEW a \in Users, NEW p \in Projects, AddPublisher(w, a, p)
    PROVE  Planned(w)
  <1> DEFINE W == {Ins(Key("publisher", p, p), Row(OrgsOf(p)))}
  <1>1. Request(w, Ownership(p), W)
    BY DEF AddPublisher
  <1>2. W = Inserting(Key("publisher", p, p), Row(OrgsOf(p)), {})
    BY SingleWrites
  <1> HIDE DEF W
  <1>3. Sound(Ownership(p), W)
    BY <1>2, OwnershipRead, PublisherAdded
  <1> QED
    BY <1>1, <1>3, RequestPlans

LEMMA PendingPublisherPlans ==
    ASSUME NEW w, NEW a \in Users, NEW o \in Orgs, AddPendingPublisher(w, a, o)
    PROVE  Planned(w)
  <1> DEFINE R == {Key("orgrole", o, a)}
             W == {Ins(Key("pending", o, a), Row("row"))}
  <1>1. Request(w, R, W)
    BY DEF AddPendingPublisher
  <1>2. Has("orgrole", o, a) /\ a \in OrgOwners(o)
    BY DEF AddPendingPublisher, OrgOwners, RoleIn
  <1>3. W = Inserting(Key("pending", o, a), Row("row"), {})
    BY SingleWrites
  <1>4. Key("orgrole", o, a) \in R
    OBVIOUS
  <1> HIDE DEF R, W
  <1>5. Sound(R, W)
    BY <1>2, <1>3, <1>4, InsiderJoins
  <1> QED
    BY <1>1, <1>5, RequestPlans

LEMMA DeleteOrganizationPlans ==
    ASSUME NEW w, NEW a \in Users, NEW o \in Orgs, DeleteOrganization(w, a, o)
    PROVE  Planned(w)
  <1> DEFINE R == {Key("orgproject", o, p) : p \in Projects}
             W == {Del(Key("org", o, o))}
  <1>1. Request(w, R, W)
    BY DEF DeleteOrganization
  <1>2. \A p \in Projects : Key("orgproject", o, p) \in R /\ ~Has("orgproject", o, p)
    BY DEF DeleteOrganization, ProjectsOf
  <1>3. W = DelAll({Key("org", o, o)})
    BY SingleWrites
  <1> HIDE DEF R, W
  <1>4. Sound(R, W)
    BY <1>2, <1>3, OrganizationDeleted
  <1> QED
    BY <1>1, <1>4, RequestPlans

LEMMA DeleteAccountPlans ==
    ASSUME NEW w, NEW a \in Users, DeleteAccount(w, a)
    PROVE  Planned(w)
  <1> DEFINE W == {Del(Key("user", a, a))}
  <1>1. Request(w, AllOwnership, W)
    BY DEF DeleteAccount
  <1>2. \A p \in Projects : OrgsOf(p) # {} \/ Owners(p) # {a}
    BY DEF DeleteAccount, SoleOwned
  <1>3. \A o \in Orgs : OrgOwners(o) # {a}
    BY DEF DeleteAccount, OrgsWithSoleOwner
  <1>4. \A p \in Projects : OwnershipOf(p) \subseteq AllOwnership
    <2>1. \A p \in Projects : Ownership(p) \subseteq AllOwnership
      BY DEF AllOwnership
    <2> QED
      BY <2>1, OwnershipRead
  <1>5. \A o \in Orgs : OwnershipOfOrg(o) \subseteq AllOwnership
    BY DEF AllOwnership
  <1>6. W = DelAll({Key("user", a, a)})
    BY SingleWrites
  <1> HIDE DEF W
  <1>7. Sound(AllOwnership, W)
    BY <1>2, <1>3, <1>4, <1>5, <1>6, AccountDeleted
  <1> QED
    BY <1>1, <1>7, RequestPlans

LEMMA AnswerPlans ==
    ASSUME NEW w, NEW u \in Users, Answer(w, u)
    PROVE  Planned(w)
  BY AcceptPlans, RevokePlans DEF Answer

LEMMA HandlePlans ==
    ASSUME NEW w, Handle(w)
    PROVE  Planned(w)
  BY ProjectRequestPlans, TeamRequestPlans, OrganizationRequestPlans, PublisherPlans,
     PendingPublisherPlans, DeleteOrganizationPlans, AnswerPlans, DeleteAccountPlans
  DEF Handle

LEMMA MarkingPlans ==
    ASSUME NEW t \in {"invite", "orginvite"}, UpdateInvitationStatus(t)
    PROVE  Planned(Beat)
  <1> DEFINE due == {k \in DOMAIN db : /\ k[1] = t
                                       /\ db[k].status = "Pending"
                                       /\ db[k].token.n \in expired}
             W == {Upd(k, [status |-> "Expired"]) : k \in due}
  <1>1. /\ plan' = [plan EXCEPT ![Beat] = [reads |-> due, writes |-> W]]
        /\ UNCHANGED <<db, expired, stale, raced>>
    BY DEF UpdateInvitationStatus
  <1>2. \A k \in due : k[1] = t /\ db[k].token.n \in expired
    OBVIOUS
  <1> HIDE DEF due
  <1>3. Sound(due, W)
    BY <1>2, InvitationsMarked
  <1> HIDE DEF W
  <1> QED
    BY <1>1, <1>3 DEF Planned

-----------------------------------------------------------------------------
(* The first states.                                                       *)

LEMMA RestrictParts ==
    \A f, S : /\ DOMAIN Restrict(f, S) = S
              /\ \A c \in S : Restrict(f, S)[c] = f[c]
  BY DEF Restrict

LEMMA FirstAccounts ==
    /\ \A t, x, y : Key(t, x, y) \in DOMAIN Accounts => t \in {"user", "org"}
    /\ \A o \in Orgs : Key("org", o, o) \in DOMAIN Accounts
  BY KeysDiffer DEF Accounts

LEMMA FirstRoles ==
    ASSUME NEW owners \in SUBSET Users, NEW in \in SUBSET Orgs
    PROVE  /\ \A t, x, y : Key(t, x, y) \in DOMAIN Roles(owners, in) <=>
                 \/ t = "role" /\ x \in Projects /\ y \in owners
                 \/ t = "orgproject" /\ x \in in /\ y \in Projects
           /\ \A p, u : Key("role", p, u) \in DOMAIN Roles(owners, in) =>
                 Roles(owners, in)[Key("role", p, u)] = Row("Owner")
  <1>1. \A t, x, y : Key(t, x, y) \in DOMAIN Roles(owners, in) <=>
           \/ t = "role" /\ x \in Projects /\ y \in owners
           \/ t = "orgproject" /\ x \in in /\ y \in Projects
    BY KeysDiffer DEF Roles
  <1>2. \A p, u : Key("role", p, u) \in DOMAIN Roles(owners, in) =>
           Roles(owners, in)[Key("role", p, u)] = Row("Owner")
    BY KeyParts DEF Roles
  <1> QED
    BY <1>1, <1>2

LEMMA FirstMembers ==
    ASSUME NEW roleOf
    PROVE  /\ \A t, x, y : Key(t, x, y) \in DOMAIN Members(roleOf) <=>
                 t = "orgrole" /\ x \in Orgs /\ y \in Users
           /\ \A o \in Orgs, u \in Users :
                 Members(roleOf)[Key("orgrole", o, u)] = Row(roleOf[o][u])
  <1>1. \A t, x, y : Key(t, x, y) \in DOMAIN Members(roleOf) <=>
           t = "orgrole" /\ x \in Orgs /\ y \in Users
    BY KeysDiffer DEF Members
  <1>2. \A o \in Orgs, u \in Users :
           Members(roleOf)[Key("orgrole", o, u)] = Row(roleOf[o][u])
    BY KeyParts DEF Members
  <1> QED
    BY <1>1, <1>2

LEMMA FirstTeams ==
    ASSUME NEW members, NEW in \in SUBSET Orgs,
           \A m \in members : \E o \in Orgs, u \in Users : m = Key("orgrole", o, u)
    PROVE  \A t, x, y : Key(t, x, y) \in DOMAIN Teams(members, in) =>
              \/ t = "member" /\ Key("orgrole", x, y) \in members
              \/ t = "teamproject" /\ x \in in /\ y \in Projects
  BY KeysDiffer, KeyParts DEF Teams

LEMMA FirstInvitations ==
    ASSUME NEW owners, NEW in, NEW roleOf
    PROVE  /\ \A k \in DOMAIN Invitations(owners, in, roleOf) :
                 /\ Invitation(k)
                 /\ DOMAIN Invitations(owners, in, roleOf)[k] = {"status", "token"}
                 /\ Invitations(owners, in, roleOf)[k].status = "Pending"
           /\ \A t, x, y : Key(t, x, y) \in DOMAIN Invitations(owners, in, roleOf) =>
                 t \in {"invite", "orginvite"}
  <1>1. \A k \in DOMAIN Invitations(owners, in, roleOf) : Invitation(k)
    BY KeyParts DEF Invitations, Invitation
  <1>2. \A k \in DOMAIN Invitations(owners, in, roleOf) :
           /\ DOMAIN Invitations(owners, in, roleOf)[k] = {"status", "token"}
           /\ Invitations(owners, in, roleOf)[k].status = "Pending"
    BY DEF Invitations
  <1> QED
    BY <1>1, <1>2, KeyParts DEF Invitation

(* The tables of a first state, as far as the invariant looks at them.     *)
FirstRows(owners, in, roleOf) ==
    /\ \A k \in DOMAIN db : Invitation(k) =>
          DOMAIN db[k] = {"status", "token"} /\ db[k].status = "Pending"
    /\ \A o \in Orgs : Has("org", o, o)
    /\ \A p \in Projects, u \in owners : RoleIn("role", p, u) = "Owner"
    /\ \A o, p : Has("orgproject", o, p) <=> o \in in /\ p \in Projects
    /\ \A o \in Orgs, u \in Users :
          Has("orgrole", o, u) => RoleIn("orgrole", o, u) = roleOf[o][u]
    /\ \A o \in Orgs, u \in Users : roleOf[o][u] = "Owner" => Has("orgrole", o, u)
    /\ \A o, u : Has("member", o, u) => Has("orgrole", o, u)
    /\ \A o, p : Has("teamproject", o, p) => o \in in /\ p \in Projects
    /\ \A o, u : Has("orginvite", o, u) => ~Has("orgrole", o, u)
    /\ \A x, y : ~Has("pending", x, y) /\ ~Has("publisher", x, y)

(* What a table holds that is laid over others.                            *)
Layered(roles, all, members, given) ==
    /\ \A k : k \in DOMAIN db <=>
          k \in DOMAIN Accounts \/ k \in DOMAIN roles \/ k \in members \/ k \in DOMAIN given
    /\ \A k \in DOMAIN roles : k \notin DOMAIN Accounts => db[k] = roles[k]
    /\ \A k \in members : k \notin DOMAIN Accounts /\ k \notin DOMAIN roles => db[k] = all[k]
    /\ \A k \in DOMAIN given :
          k \notin DOMAIN Accounts /\ k \notin DOMAIN roles /\ k \notin members => db[k] = given[k]

LEMMA LayersParts ==
    ASSUME NEW roles, NEW all, NEW members, NEW given,
           db = Over(Accounts, Over(roles, Over(Restrict(all, members), given)))
    PROVE  Layered(roles, all, members, given)
  <1> DEFINE inOrg == Restrict(all, members)
             rest == Over(inOrg, given)
             upper == Over(roles, rest)
  <1>1. /\ DOMAIN inOrg = members
        /\ \A k \in members : inOrg[k] = all[k]
    BY RestrictParts
  <1>2. db = Over(Accounts, upper)
    OBVIOUS
  <1> HIDE DEF inOrg
  <1>3. /\ DOMAIN rest = members \cup DOMAIN given
        /\ \A k \in members : rest[k] = all[k]
        /\ \A k \in DOMAIN given : k \notin members => rest[k] = given[k]
    BY ONLY <1>1 DEF Over
  <1> HIDE DEF rest
  <1>4. /\ DOMAIN upper = DOMAIN roles \cup DOMAIN rest
        /\ \A k \in DOMAIN roles : upper[k] = roles[k]
        /\ \A k \in DOMAIN rest : k \notin DOMAIN roles => upper[k] = rest[k]
    BY DEF Over
  <1> HIDE DEF upper
  <1>5. /\ DOMAIN db = DOMAIN Accounts \cup DOMAIN upper
        /\ \A k \in DOMAIN upper : k \notin DOMAIN Accounts => db[k] = upper[k]
    BY ONLY <1>2 DEF Over
  <1> QED
    BY ONLY <1>3, <1>4, <1>5 DEF Layered

LEMMA JoinedMembers ==
    ASSUME NEW roleOf
    PROVE  /\ \A t, x, y : Key(t, x, y) \in Joined(roleOf) <=>
                 t = "orgrole" /\ x \in Orgs /\ y \in Users /\ roleOf[x][y] # "none"
           /\ \A k \in Joined(roleOf) : \E o \in Orgs, u \in Users : k = Key("orgrole", o, u)
  <1>1. \A k : k \in Joined(roleOf) <=> k \in DOMAIN Members(roleOf) /\ Members(roleOf)[k].role # "none"
    BY DEF Joined
  <1>2. \A k \in DOMAIN Members(roleOf) : \E o \in Orgs, u \in Users : k = Key("orgrole", o, u)
    BY DEF Members
  <1>3. \A t, x, y : Key(t, x, y) \in Joined(roleOf) <=>
           t = "orgrole" /\ x \in Orgs /\ y \in Users /\ roleOf[x][y] # "none"
    BY ONLY <1>1, FirstMembers, RowColumns
  <1>4. \A k \in Joined(roleOf) : \E o \in Orgs, u \in Users : k = Key("orgrole", o, u)
    BY ONLY <1>1, <1>2
  <1> QED
    BY ONLY <1>3, <1>4

LEMMA OpenInvitations ==
    ASSUME NEW owners, NEW in, NEW invited, NEW roleOf
    PROVE  /\ Open(owners, in, invited, roleOf) \subseteq DOMAIN Invitations(owners, in, roleOf)
           /\ \A t, x, y : Key(t, x, y) \in Open(owners, in, invited, roleOf) =>
                 /\ t \in {"invite", "orginvite"}
                 /\ Key("orgrole", x, y) \notin Joined(roleOf)
  <1>1. \A k : k \in Open(owners, in, invited, roleOf) =>
           k \in DOMAIN Invitations(owners, in, roleOf) /\ Key("orgrole", k[2], k[3]) \notin Joined(roleOf)
    BY DEF Open
  <1> QED
    BY ONLY <1>1, FirstInvitations, KeyParts

LEMMA GivenRows ==
    ASSUME NEW owners, NEW in \in SUBSET Orgs, NEW teams \in BOOLEAN, NEW invited, NEW roleOf
    PROVE  LET given == Given(owners, in, teams, invited, roleOf)
           IN  /\ \A k \in DOMAIN given : Invitation(k) =>
                     DOMAIN given[k] = {"status", "token"} /\ given[k].status = "Pending"
               /\ \A t, x, y : Key(t, x, y) \in DOMAIN given =>
                     \/ t = "member" /\ Key("orgrole", x, y) \in Joined(roleOf)
                     \/ t = "teamproject" /\ x \in in /\ y \in Projects
                     \/ t \in {"invite", "orginvite"} /\ Key("orgrole", x, y) \notin Joined(roleOf)
  <1> DEFINE given == Given(owners, in, teams, invited, roleOf)
             open == Open(owners, in, invited, roleOf)
             all == Invitations(owners, in, roleOf)
  <1>1. CASE teams
    <2>1. given = Teams(Joined(roleOf), in)
      BY <1>1 DEF Given
    <2>2. \A k \in DOMAIN Teams(Joined(roleOf), in) : k[1] \in {"member", "teamproject"}
      BY KeyParts DEF Teams
    <2>3. \A k \in DOMAIN given : ~Invitation(k)
      BY <2>1, <2>2 DEF Invitation
    <2>4. \A t, x, y : Key(t, x, y) \in DOMAIN given =>
             \/ t = "member" /\ Key("orgrole", x, y) \in Joined(roleOf)
             \/ t = "teamproject" /\ x \in in /\ y \in Projects
      BY <2>1, JoinedMembers, FirstTeams
    <2> QED
      BY ONLY <2>3, <2>4
  <1>2. CASE ~teams
    <2>1. given = Restrict(all, open)
      BY <1>2 DEF Given
    <2> HIDE DEF given, open, all
    <2>2. DOMAIN given = open /\ \A k \in open : given[k] = all[k]
      BY ONLY <2>1, RestrictParts
    <2>3. open \subseteq DOMAIN all
      BY OpenInvitations DEF open, all
    <2>4. \A k \in DOMAIN all :
             DOMAIN all[k] = {"status", "token"} /\ all[k].status = "Pending"
      BY FirstInvitations DEF all
    <2>5. \A k \in DOMAIN given :
             DOMAIN given[k] = {"status", "token"} /\ given[k].status = "Pending"
      BY ONLY <2>2, <2>3, <2>4
    <2>6. \A t, x, y : Key(t, x, y) \in open =>
             t \in {"invite", "orginvite"} /\ Key("orgrole", x, y) \notin Joined(roleOf)
      BY OpenInvitations DEF open
    <2> QED
      BY ONLY <2>2, <2>5, <2>6 DEF given
  <1> QED
    BY <1>1, <1>2

LEMMA FirstTables ==
    ASSUME NEW owners \in SUBSET Users, NEW in \in SUBSET Orgs, NEW teams \in BOOLEAN,
           NEW invited, NEW roleOf,
           db = Over(Accounts, Over(Roles(owners, in),
                  Over(Restrict(Members(roleOf), Joined(roleOf)), Given(owners, in, teams, invited, roleOf))))
    PROVE  FirstRows(owners, in, roleOf)
  <1> DEFINE roles == Roles(owners, in)
             all == Members(roleOf)
             members == Joined(roleOf)
             given == Given(owners, in, teams, invited, roleOf)
  <1>1. Layered(roles, all, members, given)
    BY LayersParts
  <1>2. /\ \A k \in DOMAIN given : Invitation(k) =>
              DOMAIN given[k] = {"status", "token"} /\ given[k].status = "Pending"
        /\ \A t, x, y : Key(t, x, y) \in DOMAIN given =>
              \/ t = "member" /\ Key("orgrole", x, y) \in members
              \/ t = "teamproject" /\ x \in in /\ y \in Projects
              \/ t \in {"invite", "orginvite"} /\ Key("orgrole", x, y) \notin members
    BY GivenRows
  <1>3. /\ \A t, x, y : Key(t, x, y) \in members <=>
              t = "orgrole" /\ x \in Orgs /\ y \in Users /\ roleOf[x][y] # "none"
        /\ \A k \in members : \E o \in Orgs, u \in Users : k = Key("orgrole", o, u)
    BY JoinedMembers
  <1>4. \A o \in Orgs, u \in Users : all[Key("orgrole", o, u)] = Row(roleOf[o][u])
    BY FirstMembers
  <1>5. \A t, x, y : Key(t, x, y) \in DOMAIN Accounts => t \in {"user", "org"}
    BY FirstAccounts
  <1>6. /\ \A t, x, y : Key(t, x, y) \in DOMAIN roles <=>
              \/ t = "role" /\ x \in Projects /\ y \in owners
              \/ t = "orgproject" /\ x \in in /\ y \in Projects
        /\ \A p, u : Key("role", p, u) \in DOMAIN roles => roles[Key("role", p, u)] = Row("Owner")
    BY FirstRoles
  <1>7. \A k : Invitation(k) => k \notin DOMAIN Accounts /\ k \notin DOMAIN roles /\ k \notin members
    <2>1. \A k \in DOMAIN Accounts : k[1] \in {"user", "org"}
      BY KeyParts DEF Accounts
    <2>2. \A k \in DOMAIN roles : k[1] \in {"role", "orgproject"}
      BY KeyParts DEF Roles
    <2>3. \A k \in members : k[1] = "orgrole"
      BY <1>3, KeyParts
    <2> QED
      BY ONLY <2>1, <2>2, <2>3 DEF Invitation
  <1> HIDE DEF roles, all, members, given
  <1>8. \A k \in DOMAIN db : Invitation(k) =>
           DOMAIN db[k] = {"status", "token"} /\ db[k].status = "Pending"
    BY ONLY <1>1, <1>2, <1>7 DEF Layered
  <1>9. \A t, x, y : Has(t, x, y) <=>
            \/ Key(t, x, y) \in DOMAIN Accounts \/ Key(t, x, y) \in DOMAIN roles
            \/ Key(t, x, y) \in members \/ Key(t, x, y) \in DOMAIN given
    BY ONLY <1>1 DEF Has, Layered
  <1>10. \A o \in Orgs : Has("org", o, o)
    BY ONLY <1>9, FirstAccounts
  <1>11. \A p \in Projects, u \in owners : RoleIn("role", p, u) = "Owner"
    <2>1. \A p \in Projects, u \in owners :
             /\ Key("role", p, u) \in DOMAIN roles /\ Key("role", p, u) \notin DOMAIN Accounts
      BY ONLY <1>5, <1>6
    <2>2. \A p \in Projects, u \in owners : db[Key("role", p, u)] = Row("Owner")
      BY ONLY <2>1, <1>1, <1>6 DEF Layered
    <2> QED
      BY ONLY <2>1, <2>2, <1>9, RowColumns DEF RoleIn
  <1>12. \A o, u : Has("orgrole", o, u) <=> Key("orgrole", o, u) \in members
    BY ONLY <1>2, <1>5, <1>6, <1>9
  <1>13. \A o \in Orgs, u \in Users : Has("orgrole", o, u) => RoleIn("orgrole", o, u) = roleOf[o][u]
    <2>1. \A o, u : Key("orgrole", o, u) \notin DOMAIN Accounts /\ Key("orgrole", o, u) \notin DOMAIN roles
      BY ONLY <1>5, <1>6
    <2>2. \A o \in Orgs, u \in Users : Key("orgrole", o, u) \in members =>
             db[Key("orgrole", o, u)] = Row(roleOf[o][u])
      BY ONLY <2>1, <1>1, <1>4 DEF Layered
    <2> QED
      BY ONLY <2>2, <1>12, RowColumns DEF RoleIn
  <1>14. \A o \in Orgs, u \in Users : roleOf[o][u] = "Owner" => Has("orgrole", o, u)
    BY ONLY <1>3, <1>12
  <1>15. \A t, x, y : Has(t, x, y) =>
            /\ t = "orgproject" => x \in in /\ y \in Projects
            /\ t = "member" => Has("orgrole", x, y)
            /\ t = "teamproject" => x \in in /\ y \in Projects
            /\ t = "orginvite" => ~Has("orgrole", x, y)
            /\ t # "pending" /\ t # "publisher"
    BY ONLY <1>2, <1>3, <1>5, <1>6, <1>9, <1>12
  <1>16. \A o, p : o \in in /\ p \in Projects => Has("orgproject", o, p)
    BY ONLY <1>6, <1>9
  <1> QED
    BY ONLY <1>8, <1>10, <1>11, <1>13, <1>14, <1>15, <1>16 DEF FirstRows

LEMMA AtMostOneOf ==
    ASSUME NEW S, IsFiniteSet(S), Cardinality(S) <= 1, NEW x \in S, NEW y \in S
    PROVE  x = y
  <1>1. IsFiniteSet(S \ {x}) /\ Cardinality(S \ {x}) = Cardinality(S) - 1
    BY FS_RemoveElement
  <1>2. Cardinality(S) \in Nat /\ Cardinality(S \ {x}) \in Nat
    BY <1>1, FS_CardinalityType
  <1>3. Cardinality(S \ {x}) = 0
    BY <1>1, <1>2
  <1> QED
    BY <1>1, <1>3, FS_EmptySet

LEMMA InitHolds ==
    ASSUME Init
    PROVE  MembershipsInv
  <1>1. PICK owners \in SUBSET Users, in \in SUBSET Orgs, teams \in BOOLEAN,
             invited \in SUBSET Users,
             roleOf \in [Orgs -> [Users -> {"Owner", "Member", "none"}]] :
           /\ Cardinality(in) <= 1
           /\ owners # {} \/ in # {}
           /\ \A o \in Orgs : \E u \in Users : roleOf[o][u] = "Owner"
           /\ db = Over(Accounts, Over(Roles(owners, in),
                  Over(Restrict(Members(roleOf), Joined(roleOf)), Given(owners, in, teams, invited, roleOf))))
    BY DEF Init
  <1>2. FirstRows(owners, in, roleOf)
    BY <1>1, FirstTables
  <1>3. /\ plan = [w \in Servers |-> NoPlan]
        /\ expired = {} /\ stale = {} /\ raced = {}
    BY DEF Init, Servers
  <1>4. PlansWellFormed
    BY <1>3, NothingPlanned DEF PlansWellFormed, NoPlan
  <1>5. PlansJustified
    BY <1>3, NothingPlanned DEF PlansJustified, NoPlan
  <1>6. RowsWhole
    BY <1>2 DEF RowsWhole, FirstRows
  <1>7. ProjectsAreOwned
    <2> SUFFICES ASSUME NEW p \in Projects
                 PROVE  Owners(p) # {} \/ OrgsOf(p) # {}
      BY DEF ProjectsAreOwned
    <2>1. CASE owners # {}
      BY <1>2, <2>1 DEF FirstRows, Owners
    <2>2. CASE in # {}
      BY <1>2, <2>2 DEF FirstRows, OrgsOf
    <2> QED
      BY <1>1, <2>1, <2>2
  <1>8. OrganizationsHaveAnOwner
    <2> SUFFICES ASSUME NEW o \in Orgs
                 PROVE  OrgOwners(o) # {}
      BY DEF OrganizationsHaveAnOwner
    <2>1. PICK u \in Users : roleOf[o][u] = "Owner"
      BY <1>1
    <2>2. RoleIn("orgrole", o, u) = "Owner"
      BY <1>2, <2>1 DEF FirstRows
    <2> QED
      BY <2>2 DEF OrgOwners
  <1>9. AtMostOneOrganization
    <2>1. IsFiniteSet(in)
      BY OrgsAssumption, FS_Subset
    <2>2. \A p \in Projects : OrgsOf(p) \subseteq in
      BY <1>2 DEF FirstRows, OrgsOf
    <2>3. \A o1, o2 \in in : o1 = o2
      BY <1>1, <2>1, AtMostOneOf
    <2> QED
      BY <2>2, <2>3 DEF AtMostOneOrganization
  <1>10. MembershipsEndTogether
    <2>1. \A o, u : RoleIn("pending", o, u) = "none"
      BY <1>2 DEF FirstRows, RoleIn
    <2> QED
      BY <1>2, <2>1 DEF FirstRows, MembershipsEndTogether
  <1>11. RightsStayBehind
    BY <1>2 DEF FirstRows, RightsStayBehind
  <1>12. AcceptableIsPending
    <2>1. \A t \in {"invite", "orginvite"} : \A x, u : Invitation(Key(t, x, u))
      BY KeyParts DEF Invitation
    <2> QED
      BY <1>2, <2>1 DEF FirstRows, AcceptableIsPending, Readable, Pending, Has
  <1> QED
    BY <1>4, <1>5, <1>6, <1>7, <1>8, <1>9, <1>10, <1>11, <1>12 DEF MembershipsInv

LEMMA PlannedKeeps ==
    ASSUME MembershipsInv, NEW w \in Servers, Planned(w)
    PROVE  MembershipsInv'
  <1>1. PICK R, W : /\ plan' = [plan EXCEPT ![w] = [writes |-> W, reads |-> R]]
                    /\ UNCHANGED <<db, expired, stale, raced>>
                    /\ Sound(R, W)
    BY DEF Planned
  <1> QED
    BY <1>1, PlanKeeps DEF Sound

LEMMA StepKeeps ==
    ASSUME MembershipsInv, [Next]_vars
    PROVE  MembershipsInv'
  <1>1. ASSUME NEW w \in Workers, Handle(w)
        PROVE  MembershipsInv'
    BY <1>1, HandlePlans, PlannedKeeps DEF Servers
  <1>2. ASSUME NEW w \in Servers, Ends(w)
        PROVE  MembershipsInv'
    BY <1>2, CommitKeeps, RollbackKeeps DEF Ends
  <1>3. CASE UpdateInvitations
    BY <1>3, MarkingPlans, PlannedKeeps DEF UpdateInvitations, Servers
  <1>4. ASSUME NEW n, TokenExpires(n)
        PROVE  MembershipsInv'
    BY <1>4, ExpiryKeeps
  <1>5. ASSUME NEW o, NEW s, StandingChanges(o, s)
        PROVE  MembershipsInv'
    BY <1>5, StandingKeeps
  <1>6. CASE UNCHANGED vars
    <2>1. UNCHANGED <<db, plan, expired, stale, raced>>
      BY <1>6 DEF vars
    <2>2. \A k : KeptRow(k)
      BY <2>1 DEF KeptRow
    <2> QED
      BY <2>1, <2>2, SameRowsKeep, SamePlansKeep DEF MembershipsInv
  <1> QED
    BY <1>1, <1>2, <1>3, <1>4, <1>5, <1>6 DEF Next, Servers

LEMMA InvariantHolds == Spec => []MembershipsInv
  <1>1. Init => MembershipsInv
    BY InitHolds
  <1>2. MembershipsInv /\ [Next]_vars => MembershipsInv'
    BY StepKeeps
  <1> QED
    BY <1>1, <1>2, PTL DEF Spec

-----------------------------------------------------------------------------
(* The properties of Memberships.                                          *)

(* As long as nothing that a request read was written by another, what its *)
(* checks found (that the user is not the last owner, that the project is  *)
(* in no other organization, that the member is still in the organization, *)
(* that the invitation has not been answered) still holds when it commits: *)
(* the invariant that the theorems below rest on.                          *)
THEOREM ChecksStillHold == Spec => []PlansJustified
  <1>1. MembershipsInv => PlansJustified
    BY DEF MembershipsInv
  <1> QED
    BY <1>1, InvariantHolds, PTL

(* An organization keeps an owner until it is deleted: the views that      *)
(* change or delete an organization role, and the deletion of an account,  *)
(* refuse to take the last one, unless two of them race each other.        *)
THEOREM OrganizationsKeepAnOwner == Spec => []OrganizationsHaveAnOwner
  <1>1. MembershipsInv => OrganizationsHaveAnOwner
    BY DEF MembershipsInv
  <1> QED
    BY <1>1, InvariantHolds, PTL

(* A project keeps an individual owner or is in an organization that has   *)
(* one: the sole-owner checks of the role, organization and account views  *)
(* agree with each other and with what a DELETE takes with it.             *)
THEOREM ProjectsKeepAnOwner == Spec => []ProjectsHaveAnOwner
  <1>1. MembershipsInv => ProjectsHaveAnOwner
    <2> SUFFICES ASSUME MembershipsInv, NEW p \in Projects \ raced, Owners(p) = {}
                 PROVE  \E o \in OrgsOf(p) : o \in raced \/ OrgOwners(o) # {}
      BY DEF ProjectsHaveAnOwner
    <2>1. PICK o \in OrgsOf(p) : TRUE
      BY DEF MembershipsInv, ProjectsAreOwned
    <2>2. o \in Orgs /\ Has("org", o, o)
      BY <2>1 DEF MembershipsInv, RowsWhole, OrgsOf
    <2>3. o \in raced \/ OrgOwners(o) # {}
      BY <2>2 DEF MembershipsInv, OrganizationsHaveAnOwner
    <2> QED
      BY <2>1, <2>3
  <1> QED
    BY <1>1, InvariantHolds, PTL

(* The last owner of a project or an organization goes only with a commit  *)
(* whose checks are stale: a view, the deletion of an account or an        *)
(* organization, a task or a payment that raced with nothing leaves        *)
(* whatever owners there are with one, whatever races there were before.   *)
THEOREM OnlyRacesTakeOwners == Spec => OwnersGoInRacesOnly
  <1> DEFINE Keeps == /\ \A p \in Projects : HasOwner(p) => HasOwner(p)'
                      /\ \A o \in Orgs : OrgOwners(o) # {} /\ Has("org", o, o)' => OrgOwners(o)' # {}
  <1>1. ASSUME db' = db
        PROVE  Keeps
    BY <1>1 DEF HasOwner, Owners, OrgsOf, OrgOwners, RoleIn, Has
  <1>2. ASSUME NEW o, NEW s, StandingChanges(o, s)
        PROVE  Keeps
    <2>1. db' = [db EXCEPT ![Key("org", o, o)] = Row(s)]
      BY <1>2 DEF StandingChanges
    <2>2. \A t, x, y : Has(t, x, y)' = Has(t, x, y)
      BY <2>1 DEF Has
    <2>3. \A t \in {"role", "orgrole"} : \A x, y : RoleIn(t, x, y)' = RoleIn(t, x, y)
      BY <2>1, <2>2, KeyParts DEF RoleIn, Has
    <2> QED
      BY <2>2, <2>3 DEF HasOwner, Owners, OrgsOf, OrgOwners
  <1>3. ASSUME MembershipsInv, NEW w \in Servers \ stale, Commit(w)
        PROVE  Keeps
    BY <1>3, OwnerStays, OrgOwnerStays
  <1>4. ASSUME NEW w, Planned(w)
        PROVE  db' = db
    BY <1>4 DEF Planned
  <1>5. MembershipsInv /\ [Next]_vars => (\E w \in stale : Commit(w)) \/ Keeps
    <2> SUFFICES ASSUME MembershipsInv, [Next]_vars
                 PROVE  (\E w \in stale : Commit(w)) \/ Keeps
      OBVIOUS
    <2> HIDE DEF Keeps
    <2>1. ASSUME NEW w \in Workers, Handle(w)
          PROVE  Keeps
      BY <2>1, <1>1, <1>4, HandlePlans DEF Servers
    <2>2. ASSUME NEW w \in Servers, Commit(w)
          PROVE  (\E v \in stale : Commit(v)) \/ Keeps
      BY <2>2, <1>3
    <2>3. ASSUME NEW w, Rollback(w)
          PROVE  Keeps
      BY <2>3, <1>1 DEF Rollback
    <2>4. CASE UpdateInvitations
      BY <2>4, <1>1, <1>4, MarkingPlans DEF UpdateInvitations, Servers
    <2>5. ASSUME NEW n, TokenExpires(n)
          PROVE  Keeps
      BY <2>5, <1>1 DEF TokenExpires
    <2>6. CASE UNCHANGED vars
      BY <2>6, <1>1 DEF vars
    <2> QED
      BY <2>1, <2>2, <2>3, <2>4, <2>5, <2>6, <1>2 DEF Next, Ends, Servers
  <1>6. MembershipsInv /\ [Next]_vars =>
           [\/ \E w \in stale : Commit(w)
            \/ /\ \A p \in Projects : HasOwner(p) => HasOwner(p)'
               /\ \A o \in Orgs : OrgOwners(o) # {} /\ Has("org", o, o)' => OrgOwners(o)' # {}]_vars
    BY <1>5
  <1> QED
    BY <1>6, InvariantHolds, PTL DEF Spec, OwnersGoInRacesOnly

(* A project is in at most one organization, which no constraint of the    *)
(* table says: adding and transferring one checks that it is in no other.  *)
THEOREM InOneOrganization == Spec => []OneOrganization
  <1>1. MembershipsInv => OneOrganization
    <2> SUFFICES ASSUME MembershipsInv, NEW p \in Projects \ raced
                 PROVE  Cardinality(OrgsOf(p)) <= 1
      BY DEF OneOrganization
    <2>1. \A o1, o2 \in OrgsOf(p) : o1 = o2
      BY DEF MembershipsInv, AtMostOneOrganization
    <2>2. OrgsOf(p) = {} \/ \E o : OrgsOf(p) = {o}
      BY <2>1
    <2>3. CASE OrgsOf(p) = {}
      BY <2>3, FS_EmptySet
    <2>4. CASE \E o : OrgsOf(p) = {o}
      <3>1. PICK o : OrgsOf(p) = {o}
        BY <2>4
      <3>2. Cardinality(OrgsOf(p)) = 1
        BY <3>1, FS_Singleton, Zenon
      <3> QED
        BY <3>2
    <2> QED
      BY <2>2, <2>3, <2>4
  <1> QED
    BY <1>1, InvariantHolds, PTL

(* Who leaves an organization leaves its team and its pending publishers,  *)
(* and who is in it is not invited, whichever view it was that ended the   *)
(* membership, the deletion of the account included.                       *)
THEOREM LeavingEndsMemberships == Spec => []MembershipsEndTogether
  <1>1. MembershipsInv => MembershipsEndTogether
    BY DEF MembershipsInv
  <1> QED
    BY <1>1, InvariantHolds, PTL

(* A project that leaves an organization, by removal, by a transfer or     *)
(* with the organization, takes neither its team's rights nor the trusted  *)
(* publishers that were set up there.                                      *)
THEOREM LeavingEndsRights == Spec => []RightsStayBehind
  <1>1. MembershipsInv => RightsStayBehind
    BY DEF MembershipsInv
  <1> QED
    BY <1>1, InvariantHolds, PTL

(* An invitation that can be accepted is shown as pending, also when it is *)
(* sent again after it expired, whether or not update_invitation_status    *)
(* has marked it by then; not when the two run at once, which is a race.   *)
THEOREM InvitationsShowAsPending == Spec => []AcceptableIsPending
  <1>1. MembershipsInv => AcceptableIsPending
    BY DEF MembershipsInv
  <1> QED
    BY <1>1, InvariantHolds, PTL
=============================================================================
