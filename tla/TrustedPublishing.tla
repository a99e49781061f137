--------------------------- MODULE TrustedPublishing ---------------------------
(***************************************************************************)
(* Trusted publishing: a CI job's JWT is exchanged for an API token of the *)
(* project its configuration publishes, and the first one for a pending    *)
(* publisher creates the project.                                          *)
(*                                                                         *)
(* mint_token writes two stores: the used token identifiers in Redis, at   *)
(* once, and the database, where others see its writes when the request    *)
(* commits.  A request that answers with an error commits too; one that is *)
(* killed or retried does not, but what it wrote to Redis stays.           *)
(*                                                                         *)
(* One project name is modelled.  Project 0 stands for the other projects; *)
(* the number of a project is its id.  A registration is one pending       *)
(* publisher.  Organizations and rate limits are left out, and so are the  *)
(* issuers' keys: a request starts with a token that was verified.  Of the *)
(* issuers' claims one matters, the identifier (jti): the publishers of    *)
(* GitHub and GitLab want one that was not used; those of Google and       *)
(* ActiveState do not ask for one, and a token without it is exchanged as  *)
(* often as it is sent.                                                    *)
(***************************************************************************)
EXTENDS Integers, FiniteSets

CONSTANTS
    Users, Configs,
    Registrations,   \* pending publishers that may be registered for the name
    UserOf,          \* who registers each
    ConfigOf,        \* and for which CI configuration
    Jwts,            \* identity tokens, all with the expiry Exp
    IssuedTo,        \* the configuration each identifies
    Identified,      \* those that carry an identifier
    Checking,        \* configurations of an issuer whose publishers check it
    Requests,        \* requests that may run at a time
    Exp, Leeway, Margin,
    Attempts,        \* retry.attempts
    MaxProjects,     \* projects the name may have in turn: a bound
    MaxRows,         \* publisher rows a configuration may have in turn: a bound
    MaxUses          \* uses after which a token without identifier is not sent: a bound

ASSUME WindowAssumption == Exp \in Nat /\ Leeway \in Nat /\ Margin \in Nat \ {0}
ASSUME BoundsAssumption == Attempts \in Nat /\ MaxProjects \in Nat /\ MaxRows \in Nat /\ MaxUses \in Nat
ASSUME RegistrationsAssumption ==
    /\ UserOf \in [Registrations -> Users] /\ ConfigOf \in [Registrations -> Configs]
    /\ IssuedTo \in [Jwts -> Configs] /\ Users # {}
\* A token without an identifier is none of GitHub's or GitLab's publishers.
ASSUME IdentifiedAssumption ==
    /\ Identified \subseteq Jwts /\ Checking \subseteq Configs
    /\ \A t \in Jwts : IssuedTo[t] \in Checking => t \in Identified

VARIABLES
    now,             \* the time
    claimed,         \* token identifiers stored in Redis
    project,         \* the project that has the name, 0 if there is none
    lastProject,     \* number of projects the name has had
    owner,           \* owner of each of them
    reg,             \* state of each registration
    publisher,       \* publisher row of each configuration
    tx,              \* what each request is doing
    minted,          \* number of API tokens each identity token was exchanged for
    lost             \* history: identifiers of requests that ended after claiming

db == <<project, lastProject, owner, reg, publisher, minted>>
vars == <<now, claimed, db, tx, lost>>

Projects == 0..MaxProjects
Idle == [step |-> "idle"]
NoRow == [id |-> 0, live |-> FALSE, projects |-> {}]

Accepted == now < Exp + Leeway
\* Variant: the identifier is kept no longer than the token is accepted.
Replayable_NoMargin == Exp + Leeway
Replayable == Exp + Leeway + Margin
Used(t) == t \in claimed
\* check_existing_jti, with the claims of a publisher that was found.
Reused(t) == IssuedTo[t] \in Checking /\ Used(t)

Started(r) == tx[r].step # "idle"
At(r, s) == tx[r].step = s
Go(r, s) == tx' = [tx EXCEPT ![r].step = s]
Answer(r) == tx' = [tx EXCEPT ![r] = Idle]
Attempt(t, n) == [step |-> "pending", jwt |-> t, attempt |-> n, since |-> now,
                  found |-> {}, project |-> 0, stale |-> {}, row |-> 0]
\* pyramid_retry: an IntegrityError rolls back and starts the request again,
\* which verifies its token again.
Retry(r) == tx' = [tx EXCEPT ![r] = IF tx[r].attempt < Attempts /\ Accepted
                                    THEN Attempt(tx[r].jwt, tx[r].attempt + 1) ELSE Idle]

Config(r) == IssuedTo[tx[r].jwt]
Creating(r) == Started(r) /\ tx[r].project # 0
Holds(r) == tx[r].found \cup tx[r].stale     \* the registrations a creating request deletes
Free(x) == \A r \in Requests : Creating(r) => x \notin Holds(r)
Pending == {x \in Registrations : reg[x] = "pending"}
Gone(S) == [x \in Registrations |-> IF x \in S THEN "gone" ELSE reg[x]]
\* The publisher row of a configuration, inserted if there is none.
Row(c) == IF publisher[c].live THEN publisher[c]
          ELSE [id |-> publisher[c].id + 1, live |-> TRUE, projects |-> {}]
MayHaveRow(c) == Row(c).id <= MaxRows
With(c, p) == [publisher EXCEPT ![c] = [Row(c) EXCEPT !.projects = @ \cup {p}]]
-----------------------------------------------------------------------------
(* Verifying the token.                                                    *)

Ask(r, t) ==
    /\ ~Started(r) /\ Accepted
    /\ t \in Identified \/ minted[t] < MaxUses
    /\ tx' = [tx EXCEPT ![r] = Attempt(t, 1)]
    /\ UNCHANGED <<now, claimed, db, lost>>

\* Time passes; a request takes less than Margin from verifying to claiming.
Tick ==
    /\ now < Exp + Leeway + Margin
    /\ \A r \in Requests : tx[r].step \in {"pending", "create", "publisher", "claim"} =>
           now - tx[r].since < Margin
    /\ now' = now + 1
    /\ claimed' = IF now' < Replayable THEN claimed ELSE {}
    /\ UNCHANGED <<db, tx, lost>>
-----------------------------------------------------------------------------
(* Exchanging it.                                                          *)

\* The request answers, with an error or a token, and what it wrote is committed.
Commit(r) ==
    /\ Answer(r)
    /\ IF ~Creating(r) THEN UNCHANGED <<project, lastProject, owner, reg, publisher>>
       ELSE /\ project' = tx[r].project
            /\ lastProject' = tx[r].project
            /\ owner' = [owner EXCEPT ![tx[r].project] = UserOf[CHOOSE x \in tx[r].found : TRUE]]
            /\ reg' = Gone(Holds(r))
            /\ publisher' = With(Config(r), tx[r].project)

\* find_publisher(pending=True): ReusedTokenError is not caught here, and a
\* registration for a name that is taken is removed.  One whose user is frozen
\* or not active is passed over.  Variant: checking the identifier stores it.
FindPending_Stores(r) ==
    /\ At(r, "pending")
    /\ LET found == {x \in Pending : ConfigOf[x] = Config(r)} IN
       /\ found # {} => ~Reused(tx[r].jwt) /\ project = 0
       /\ claimed' = IF found = {} THEN claimed ELSE claimed \cup (Identified \cap {tx[r].jwt})
       /\ tx' = [tx EXCEPT ![r].found = found, ![r].step = IF found = {} THEN "publisher" ELSE "create"]
    /\ UNCHANGED <<now, db, lost>>
FindPending(r) ==
    /\ At(r, "pending")
    /\ LET found == {x \in Pending : ConfigOf[x] = Config(r)} IN
       \/ found = {} /\ Go(r, "publisher") /\ UNCHANGED reg
       \/ found # {} /\ Reused(tx[r].jwt) /\ Answer(r) /\ UNCHANGED reg
       \/ found # {} /\ ~Reused(tx[r].jwt) /\ Go(r, "publisher") /\ UNCHANGED reg
       \/ /\ found # {} /\ ~Reused(tx[r].jwt) /\ project = 0
          /\ tx' = [tx EXCEPT ![r].found = found, ![r].step = "create"]
          /\ UNCHANGED reg
       \/ /\ found # {} /\ ~Reused(tx[r].jwt) /\ project # 0
          /\ reg' = Gone(found)
          /\ Answer(r)
    /\ UNCHANGED <<now, claimed, project, lastProject, owner, publisher, minted, lost>>

Create(r, p) == tx' = [tx EXCEPT ![r].step = "publisher", ![r].project = p,
    ![r].stale = {y \in Pending : \A x \in tx[r].found : UserOf[y] # UserOf[x]}]

\* create_project and reify_pending_publisher, up to the flush: the insert waits
\* for another one of the name and fails when that has committed.  Registration
\* of projects may be disabled, or limited.  Variant: a project that exists by
\* then is used.
CreateProject_OrGet(r) ==
    /\ At(r, "create") /\ \A q \in Requests : ~Creating(q)
    /\ lastProject < MaxProjects /\ MayHaveRow(Config(r))
    /\ Create(r, IF project = 0 THEN lastProject + 1 ELSE project)
    /\ UNCHANGED <<now, claimed, db, lost>>
CreateProject(r) ==
    /\ At(r, "create") /\ \A q \in Requests : ~Creating(q)
    /\ \/ Answer(r)
       \/ project # 0 /\ Retry(r)
       \/ /\ project = 0 /\ lastProject < MaxProjects /\ MayHaveRow(Config(r))
          /\ Create(r, lastProject + 1)
    /\ UNCHANGED <<now, claimed, db, lost>>

\* find_publisher(pending=False): sees the row the request itself inserted.
FindPublisher(r) ==
    /\ At(r, "publisher")
    /\ \/ /\ publisher[Config(r)].live \/ Creating(r)
          /\ ~Reused(tx[r].jwt)
          /\ tx' = [tx EXCEPT ![r].row = Row(Config(r)).id, ![r].step = "claim"]
          /\ UNCHANGED <<project, lastProject, owner, reg, publisher>>
       \/ ~(publisher[Config(r)].live \/ Creating(r)) /\ Commit(r)
       \/ (publisher[Config(r)].live \/ Creating(r)) /\ Reused(tx[r].jwt) /\ Commit(r)
    /\ UNCHANGED <<now, claimed, minted, lost>>

\* store_jwt_identifier, for a token that has one.
Claim(r) ==
    /\ At(r, "claim")
    /\ \/ /\ Used(tx[r].jwt)
          /\ Commit(r)
          /\ UNCHANGED claimed
       \/ /\ ~Used(tx[r].jwt)
          /\ claimed' = IF tx[r].jwt \in Identified /\ now < Replayable
                        THEN claimed \cup {tx[r].jwt} ELSE claimed
          /\ Go(r, "mint")
          /\ UNCHANGED <<project, lastProject, owner, reg, publisher>>
    /\ UNCHANGED <<now, minted, lost>>

\* The identifiers of requests that ended after claiming, with r.
LostWith(r) == lost \cup (Identified \cap {tx[r].jwt})

\* The token refers to the publisher's row, which may be gone.
Mint(r) ==
    /\ At(r, "mint")
    /\ \/ /\ Creating(r) \/ (publisher[Config(r)].live /\ publisher[Config(r)].id = tx[r].row)
          /\ minted' = [minted EXCEPT ![tx[r].jwt] = @ + 1]
          /\ Commit(r)
          /\ UNCHANGED lost
       \/ /\ ~Creating(r) /\ ~(publisher[Config(r)].live /\ publisher[Config(r)].id = tx[r].row)
          /\ Retry(r)
          /\ lost' = LostWith(r)
          /\ UNCHANGED <<project, lastProject, owner, reg, publisher, minted>>
    /\ UNCHANGED <<now, claimed>>

\* The worker is killed, or the commit fails.
Crash(r) ==
    /\ Started(r)
    /\ lost' = IF At(r, "mint") THEN LostWith(r) ELSE lost
    /\ Answer(r)
    /\ UNCHANGED <<now, claimed, db>>
-----------------------------------------------------------------------------
(* Users.                                                                  *)

\* The form checks that the name is free; a configuration has one registration.
FillIn(x) ==
    /\ reg[x] = "absent" /\ project = 0
    /\ reg' = [reg EXCEPT ![x] = "checked"]
    /\ UNCHANGED <<now, claimed, project, lastProject, owner, publisher, tx, minted, lost>>

\* A configuration is registered once.
Register(x) ==
    /\ reg[x] = "checked"
    /\ \A y \in Registrations : ConfigOf[y] = ConfigOf[x] => Free(y)
    /\ reg' = [reg EXCEPT ![x] = IF \E y \in Pending : ConfigOf[y] = ConfigOf[x]
                                 THEN "gone" ELSE "pending"]
    /\ UNCHANGED <<now, claimed, project, lastProject, owner, publisher, tx, minted, lost>>

\* Deleted by its user, or after 30 days.
Unregister(x) ==
    /\ reg[x] = "pending" /\ Free(x)
    /\ reg' = Gone({x})
    /\ UNCHANGED <<now, claimed, project, lastProject, owner, publisher, tx, minted, lost>>

\* By an owner of p.
AddPublisher(c, p) ==
    /\ p \in {0, project} /\ p \notin publisher[c].projects
    /\ MayHaveRow(c)
    /\ \A r \in Requests : Creating(r) /\ Config(r) = c => publisher[c].live
    /\ publisher' = With(c, p)
    /\ UNCHANGED <<now, claimed, project, lastProject, owner, reg, tx, minted, lost>>

\* The last project takes the row, and its tokens, with it.
RemovePublisher(c, p) ==
    /\ p \in publisher[c].projects
    /\ LET left == publisher[c].projects \ {p}
       IN  /\ left = {} => \A r \in Requests : Creating(r) => Config(r) # c
           /\ publisher' = [publisher EXCEPT ![c].projects = left, ![c].live = left # {}]
    /\ UNCHANGED <<now, claimed, project, lastProject, owner, reg, tx, minted, lost>>

DeleteProject ==
    /\ project # 0
    /\ project' = 0
    /\ publisher' = [c \in Configs |-> [publisher[c] EXCEPT !.projects = @ \ {project}]]
    /\ UNCHANGED <<now, claimed, lastProject, owner, reg, tx, minted, lost>>
-----------------------------------------------------------------------------
Init ==
    /\ now = 0 /\ claimed = {}
    /\ project = 0 /\ lastProject = 0
    /\ owner = [p \in 1..MaxProjects |-> CHOOSE u \in Users : TRUE]
    /\ reg = [x \in Registrations |-> "absent"]
    /\ publisher = [c \in Configs |-> NoRow]
    /\ tx = [r \in Requests |-> Idle]
    /\ minted = [t \in Jwts |-> 0]
    /\ lost = {}

Request(r) ==
    \/ FindPending(r) \/ CreateProject(r) \/ FindPublisher(r) \/ Claim(r) \/ Mint(r) \/ Crash(r)
    \/ \E t \in Jwts : Ask(r, t)
Owners ==
    \/ \E x \in Registrations : FillIn(x) \/ Register(x) \/ Unregister(x)
    \/ \E c \in Configs, p \in Projects : AddPublisher(c, p) \/ RemovePublisher(c, p)
    \/ DeleteProject

Next == (\E r \in Requests : Request(r)) \/ Owners \/ Tick

Spec == Init /\ [][Next]_vars
-----------------------------------------------------------------------------
(* Properties.                                                             *)

\* Type correctness, with what the tables' constraints add: one project of the
\* name, one request that inserts it, one registration of a configuration
\* (the unique constraints of packaging/models.py and oidc/models).
TypeOK ==
    /\ now \in 0..(Exp + Leeway + Margin)
    /\ claimed \subseteq Identified /\ lost \subseteq Identified
    /\ project \in {0, lastProject} /\ lastProject \in Projects
    /\ reg \in [Registrations -> {"absent", "checked", "pending", "gone"}]
    /\ \A x, y \in Pending : ConfigOf[x] = ConfigOf[y] => x = y
    /\ publisher \in [Configs -> [id : 0..MaxRows, live : BOOLEAN, projects : SUBSET {0, project}]]
    /\ \A q, r \in Requests : Creating(q) /\ Creating(r) => q = r
    /\ minted \in [Jwts -> Nat]

\* An identity token that carries an identifier is exchanged for at most one API
\* token, however often and however late in the window PyJWT accepts it is sent
\* (services.py:26-29), also where the issuer's publishers do not look at the
\* identifier and the claim alone decides (views.py:393-407).
OneTokenPerIdentifier == \A t \in Identified : minted[t] <= 1

\* An identifier is used up for an API token: the requests that fail, or that
\* the retries start again, have not claimed it, but for those that were killed,
\* or whose publisher was removed, after claiming it (oidc/views.py:393-407).
UsedUpForAToken ==
    \A t \in claimed :
        minted[t] = 1 \/ t \in lost \/ \E r \in Requests : At(r, "mint") /\ tx[r].jwt = t

\* A project is published only from where one of its owners said: it gets a
\* publisher in the transaction that creates it, for a registration of who
\* then owns it, or from an owner (oidc/views.py:222-249, 336-356).
PublishersAreChosen ==
    [][\A c \in Configs : \A p \in publisher'[c].projects \ publisher[c].projects :
          \/ /\ p \notin {0, project}
             /\ \E x \in Registrations : ConfigOf[x] = c /\ UserOf[x] = owner'[p] /\ reg[x] # "absent"
          \/ AddPublisher(c, p)]_vars

=============================================================================
