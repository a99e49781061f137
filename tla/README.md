# A verification of Warehouse

Warehouse is the program behind PyPI: a Pyramid web application over PostgreSQL,
with Celery workers, Redis, object storage and a CDN.  This directory holds TLA+
models of its core, the TLC runs that check them and proofs checked by TLAPS.
Paths below are relative to `src/warehouse/` unless they start with `docs/`.

## 1. The system

A web request runs in one database transaction at READ COMMITTED
(`db.py:30`), which `pyramid_tm` commits when the view returns; `pyramid_retry`
runs the whole request again, three times at most, when a unique index refuses
its rows (`db.py:54`, `config.py:866`).  Celery tasks are sent by a hook after
the commit (`tasks.py:150-198`).  So the hard behaviours are those of
concurrent transactions that look before they write, of locks held until a
commit, of external storage written before it, and of tasks that may be lost or
run twice after it.

| Component | State it keeps | Operations | Interacts with | Correct when |
|---|---|---|---|---|
| Journal and changelog (`packaging/models.py`, `legacy/api/xmlrpc`, `api/simple.py`) | `journals`, `projects.last_serial` | add an entry, flush listener, serial trigger, read index, read changelog | every handler that changes a project; mirrors | serials appear in commit order, none is lost, mirrors miss nothing |
| Upload API (`forklift/legacy.py`) | projects, releases, `release_files`, `file_registry`, archive bucket | upload | journal, storage, tasks, OIDC, macaroons | one name, one content, for ever; one sdist a release |
| File storage and cache (`packaging/tasks.py`) | cache bucket, `File.cached` | sync one file, reconcile a batch | upload, deletion | a file marked cached can be served; every file becomes cached |
| Deletion, yanking, quarantine (`utils/project.py`, `manage/views`) | the same rows, lifecycle status | delete, yank, quarantine, clear | journal, upload, storage tasks | locks are taken in one order; names are not reused |
| Project names | `projects.name` | rename by upload | journal trigger | `last_serial` covers every entry |
| Origin cache (`cache/origin`) | CDN contents, purge keys of a session | collect keys at flush, purge after commit | every handler | a page is not stale for ever |
| Roles and collaborators (`manage/views`, `accounts/views.py`) | `roles`, `role_invitations` | add, change, remove, invite, accept, expire | journal, organizations, accounts | a project keeps an owner; an invitation that works is pending |
| Accounts, sessions | users, e-mails, second factors, sessions | register, log in, verify, reset, delete | rate limits, e-mail, roles | a token works once and only for the state it was made for |
| Trusted publishing (`oidc`) | publishers, pending publishers, key sets and token ids in Redis | mint a token, refresh keys, register, reify | macaroons, projects | a token that has an id is exchanged once; a project is published from where its owner said |
| API tokens (`macaroons`) | macaroons and their first use | create, verify, delete | upload | caveats only restrict |
| Rate limiting | windows in Redis | test, hit, clear | accounts, projects | limits hold under concurrency |
| Organizations and teams (`organizations`, `manage/views`) | organizations, their roles, teams, projects, invitations | add, change, remove, transfer, invite | roles, publishers | an organization keeps an owner; who or what leaves keeps no rights |
| Applications for organizations | applications, requests for information, name catalog | submit, answer, withdraw, approve, decline, defer, return | organizations | an approval makes one organization of a name; names stay reserved |
| Subscriptions and billing (`api/billing.py`, `organizations/tasks.py`) | subscriptions, deactivation schedules | webhook, reconcile, remind, deactivate, reactivate | Stripe | stored statuses follow Stripe; nobody is deactivated without the notices |
| E-mail and SES (`email/ses`) | `ses_emails`, `ses_events`, bounce counters | send, deliver, bounce, complain | SNS, accounts | repeated and late events do no harm, and none is lost |
| Observations | reports on projects | report, quarantine automatically | lifecycle | one verdict, applied once |
| Search | OpenSearch index | reindex all or one | lifecycle, upload | the index follows the database |
| Everything else (admin and manage forms, RSS, sitemap, i18n, metrics, TUF client, help desk, captcha, banners, sponsors, classifiers, CLI) | little or none | read or call out | | |

`PROJECT.json` lists every component with its status, and under `hazards` what is
hard to test in this code, at its line, with the property that covers it.

## 2. The modules

| Module | What it is |
|---|---|
| `Changelog` | what the changelog API promises a mirror |
| `Journals` | the transactions that write journal entries, down to flushes and locks; the mirror |
| `JournalsProofs` | theorems about `Journals`, that it implements `Changelog`, and that the requests of `RequestLocks` implement it, wait in a circle only where a statement comes late, and get nearer to their end |
| `RequestLocks` | `Journals` driven by the handlers of the upload API and the manage pages |
| `LockOrder` | the order in which those requests take their locks, and what is late in it, as an inductive invariant |
| `Progress` | what a request has still to do, and that it gets less; that somebody runs, and that a mirror finds a page |
| `ProjectSpelling` | a project whose name changes its spelling, and the serial trigger |
| `PackageIndex` | what the index promises those who install from it |
| `Files` | uploads, deletions, and the tasks that fill the cache bucket |
| `FilesProofs` | theorems about `Files`, and that it implements `PackageIndex` |
| `Memberships` | roles, organizations, teams, invitations and publishers under concurrent requests |
| `MembershipPlans` | what a request of `Memberships` may rely on when it commits, as an inductive invariant |
| `MembershipsProofs` | theorems about `Memberships`: owners remain, and rights and memberships end together |
| `Applications` | applications for organizations and the catalog of their names |
| `Billing` | one organization's subscriptions, the reconciliation and the nightly run |
| `TrustedPublishing` | identity tokens, pending publishers and the project they create |
| `EmailAddresses` | addresses of users and the notifications about messages to them |
| `ProjectSpellingProofs`, `ApplicationsProofs`, `TrustedPublishingProofs`, `EmailAddressesProofs`, `BillingProofs` | theorems about the module each is named after |
| `MC_*` | values for TLC: symmetry sets, rows, scripts of requests |

### Journals

`journals.id` is a SERIAL, which follows the order of INSERTs; mirrors need the
order of commits.  `ensure_monotonic_journals` (`packaging/models.py:1551-1614`)
makes one out of the other with an advisory lock, and keeps journal entries out
of flushes that write anything else.

A member of `Tx` is a thread that runs one transaction after another.  The
session's unit of work is `pending` (journal entries in `session.new`),
`deferred` (`session.info["_deferred_journals"]`), `writes` (every other new or
dirty object, with the row lock its statement takes) and `deletes`.
A flush is `BeforeFlush` (the listener's decision), then `LockRow` once per
project in the order of `normalized_name`, `LockAdvisory`, one `ExecuteWrite`,
`InsertJournal` or `ExecuteDelete` per statement, and `AfterFlush`
(`_restore_deferred_journals`).  A statement that cannot have its lock waits.
`InsertJournal` takes the next number and runs the trigger
`maintain_project_last_serial`.  `Commit` needs a clean session, since the
commit flushes until there is nothing left; `Rollback` may happen anywhere (an
exception, a doomed transaction, a statement timeout) and gives no number back.
`DeadlockVictim` is PostgreSQL breaking a cycle of waits.

The mirror follows `docs/dev/api-reference/xml-rpc.md:43-52`: it renders the
index in two statements (`IndexSerial`, `IndexProjects`; other transactions
may commit in between) and then polls `changelog_since_serial`, a page at a time.

In `Journals` a request may add anything in any order and flush at any time
within `MaxWork`, which includes every handler there is.  Project names are
fixed there: that a journal entry's name finds its row is an assumption, which
`ProjectSpelling` drops.

### RequestLocks

What deadlocks depends on the order of real handlers, so this module adds to
`Journals` a script for each worker: the operations of one handler in the order
of its source (`UploadFile`, `UploadWithUrls`, `UploadRelease`, `DeleteFile`,
`DeleteRelease`, `YankRelease`, and the task `SyncFile`).  `Query` is a
database query that autoflushes; `Store` is the archive storage.  Rows are a
project, its existing releases (locked together, in the order of their ids,
by `_sort_releases`), the files in them, and the unique index entries of new
rows.  The files of the existing releases are one row, so that a deletion
of a file, a deletion of its release and the task all meet on it.
Foreign keys take KEY SHARE on the row they reference; those of events are
deferred to the commit (`events/models.py:209-217`) and by then find a
stronger lock of their own transaction.  An UPDATE of `projects.name` takes NO
KEY UPDATE, as no unique index covers the plain column.

A request takes its locks upwards, from the releases and files to the project,
but for two `Late` statements: `delete_project_release_file` flushes its journal
entry in the queries for the contributors and executes the DELETE of the file at
its commit (`DeletesLate`; `manage/views/__init__.py:1884-1923`), and an upload
whose metadata names URLs has flushed its file, and so updated its project, when
it updates the release with a URL that is verified now (`VerifiesLate`;
`forklift/legacy.py:1780-1801`).  `SyncFile` updates its file's project, too: the
trigger for `total_size` fires on every UPDATE of a file
(`migrations/versions/87509f4ae027_update_project_size_on_release_removal.py:65`).
Left out are the first upload of a project, an upload that respells its name, the
removal of a project, and the rows an API token has of its own (its use, and
the warning of `forklift/legacy.py:877`).  So is `reconcile_file_storages`: it skips
files that are locked, and of one project it takes the locks of `SyncFile`, but it
has the files of a batch locked from the start and then updates their projects
one after the other, so that requests on two projects can wait in a circle through
it that is no pair.

### ProjectSpelling

One project, several requests: `Load` reads `project.name` into the session,
`Rename` is the assignment in an upload (`forklift/legacy.py:886`),
`LockForJournal` the listener's row lock by normalized name, `InsertJournal` the
INSERT with the trigger, which looks for the row by the exact name
(`migrations/versions/06bfbc92f67d_rename_tables.py:39-46`).

### Files

`FindRelease`, `InsertRelease`, `CheckDuplicate`, `CheckFilename`, `CheckSdist`,
`Store`, `StoreMetadata`, `InsertFile` and `Commit` are the steps of
`file_upload` that touch shared state, in its order; each check sees what was
committed when it ran.  `InsertRelease` and `InsertFile` wait for a transaction
that holds the same index entry and fail if it was committed; then the request
is retried (`Retry`).  `Abort` is a failure anywhere, and leaves the archive
as it is.  `Commit` may or may not get its task to the broker.
`DeleteFile` and `DeleteReleases` stand for the manage pages and
`remove_release`/`remove_project`; a DELETE waits for whoever has its rows.
`Sync*` is `sync_file_to_cache`, with a broker that keeps a task until it is
acknowledged and may deliver it twice; `Reconcile*` is
`reconcile_file_storages`, which holds its batch FOR UPDATE, SKIP LOCKED.

A name determines its release and its kind (the upload validates that).
Sdists have no metadata object, wheels have one; an object's path contains the
hash of its content, so an object is the file itself.  A release may outlive
its files, so initially any of them may exist.  Not modelled: the limits
on sizes and on the age of a release, provenance, and objects that vanish from
a bucket.

### Memberships

The database is one partial function from keys (a table and two ids) to rows:
`roles`, `organization_roles`, `organization_projects`, `teams`' members and
projects, both tables of invitations, pending publishers, and the publishers of a project.  A
request is two steps, as READ COMMITTED makes it: the action of the view reads,
checks and leaves its writes in `plan`, and `Commit` carries them out on the rows
as they are by then, with the cascades of the foreign keys (`Cascade`,
`Detached`), or fails (`Fails`: a unique or foreign key, a row that is gone).
`TokenExpires` and `UpdateInvitationStatus` are the age of invitation tokens and
the tasks that mark them (`organizations/tasks.py:83`, `manage/tasks.py`).
`StandingChanges` stands for billing.

Nothing in these views locks what it has checked, so two owners *can* remove
each other.  The model has these races; `stale` finds them (a request whose rows
were changed between its read and its commit) and `raced` names the projects and
organizations that such a request wrote to, which the invariants leave out.
One of them is the task that marks an invitation expired while it is being sent
again: whichever commits second overwrites the other's status, the invitation can then be
accepted although it shows as expired, and `AcceptableIsPending` leaves the case out.
What it does say is that sending, marking, accepting and declining one after the
other, in any order and through all the views, keep status and token together.
They say that every check is right about what it read, and that checks, writes and
cascades of all the views fit together.

### Applications

`Approve`, `CreateOrganization` and `ApproveCommit` are the lock, the INSERTs and
the unlocked decline of the competitors in `approve_organization_application`;
`Answer` and `AnswerCommit` are the applicant's response to any request for
information, answered before or not, which reads the requests unlocked
(`manage/views/organizations.py:294-317`).  `Edit` and `EditCommit` are the
administrators' form, which may give an application another name at any time,
also after its approval (`admin/views/organizations.py:887-920`); so the name is
a variable, `nameOf`.  `Defer`, `Decline`, `RequestMoreInfo` and `Withdraw` lock
and commit in one step.  `Undefer`, `UndeferCommit` and `UndeferFails` are the
nightly task, `DeleteDeclined` and `DeleteCommit` the purge, which selects
without a lock.  `catalog` is `OrganizationNameCatalog`;
`Rename` commits the new name whatever `add_catalog_entry` says, as the view does.

`born` is a history variable: the application and the name each organization was
approved for.  An application that an answer has reopened may be approved again;
`OneOrganizationEach` says that this makes no second organization for a name.  It
makes a second one for another name, when an administrator has edited the
application in between, and the property allows that.  Deleting an organization
leaves its application as it is: `OrganizationApplication.organization` is viewonly
(`organizations/models.py:945-947`), so the assignment in
`organizations/services.py:198` is not what would persist the reference
(`tests/unit/organizations/test_services.py:186` sees the attribute in the session).

### Billing

`Checkout` and `Renewal` change what Stripe has; an event of each status may be
delivered (`SubscriptionEvent`, `CheckoutCompleted`) late, again or never.
`ReconcileStart` is `reconcile_stripe_status`.  `Write` and `Overtaken` are
`sync_subscription_status`, which writes only what is still as it was loaded, and
`ReactivateAfterPayment` the lock and the second look after it.  `RunStart`,
`RunLock` and `RunCommit` are `schedule_unpaid_organization_deactivations`, with
`Rescheduled` and `Due` for the dates, which are distances from today that `Tick`
shortens.  `RemoveOwner`, `RemovalCommit` and `RemovalRollback` are
`deactivate_organization_for_owner_removal`.  Left out: several organizations in
one run and its cap (an organization may be skipped on any night), the queue of
notices, an owner that administrators add to an organization that lost its last one,
customers, usage records, the flag that disables the run, and a run that
lasts over midnight.

### TrustedPublishing

The steps of `mint_token`: `Ask` (a verified token), `FindPending`,
`CreateProject`, `FindPublisher`, `Claim` (the identifier, in Redis), `Mint`.  The
transaction's rows are private until its commit; the identifiers are not, and
stay when `Crash` or a retry throws the transaction away.  `FillIn` and `Register`
are the check and the commit of the form for a pending publisher; `Unregister`
its deletion by the user or after 30 days.  Time starts at the expiry of the
tokens: `Leeway` is PyJWT's, `Margin` what `store_jwt_identifier` adds, and a
request takes less than `Margin` from its verification to its claim.

Not every token has an identifier: those of GitHub and GitLab must have one, and
their publishers look whether it was used (`Checking`, `Reused`); those of Google
and ActiveState need none (`models/google.py:60-69`, `activestate.py:70-88`), and
`mint_token` claims what is there (`Identified`; `oidc/views.py:396`).  A token
without an identifier is exchanged as often as it is sent, in the model `MaxUses`
times, and `OneTokenPerIdentifier` says nothing of it.  A pending publisher of a
user who is frozen or not active is passed over, and the request looks for a full
publisher (`oidc/views.py:213-217`); who that is may change at any time.

### EmailAddresses

`Transitions` and `Output` are the `EmailStatus` machine, `Notify` and
`NotifyCommit` the view `notification`: it reads without a lock and writes the
columns it has changed (`Written`).  `Happen` is what becomes of a message;
SNS repeats a notification until it is recorded.  A message here is a
verification mail, and its token verifies the row it names (`VerifyEmail`).
`DomainExpired` is the task about expired domains.  A notification finds its
row by the address, so that a bounce or complaint about a message to a former user
of it does unverify the present one's row (`Notify`); `VerifiedByItsOwner` says
that no notification *verifies*.

## 3. The runs

| Run | Checks | Bounds |
|---|---|---|
| `Journals` | `MirrorMissesNothing`, `LastSerialCurrent`, `JournalsConserved`, `SerialsInCommitOrder`, `ImplementsChangelog` | 2 workers, 2 projects, 2 serials, 2 objects a transaction, pages of 1, one of the rows may be deleted |
| `JournalsLive` | `CommitsEnd`, `MirrorCatchesUp` | 2 workers, 2 rows, 2 serials, 2 objects, pages of 1 |
| `Locks` | `OnlyLatePairsDeadlock`, `AdvisoryHolderWaitsForItsFile`, `StoreWithoutAdvisory` | 3 workers, 9 requests on one project (2 new releases, 3 uploads to an existing one, 2 deletions, a yank, the task), 2 serials |
| `Spelling` | `CurrentUnlessRenamed`, `LastSerialNeverFalls` | 3 workers, 2 spellings, 4 serials |
| `FilesUploads` | `SingleSdist`, `ConfirmedWasPublished`, `ImplementsPackageIndex` | 2 uploads, 2 sdists of 1 release, 2 contents, 2 attempts |
| `FilesCache` | `ArchiveHoldsFiles`, `CachedFilesAreServed`, `EventuallyCached` | 1 upload, 1 sync worker, 2 reconcile runs with batches of 2, an sdist and a wheel, 2 contents |
| `Memberships` | `ProjectsHaveAnOwner`, `OrganizationsHaveAnOwner`, `OneOrganization`, `MembershipsEndTogether`, `RightsStayBehind`, `AcceptableIsPending` | 2 users, 1 project, 2 organizations, 2 requests, 2 workers and the invitation tasks |
| `Applications` | `OneOrganizationEach`, `NamesStayReserved`, `ApprovalStands` | 2 applications, each for any of 2 names and edited at will, 2 organizations, 2 workers, 1 request for information each |
| `Renaming` | `NamesAreReserved` is violated | the same, 1 worker, 2 organizations, no requests for information |
| `Billing` | `PaidIsActive`, `DeactivatedAfterNotices`, `OneReminderADay`, `RemovedStays`, `StatusesConverge`, `DeadlinesAreCleared` | 1 subscription, 1 webhook worker, the reconciliation, 1 nightly run, two notices |
| `TrustedPublishing` | `OneTokenPerIdentifier`, `UsedUpForAToken`, `PublishersAreChosen` | 2 users, 2 configurations, 2 registrations, 2 requests with 2 attempts, 2 projects in turn, 3 tokens: one whose issuer's publishers check the identifier, one whose publishers do not, one without |
| `EmailAddresses` | `TypeOK`, `VerifiedByItsOwner`, `ComplaintsAreRecorded` | 2 rows of one address, 1 message, 2 workers, no bounce allowed |

*Why these bounds.*  A wrong order of serials needs two transactions and two
entries; two objects in a transaction are enough for a flush to be mixed and
for an entry to be deferred, and two projects for rows to be locked in an order;
two rows for a deadlock, two serials and pages of one for a mirror
that needs a second call while entries are still being committed.  Deadlocks
between handlers on one project involve its few rows, and cycles of two and of
three waiting requests fit in three workers.  `MaxSerial` of the lock run lets
one request insert its two entries while others queue behind it, or two requests
one each; a request that finds the sequence exhausted stays where it is until it
rolls back, which makes it wait for nobody.  In `Files`, two uploads and two
contents make every collision (same name, same content, both, same release),
and a release that already exists lets both get past `CheckSdist` before either
inserts, so that only `release_files_single_sdist` decides;
the retry bound of the code is 3, of the run 2, so that an upload
can lose a race, be retried, and lose again.

In `Memberships` the initial states are a wide choice of what earlier requests may
have left behind: any owners of the project, in one organization or in none, any
owners and members of the organizations, and either their teams or one
invitation; so two requests reach what would otherwise take a long sequence.  In
`Applications` two applications for one name is what approving declines, and the
other name is what a renaming, of an organization or of an application, needs.
A second subscription in
`Billing` would add deadlocks between two webhooks, which the code leaves to
PostgreSQL; a second nightly run that overlaps the first is the same task
delivered again, and starting it again after its commit is what `OneReminderADay`
is about.  In `TrustedPublishing` two users want the name for two configurations, so
that one must lose, also when both have passed the check that it is free; a third
registration for the configuration of the first gave 13.8 million states and nothing
new.  Two requests with two attempts let
a token meet itself and a retry meet its own claim; a token without identifier is
sent again once it was exchanged (`MaxUses`) only while a request with it is under
way.  In `EmailAddresses` a message has each notification once, and both workers
may have the same one; counting over several messages is left to the unit tests.
The proofs below do without bounds.

*Fairness.*  `Journals!FairSpec`: a transaction that can go on does, whenever
this comes up again and again (strong fairness per worker: PostgreSQL grants a
lock to its waiters and does not let one starve), the deadlock detector runs,
and the mirror polls.  Nothing forces a request to begin.  `Files!FairSpec`:
the scheduler starts `reconcile_file_storages` every quarter of an hour
(`packaging/__init__.py:203`), a run goes on, and runs fail only finitely
often (an outage of the storage ends); uploads, deletions and
`sync_file_to_cache` are not assumed to happen.  `Billing!FairSpec`: the tasks
are started every night and do not fail for ever, requests end; Stripe's
events are not assumed to arrive.  `EmailAddresses!FairSpec`: requests end, and SNS delivers a
notification again until one of its requests is committed.  Its default policy gives up after
some tries, which the model does not: then a complaint that comes long before the
delivery is lost.

*What `Locks` excepts.*  A request that deletes a file has added
its journal entry, and its queries for the contributors have flushed it, when
`db.delete` is executed at the commit
(`manage/views/__init__.py:1884-1923`): it has the project's row and the advisory
lock and waits for the file's row.  A request that deletes the file's release has
that row from its first flush, and waits for the project's in its second
(1772-1800).  PostgreSQL ends one of them; until then, every request with journal
entries waits.  `tests/unit/forklift/test_legacy.py:7251` says that journal entries
are isolated from other flushes, "preventing deadlocks", and at 7260 that the
advisory lock is only held during their own flush.  `OnlyLatePairsDeadlock` says
how far this goes: there is no deadlock without such a pair.

*What the violation shows.*  `Renaming`: `rename_organization` sets the name and
flushes before `add_catalog_entry` refuses it with a `ValueError`;
`organization_rename` (`admin/views/organizations.py:615`) turns that into the message
`Organization name "..." has been used` and a redirect, and a redirect is
committed.  The organization then has a name the catalog keeps for another one,
or for nobody.  `tests/unit/organizations/test_services.py:946` expects the
renaming to fail.

*What the runs leave out on purpose.*  Some requests break a promise
that the others keep, and are noted under `hazards`.  In the models, and excepted by
name in the property, are the deletion of a file
(`manage/views/__init__.py:1923`) and an upload that verifies a URL
(`forklift/legacy.py:1800`), which lock a row below a project after it.  Not in the
lock runs are: a batch of `reconcile_file_storages` (`packaging/tasks.py:224`), an upload
that respells the project's name takes locks in another order
(`forklift/legacy.py:887`), the first upload of a project has flushed journal
entries, and so the advisory lock, when it stores its file
(`packaging/services.py:727`), a removal deletes under it (`utils/project.py:382`), and a
request that loaded the old spelling of a name adds an entry that
`last_serial` never shows (`CurrentUnlessRenamed` leaves out just those).

## 4. The proofs

The proofs hold for every value of the constants; where TLC has two
workers, they have any number.  The assumptions are those named in the modules.  In
`Journals` and `Files`: `NoTx` is not a worker, rows are numbers and projects are
rows, bounds are naturals and a page or a batch is not empty, names and contents
exist, a name has a release.

*`JournalsProofs`.*  `SerialsInCommitOrder` is not inductive: one needs that
whoever has uncommitted journal rows, or is about to insert one, holds the
advisory lock (`AdvisoryHolderWrites`), and that uncommitted serials are
allocated and above every visible one (`SerialsAllocated`).  With
`RowSerialCurrent` (the same for the trigger's value) and `MirrorBehind` (the
mirror asks from a visible serial) this is `IInv`.  From it follow
`MirrorIsComplete`, `LastSerialIsNewest`, `CommitsInSerialOrder` and
`RefinesChangelog`.

*`FilesProofs`.*  The invariants need what a request has done by the time it
gets to a step: an upload about to insert has stored its objects
(`StoredFirst`), one that has inserted collides with no row and no other upload
that has (`InsertsDistinct`), tasks about to set `File.cached` have copied the
objects (`CopiedFirst`), and a reconcile run's rows exist as long as it holds
them (`RowsHeld`).  The theorems are `TypesCorrect`, `ArchiveIsComplete`,
`CachedIsServed`, `OneSdist`, `ConfirmedIsPublished`, `RunsAreSeparate` and
`RefinesPackageIndex`.

All of the journals' safety is thus proved: `DeferringConserves` counts the
entries of a worker's session and transaction, `Conserved`, with a finite set of
uncommitted rows.

*`RequestLocks`, in `JournalsProofs`.*  A request takes its locks upwards: the unique index
entries of what it adds, the releases, the files in them, the project, the
advisory lock (`Rank`).  Which it may have at a point depends on the
operations left in its script, on what its session holds for the next flush,
and on how far a flush has come; `LockInv` lists these situations for each
handler, with the rank up to which locks may be held in each, and those with a
late statement apart.  Two kinds of lock do not count, as nobody waits for them: those of events,
and the KEY SHARE of a foreign key on a project.  `BelowProject` says that whoever
has a file, or the UPDATE of a release, has the project, or is on its way to
it and holds nothing above.  So whoever waits only has locks below the one it
waits for, unless its statement is late; then it has the project of that
row, and whoever has the row and waits in turn waits for that project.
That is a pair (`OnlyPairsDeadlock`): a circle of waits without one would
rise for ever.  The holder of the advisory lock waits for nothing but the file
that it deletes last (`AdvisoryHolderRunsOn`), and the archive
is never called under it (`StoresWithoutAdvisory`).  `HandlersImplementJournals`
says that a step of a handler is a step of `Journals`, so its theorems hold of the
handlers.  `DistinctKindsAssumption` keeps the kinds of row apart: a file that
exists is no index entry of a new one, as a name holds its version, but a
project's deletions, its uploads and the task share their releases and files.

*`Progress`, in `JournalsProofs`.*  `CommitsEnd` and `MirrorCatchesUp` need
fairness and stay with TLC; what they rest on in the code is proved.  A
transaction that commits flushes until nothing is pending, and
`ensure_monotonic_journals` puts what it took out of a flush back into the session
after it, so that the end of the loop is not obvious.  `CommitLeft` lists the
flushes still to come, the stage of the present one and its statements or
row locks; `CommitsEndSooner` says that every step of the transaction makes this list
smaller, the first difference deciding, and `RequestsEndSooner` the same of a handler
from its first operation on, with the operations of its script in front.  Such lists
of naturals cannot get smaller for ever.  `OneAlwaysRuns` adds that among the
requests at work one waits for no lock of another, or two are a late pair, of which
PostgreSQL ends one, and `MirrorsGoOn` that a mirror that is
behind finds a page that is full or ends with the newest entry.  That the steps are
then possible is ENABLED, and that they are taken is fairness: neither is proved.

*`ProjectSpellingProofs`.*  The holder of the row lock either has renamed the
project itself, or the row still has its committed name and the request's name is
the one it loaded (`Names`); an entry that the trigger does not count is then
one of a request that loaded another name (`Serials`).  From this `IInv` follow
`Current` and `NeverFalls`.

*`MembershipsProofs`.*  None of the properties is inductive: between its checks
and its commit a request relies on rows that others may write.  `Justified` says
for each property what the writes of a request need of the rows it read: an
owner who goes is not the last one (`KeepsAnOwner`, `KeepsAnOrgOwner`), a project
joins an organization only when it leaves the others (`JoinsOne`), who leaves
takes along the membership of the team and the pending publishers
(`LeavesTogether`), and so on.  `PlansJustified` says that this is true *now*,
not only when the request began, of every request of which no row it read was
written since.  The proof has three parts.  Every view's plan is justified when
it is made (one lemma for each view, `HandlePlans`): this is where the checks of
the views are compared with what their writes do.  A commit leaves the plans of the others
justified unless it wrote a row they read, and then they are `stale`
(`StillJustified`).  And a commit of a justified plan keeps the properties, with
what the foreign keys delete along with it (`RemovedRows`, `CommitKeeps`), for
everything outside `raced`; a commit of a stale plan only disturbs what it wrote to,
which it puts into `raced` (`StaleCommit`).  `PlansWellFormed` (no request both
inserts and deletes a row, nobody inserts beside an account they delete) and
`RowsWhole` hold of stale requests as well.  `OnlyRacesTakeOwners` says of steps what
the others say of states, and does not except what was `raced`: the last
owner goes with a stale commit or not at all.  Assumed is that there are
finitely many organizations; `OneOrganization` counts them.  With the bounds of
§3, TLC has found the parts of `MembershipsInv` that are no property of the run
true in all 1,381,889 states, and `OwnersGoInRacesOnly` of all their steps; it is
violated when deleting an account overlooks the organizations it alone owns.

*`ApplicationsProofs`.*  Who has inserted an organization has checked something
that others could undo before its commit: `StillMay` says that the name
may still be taken and that nothing it declines is approved, unless it was renamed
since (`Approvable`), `Alone` that no two insert one name or one organization,
`FirstName` that the catalog keeps the name an organization was approved for.  An
edit waits for whoever has the application locked, so that an approval's name
stays what it checked.  The theorems are `TypeCorrect`, `OneOrganization`,
`NamesReserved` and `ApprovalsStand`; assumed are a bound, and that the marks for
nobody and nothing are no organizations, applications or names.

*`TrustedPublishingProofs`* has two invariants.  `Tokens`: a request before its
claim was verified at most `Margin` ago (`Fresh`), who has claimed an identifier is
alone with it, and it stays claimed until its token is refused (`Once`); from
it `OneToken` and `NotUsedUpInVain`.  `Creation`: one request at a time creates the
project (`Lonely`), while there is none, for registrations of the configuration its
token was issued to (`RequestOK`), and a configuration has one pending registration
(`Registered`); from it `TypeCorrect` and `ChosenPublishers`.  `Tokens` is about tokens
that carry an identifier, any of them, whether or not a publisher checks it.  Assumed
is a `Margin` above zero, without which the last request of the leeway would not be
remembered, and that issuers whose publishers check identifiers issue them.

*`EmailAddressesProofs`.*  `VerifiedByOwner` needs that what a request is about
to write has been verified by a mail for the same row (`UpdatesHaveTokens`), that
notifications verify nothing (`NotificationsVerifyNothing`), and that there is no
mail for a row before there is a row (`NobodyIsSent`).  `TypeCorrect` bounds a
row's counter of transient bounces by the messages of which a bounce is recorded
(`CountedBounces`, `BouncesPlanned`), of which there are finitely many: a
notification delivered twice counts once.

*`BillingProofs`.*  Whoever has the organization locked is alone (`Locks`), and
what it decided under the lock still holds at its commit (`Decisions` for
payments, `RunOK` for the nightly run); between commits no organization that a
payment would bring back is paid for.  `Notices` ties the deadline to the
reminders: they are the first of the notices, and the deadline is the last of
them less the days since.  From this follow `TypeCorrect`, `Paid`, `Warned`,
`RemindedOnce` and `RemovalsAreFinal`, for any number of subscriptions, webhooks
and overlapping nightly runs, and any falling sequence of notices.

*Only model-checked:* the liveness properties (`CommitsEnd`, `MirrorCatchesUp`,
`EventuallyCached`, `StatusesConverge`, `DeadlinesAreCleared`,
`ComplaintsAreRecorded`), since fairness and ENABLED are out
of the prover's reach; `Progress` has what is proved of the first two.  Every other property of the passing runs is a theorem.

That a deferred application returns to the queue in the end is neither proved nor
checked: with edits and two workers the state graph of `Applications` is too large
for TLC's liveness check.

## 5. Not modelled

The modules cover what the code does to shared state in its hardest parts, a
tenth of its lines.  Most of the rest has no state of its own that another
process changes: forms, metadata and archive validation, rendering, the
contents of e-mails, caveat parsing, the read-only APIs and feeds, command line,
classifiers and banners are functions of one request.  Cryptography and calls to external
services (TUF, help desk, captcha, attestations' signatures) are a library's.
The following parts do have state and no module:

1. The origin cache: purge keys collected at flush, purges sent after the commit;
   whether a page is stale is decided by a CDN outside `src`.
2. Passwords, second factors, recovery codes, logins and sessions: tokens bound to
   a timestamp of one user, and windows in Redis kept by a library.
3. API tokens: first use recorded beside the request's transaction.
4. Project sizes and their limit, which concurrent uploads may exceed together.
5. Quarantine, frozen users and automatic quarantine over several projects.
6. The search index under its Redis lock.
7. The issuers' key sets and their cooldown.
8. Inside modelled parts: customers, usage records and queued notices of billing;
   organizations' pending publishers in `TrustedPublishing`; administrators'
   pages about projects and users; which e-mail address is primary.
