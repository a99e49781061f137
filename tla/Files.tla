------------------------------- MODULE Files -------------------------------
(***************************************************************************)
(* A distribution file from its upload to the cache that serves it.        *)
(*                                                                         *)
(* file_upload() looks at the database with one statement after another,   *)
(* each of which sees what was committed when it ran; it then stores the   *)
(* file in the archive bucket and only then inserts the rows and commits.  *)
(* Unique indexes decide between uploads that passed the same checks, and  *)
(* a request that loses is retried from its start.  The objects it left in *)
(* the archive stay there.                                                 *)
(*                                                                         *)
(* After the commit a Celery task copies the file to the cache bucket and  *)
(* sets File.cached.  The task may be lost, fail, or be delivered twice; a *)
(* periodic task looks for files that are not cached yet and reconciles    *)
(* the two buckets.  Meanwhile files, releases and projects are deleted.   *)
(*                                                                         *)
(* A file's name determines its release and whether it is an sdist or a    *)
(* wheel (file_upload checks that it does); a wheel comes with a metadata  *)
(* object of its own.  An object's path is made of the hash of the file    *)
(* and its name, so that a path has one content.                           *)
(***************************************************************************)
EXTENDS Naturals, FiniteSets

CONSTANTS
    Uploads,      \* web workers, each handling one upload after another
    Jobs,         \* Celery workers running sync_file_to_cache
    Reconcilers,  \* Celery workers running reconcile_file_storages
    Names,        \* file names
    Contents,     \* file contents, told apart by their hashes
    Releases,     \* releases, of one project
    ReleaseOf,    \* name -> the release it belongs to
    Sdists,       \* the names of sdists; the others are wheels
    Attempts,     \* retry.attempts
    BatchSize     \* reconcile_file_storages.batch_size

ASSUME NamesAssumption == Names # {} /\ Contents # {}
ASSUME ReleaseOfAssumption == ReleaseOf \in [Names -> Releases]
ASSUME SdistsAssumption == Sdists \subseteq Names
ASSUME AttemptsAssumption == Attempts \in Nat \ {0}
ASSUME BatchAssumption == BatchSize \in Nat \ {0}

VARIABLES
    pc,        \* where each upload is
    upload,    \* the file it uploads
    tries,     \* how often its request was retried
    created,   \* its transaction inserted the release
    orphaned,  \* the release it found was deleted since
    releases,  \* committed releases
    files,     \* committed rows of release_files
    registry,  \* committed rows of file_registry
    cached,    \* names of the files whose row has cached = true
    archive,   \* objects of the archive bucket
    cache,     \* objects of the cache bucket
    queue,     \* names whose sync_file_to_cache task the broker holds
    job,       \* where each sync_file_to_cache is
    syncing,   \* the file it loaded
    batch,     \* files that a reconcile run selected and locked
    seen,      \* those it has dealt with
    good,      \* those it set cached on, in its transaction
    published, \* history: every file that was ever committed
    confirmed  \* history: every file whose uploader was told 200 OK

uploadVars == <<pc, upload, tries, created, orphaned>>
tableVars == <<releases, files, registry, published, confirmed>>
taskVars == <<job, syncing, batch, seen, good>>
vars == <<uploadVars, tableVars, cached, archive, cache, queue, taskVars>>

File == [name : Names, content : Contents]
Object == [file : File, metadata : BOOLEAN]

NoFile == CHOOSE f \in File : TRUE   \* what a worker that is idle has left

IsWheel(f) == f.name \notin Sdists

Dist(f) == [file |-> f, metadata |-> FALSE]
Metadata(f) == [file |-> f, metadata |-> TRUE]

Objects(f) == {Dist(f)} \cup (IF IsWheel(f) THEN {Metadata(f)} ELSE {})

NamesOf(fs) == {f.name : f \in fs}

TypeOK ==
    /\ pc \in [Uploads -> {"idle", "release", "newRelease", "duplicate",
                           "filename", "sdist", "store", "storeMetadata",
                           "insert", "commit"}]
    /\ upload \in [Uploads -> File]
    /\ tries \in [Uploads -> 0..(Attempts - 1)]
    /\ created \in [Uploads -> BOOLEAN]
    /\ orphaned \in [Uploads -> BOOLEAN]
    /\ releases \subseteq Releases
    /\ files \subseteq File
    /\ registry \subseteq Names
    /\ cached \subseteq NamesOf(files)
    /\ archive \subseteq Object
    /\ cache \subseteq Object
    /\ queue \subseteq Names
    /\ job \in [Jobs -> {"idle", "copy", "copyMetadata", "update"}]
    /\ syncing \in [Jobs -> File]
    /\ batch \in [Reconcilers -> SUBSET File]
    /\ seen \in [Reconcilers -> SUBSET File]
    /\ good \in [Reconcilers -> SUBSET File]
    /\ published \subseteq File
    /\ confirmed \subseteq File

Init ==
    /\ pc = [u \in Uploads |-> "idle"]
    /\ upload = [u \in Uploads |-> NoFile]
    /\ tries = [u \in Uploads |-> 0]
    /\ created = [u \in Uploads |-> FALSE]
    /\ orphaned = [u \in Uploads |-> FALSE]
    /\ releases \in SUBSET Releases   \* an earlier file's may have outlived it
    /\ files = {}
    /\ registry = {}
    /\ cached = {}
    /\ archive = {}
    /\ cache = {}
    /\ queue = {}
    /\ job = [j \in Jobs |-> "idle"]
    /\ syncing = [j \in Jobs |-> NoFile]
    /\ batch = [r \in Reconcilers |-> {}]
    /\ seen = [r \in Reconcilers |-> {}]
    /\ good = [r \in Reconcilers |-> {}]
    /\ published = {}
    /\ confirmed = {}

-----------------------------------------------------------------------------
(* Uploads. *)

Go(u, from, to) ==
    /\ pc[u] = from
    /\ pc' = [pc EXCEPT ![u] = to]

(* The transaction is over, and so is the request. *)
Finished(u) ==
    /\ pc' = [pc EXCEPT ![u] = "idle"]
    /\ upload' = [upload EXCEPT ![u] = NoFile]
    /\ tries' = [tries EXCEPT ![u] = 0]
    /\ created' = [created EXCEPT ![u] = FALSE]
    /\ orphaned' = [orphaned EXCEPT ![u] = FALSE]

(* IntegrityError is retryable: the request starts again. *)
RetriesLeft(u) == tries[u] < Attempts - 1

Retry(u) ==
    \/ /\ RetriesLeft(u)
       /\ pc' = [pc EXCEPT ![u] = "release"]
       /\ tries' = [tries EXCEPT ![u] = @ + 1]
       /\ created' = [created EXCEPT ![u] = FALSE]
       /\ orphaned' = [orphaned EXCEPT ![u] = FALSE]
       /\ UNCHANGED upload
    \/ /\ ~RetriesLeft(u)
       /\ Finished(u)

Post(u, f) ==
    /\ Go(u, "idle", "release")
    /\ upload' = [upload EXCEPT ![u] = f]
    /\ UNCHANGED <<tries, created, orphaned, tableVars, cached, archive, cache,
                   queue, taskVars>>

Release(u) == ReleaseOf[upload[u].name]

FindRelease(u) ==
    /\ Go(u, "release",
          IF Release(u) \in releases THEN "duplicate" ELSE "newRelease")
    /\ UNCHANGED <<upload, tries, created, orphaned, tableVars, cached, archive,
                   cache, queue, taskVars>>

(* INSERT INTO releases, flushed by _sort_releases' query.  A transaction  *)
(* that inserted the same version and is still open makes it wait.         *)
InsertRelease(u) ==
    /\ pc[u] = "newRelease"
    /\ \A v \in Uploads \ {u} : created[v] => Release(v) # Release(u)
    /\ IF Release(u) \in releases
         THEN Retry(u)
         ELSE /\ Go(u, "newRelease", "duplicate")
              /\ created' = [created EXCEPT ![u] = TRUE]
              /\ UNCHANGED <<upload, tries, orphaned>>
    /\ UNCHANGED <<tableVars, cached, archive, cache, queue, taskVars>>

(* _is_duplicate_file takes the first row with the name or the content.    *)
Matches(f) == {g \in files : g.name = f.name \/ g.content = f.content}

IsDuplicate_ByName(f, g) == g.name = f.name

IsDuplicate(f, g) == g = f

CheckDuplicate(u) ==
    /\ \/ /\ Matches(upload[u]) = {}
          /\ Go(u, "duplicate", "filename")
          /\ UNCHANGED <<upload, tries, created, orphaned, confirmed>>
       \/ /\ pc[u] = "duplicate"
          /\ \E g \in Matches(upload[u]) :
                confirmed' = IF IsDuplicate(upload[u], g)
                               THEN confirmed \cup {upload[u]}
                               ELSE confirmed
          /\ Finished(u)
    /\ UNCHANGED <<releases, files, registry, published, cached, archive,
                   cache, queue, taskVars>>

(* "This filename was previously used" *)
CheckFilename(u) ==
    /\ \/ /\ upload[u].name \notin registry
          /\ Go(u, "filename", "sdist")
          /\ UNCHANGED <<upload, tries, created, orphaned>>
       \/ /\ upload[u].name \in registry
          /\ pc[u] = "filename"
          /\ Finished(u)
    /\ UNCHANGED <<tableVars, cached, archive, cache, queue, taskVars>>

SameSdist(f, g) ==
    f.name \in Sdists /\ g.name \in Sdists /\ ReleaseOf[f.name] = ReleaseOf[g.name]

(* "Only one sdist may be uploaded per release." *)
CheckSdist(u) ==
    /\ \/ /\ \A g \in files : ~SameSdist(upload[u], g)
          /\ Go(u, "sdist", "store")
          /\ UNCHANGED <<upload, tries, created, orphaned>>
       \/ /\ \E g \in files : SameSdist(upload[u], g)
          /\ pc[u] = "sdist"
          /\ Finished(u)
    /\ UNCHANGED <<tableVars, cached, archive, cache, queue, taskVars>>

AfterStore_NoMetadata(f) == "insert"

AfterStore(f) == IF IsWheel(f) THEN "storeMetadata" ELSE "insert"

Store(u) ==
    /\ Go(u, "store", AfterStore(upload[u]))
    /\ archive' = archive \cup {Dist(upload[u])}
    /\ UNCHANGED <<upload, tries, created, orphaned, tableVars, cached, cache,
                   queue, taskVars>>

StoreMetadata(u) ==
    /\ Go(u, "storeMetadata", "insert")
    /\ archive' = archive \cup {Metadata(upload[u])}
    /\ UNCHANGED <<upload, tries, created, orphaned, tableVars, cached, cache,
                   queue, taskVars>>

(* The unique indexes of release_files and release_files_single_sdist. *)
Collides_NameOnly(f, g) == f.name = g.name

Collides(f, g) ==
    f.name = g.name \/ f.content = g.content \/ SameSdist(f, g)

(* The unique index of file_registry, whose row add_filename_to_registry   *)
(* inserts after the file's.                                               *)
Registered_Ignored(n) == FALSE

Registered(n) == n \in registry

(* INSERT INTO release_files and file_registry.  It waits for a            *)
(* transaction that inserted a colliding row, and fails if the row was     *)
(* committed or if the release is gone.                                    *)
InsertFile(u) ==
    /\ pc[u] = "insert"
    /\ \A v \in Uploads \ {u} :
          pc[v] = "commit" => ~Collides(upload[u], upload[v])
    /\ IF \/ \E g \in files : Collides(upload[u], g)
          \/ Registered(upload[u].name)
          \/ orphaned[u]
         THEN Retry(u)
         ELSE /\ Go(u, "insert", "commit")
              /\ UNCHANGED <<upload, tries, created, orphaned>>
    /\ UNCHANGED <<tableVars, cached, archive, cache, queue, taskVars>>

(* The commit, and the hook after it that sends the task: the process may  *)
(* end between the two.                                                    *)
Commit(u) ==
    /\ pc[u] = "commit"
    /\ releases' = releases \cup {Release(u)}
    /\ files' = files \cup {upload[u]}
    /\ registry' = registry \cup {upload[u].name}
    /\ published' = published \cup {upload[u]}
    /\ confirmed' = confirmed \cup {upload[u]}
    /\ queue' \in {queue, queue \cup {upload[u].name}}
    /\ Finished(u)
    /\ UNCHANGED <<cached, archive, cache, taskVars>>

(* The client, the worker, the database or the storage fails. *)
Abort(u) ==
    /\ pc[u] # "idle"
    /\ Finished(u)
    /\ UNCHANGED <<tableVars, cached, archive, cache, queue, taskVars>>

-----------------------------------------------------------------------------
(* Deletions.  A DELETE waits for whoever has the row locked.              *)

Locked(f) == \E r \in Reconcilers : f \in batch[r]

RemoveFiles(fs) ==
    /\ \A f \in fs : ~Locked(f)
    /\ files' = files \ fs
    /\ cached' = cached \ NamesOf(fs)

(* delete_project_release_file *)
DeleteFile(f) ==
    /\ f \in files
    /\ RemoveFiles({f})
    /\ UNCHANGED <<uploadVars, releases, registry, published, confirmed,
                   archive, cache, queue, taskVars>>

FilesIn(rs) == {f \in files : ReleaseOf[f.name] \in rs}

(* delete_project_release removes one release, remove_project all of them; *)
(* their files go with them.  An INSERT of a file holds its release.       *)
FoundRelease(u) ==
    pc[u] \notin {"idle", "release", "newRelease"} /\ ~created[u]

DeleteReleases(rs) ==
    /\ rs # {} /\ rs \subseteq releases
    /\ \A u \in Uploads : pc[u] = "commit" /\ ~created[u] => Release(u) \notin rs
    /\ RemoveFiles(FilesIn(rs))
    /\ releases' = releases \ rs
    /\ orphaned' = [u \in Uploads |->
          orphaned[u] \/ (FoundRelease(u) /\ Release(u) \in rs)]
    /\ UNCHANGED <<pc, upload, tries, created, registry, published, confirmed,
                   archive, cache, queue, taskVars>>

-----------------------------------------------------------------------------
(* sync_file_to_cache: acks_late, so the broker holds the task until it is *)
(* over, and may deliver it once more meanwhile.                           *)

Acknowledge(n) == queue' = queue \ {n}

SyncStart(j, n) ==
    /\ job[j] = "idle"
    /\ n \in queue
    /\ \/ \E f \in files :
             /\ f.name = n /\ n \notin cached
             /\ job' = [job EXCEPT ![j] = "copy"]
             /\ syncing' = [syncing EXCEPT ![j] = f]
             /\ UNCHANGED queue
       \/ /\ n \notin NamesOf(files) \ cached
          /\ Acknowledge(n)
          /\ UNCHANGED <<job, syncing>>
    /\ UNCHANGED <<uploadVars, tableVars, cached, archive, cache, batch, seen, good>>

SyncEnd(j) ==
    /\ job' = [job EXCEPT ![j] = "idle"]
    /\ syncing' = [syncing EXCEPT ![j] = NoFile]

AfterCopy(f) == IF IsWheel(f) THEN "copyMetadata" ELSE "update"

SyncCopy(j) ==
    /\ job[j] = "copy"
    /\ Dist(syncing[j]) \in archive
    /\ cache' = cache \cup {Dist(syncing[j])}
    /\ job' = [job EXCEPT ![j] = AfterCopy(syncing[j])]
    /\ UNCHANGED <<uploadVars, tableVars, cached, archive, queue, syncing,
                   batch, seen, good>>

SyncCopyMetadata(j) ==
    /\ job[j] = "copyMetadata"
    /\ Metadata(syncing[j]) \in archive
    /\ cache' = cache \cup {Metadata(syncing[j])}
    /\ job' = [job EXCEPT ![j] = "update"]
    /\ UNCHANGED <<uploadVars, tableVars, cached, archive, queue, syncing,
                   batch, seen, good>>

(* UPDATE release_files SET cached = true; it waits for a reconcile run    *)
(* that has the row, and fails if the row is gone.                         *)
SyncUpdate(j) ==
    /\ job[j] = "update"
    /\ ~Locked(syncing[j])
    /\ cached' = IF syncing[j] \in files THEN cached \cup {syncing[j].name}
                                         ELSE cached
    /\ Acknowledge(syncing[j].name)
    /\ SyncEnd(j)
    /\ UNCHANGED <<uploadVars, tableVars, archive, cache, batch, seen, good>>

(* An exception ends the task; a lost worker leaves it with the broker. *)
SyncFail(j) ==
    /\ job[j] # "idle"
    /\ \/ Acknowledge(syncing[j].name)
       \/ UNCHANGED queue
    /\ SyncEnd(j)
    /\ UNCHANGED <<uploadVars, tableVars, cached, archive, cache, batch, seen, good>>

-----------------------------------------------------------------------------
(* reconcile_file_storages: one transaction for the whole batch, whose     *)
(* rows it holds FOR UPDATE, skipping those that another run holds.        *)

Uncached == {f \in files : f.name \notin cached}

Selectable == {f \in Uncached : ~Locked(f)}

ReconcileStart(r) ==
    /\ batch[r] = {}
    /\ batch' \in {[batch EXCEPT ![r] = fs] : fs \in (SUBSET Selectable) \ {{}}}
    /\ \/ Cardinality(batch'[r]) = BatchSize
       \/ Cardinality(batch'[r]) < BatchSize /\ batch'[r] = Selectable
    /\ UNCHANGED <<uploadVars, tableVars, cached, archive, cache, queue, job,
                   syncing, seen, good>>

(* The archive is the golden copy: what it has is copied if the cache      *)
(* lacks it, and a file with an object the archive lacks is not cached.    *)
Reconciled_MetadataAlways(f) == {Dist(f), Metadata(f)} \subseteq archive

Reconciled(f) == Objects(f) \subseteq archive

CopiedToCache_DistOnly(f) == {Dist(f)} \cap archive

CopiedToCache(f) == Objects(f) \cap archive

ReconcileFile(r, f) ==
    /\ f \in batch[r] \ seen[r]
    /\ cache' = cache \cup CopiedToCache(f)
    /\ seen' = [seen EXCEPT ![r] = @ \cup {f}]
    /\ good' = IF Reconciled(f) THEN [good EXCEPT ![r] = @ \cup {f}] ELSE good
    /\ UNCHANGED <<uploadVars, tableVars, cached, archive, queue, job, syncing,
                   batch>>

ReconcileEnd(r) ==
    /\ batch[r] # {}
    /\ batch' = [batch EXCEPT ![r] = {}]
    /\ seen' = [seen EXCEPT ![r] = {}]
    /\ good' = [good EXCEPT ![r] = {}]
    /\ UNCHANGED <<uploadVars, tableVars, archive, cache, queue, job, syncing>>

ReconcileCommit(r) ==
    /\ seen[r] = batch[r]
    /\ cached' = cached \cup NamesOf(good[r])
    /\ ReconcileEnd(r)

ReconcileFail(r) ==
    /\ ReconcileEnd(r)
    /\ UNCHANGED cached

-----------------------------------------------------------------------------
UploadStep(u) ==
    \/ \E f \in File : Post(u, f)
    \/ FindRelease(u) \/ InsertRelease(u)
    \/ CheckDuplicate(u) \/ CheckFilename(u) \/ CheckSdist(u)
    \/ Store(u) \/ StoreMetadata(u)
    \/ InsertFile(u) \/ Commit(u) \/ Abort(u)

Deletion ==
    \/ \E f \in files : DeleteFile(f)
    \/ \E rs \in {releases} \cup {{r} : r \in releases} : DeleteReleases(rs)

SyncStep(j) ==
    \/ \E n \in queue : SyncStart(j, n)
    \/ SyncCopy(j) \/ SyncCopyMetadata(j) \/ SyncUpdate(j) \/ SyncFail(j)

ReconcileStep(r) ==
    \/ ReconcileStart(r)
    \/ \E f \in batch[r] : ReconcileFile(r, f)
    \/ ReconcileCommit(r) \/ ReconcileFail(r)

Next ==
    \/ \E u \in Uploads : UploadStep(u)
    \/ Deletion
    \/ \E j \in Jobs : SyncStep(j)
    \/ \E r \in Reconcilers : ReconcileStep(r)

Spec == Init /\ [][Next]_vars

(* The scheduler starts a reconcile run every quarter of an hour, a run    *)
(* goes on, and from some time on a run ends by its commit (a failure and  *)
(* a commit that found nothing to set are the same step).  Nothing is      *)
(* assumed of sync_file_to_cache, which may never run at all.              *)
Fairness ==
    /\ \A r \in Reconcilers :
          WF_vars(ReconcileStart(r) \/ ReconcileCommit(r)
                     \/ \E f \in batch[r] : ReconcileFile(r, f))
    /\ <>[][\A r \in Reconcilers : ReconcileFail(r) => ReconcileCommit(r)]_vars

FairSpec == Spec /\ Fairness

-----------------------------------------------------------------------------
(* What the index lists can be restored: the archive holds every object of *)
(* every committed file, since it is written before the rows are.          *)
ArchiveHoldsFiles == \A f \in files : Objects(f) \subseteq archive

(* File.cached is never set too early: the cache bucket, from which files  *)
(* are served, holds all of such a file's objects.                         *)
CachedFilesAreServed ==
    \A f \in files : f.name \in cached => Objects(f) \subseteq cache

(* One sdist in a release, whoever uploads at the same time and whatever   *)
(* was deleted in between ("Only one sdist may be uploaded per release").  *)
SingleSdist ==
    \A f, g \in files : SameSdist(f, g) => f = g

(* 200 OK is only said of a file that the index lists or has listed, with  *)
(* the content that was uploaded.                                          *)
ConfirmedWasPublished == confirmed \subseteq published

(* "SKIP LOCKED so two concurrent runs grab separate rows instead of both  *)
(* picking the same files and conflicting."                                *)
RunsGrabSeparateRows ==
    \A r, s \in Reconcilers : r # s => batch[r] \cap batch[s] = {}

(* The inductive invariant behind these.  An upload that is about to       *)
(* insert its rows has stored its objects, one that has inserted them      *)
(* collides with nobody, and a task that is about to set File.cached has   *)
(* copied the objects.                                                     *)
StoredFirst ==
    /\ \A f \in published : Objects(f) \subseteq archive
    /\ \A u \in Uploads :
          /\ pc[u] = "storeMetadata" => Dist(upload[u]) \in archive
          /\ pc[u] \in {"insert", "commit"} => Objects(upload[u]) \subseteq archive

RowsDistinct ==
    /\ files \subseteq published
    /\ NamesOf(files) \subseteq registry
    /\ \A f, g \in files : Collides(f, g) => f = g

InsertsDistinct ==
    \A u \in Uploads : pc[u] = "commit" =>
       /\ upload[u].name \notin registry
       /\ \A g \in files : ~Collides(upload[u], g)
       /\ \A v \in Uploads \ {u} :
             pc[v] = "commit" => ~Collides(upload[u], upload[v])

CopiedFirst ==
    /\ \A j \in Jobs :
          /\ job[j] = "copyMetadata" => Dist(syncing[j]) \in cache
          /\ job[j] = "update" => Objects(syncing[j]) \subseteq cache
    /\ \A r \in Reconcilers : \A f \in good[r] : Objects(f) \subseteq cache

RowsHeld ==
    \A r \in Reconcilers :
       good[r] \subseteq seen[r] /\ seen[r] \subseteq batch[r] /\ batch[r] \subseteq files

IInv ==
    /\ TypeOK
    /\ StoredFirst
    /\ RowsDistinct
    /\ InsertsDistinct
    /\ CopiedFirst
    /\ RowsHeld
    /\ RunsGrabSeparateRows
    /\ CachedFilesAreServed
    /\ ConfirmedWasPublished

(* Every file gets into the cache unless it is deleted, even if its task   *)
(* was lost with the process that should have sent it.                     *)
EventuallyCached ==
    \A n \in Names :
       (n \in NamesOf(files)) ~> (n \in cached \/ n \notin NamesOf(files))

(* A name is published once, and no content twice at a time: PackageIndex. *)
Index == INSTANCE PackageIndex WITH available <- files, used <- registry

ImplementsPackageIndex == Index!Spec
=============================================================================
