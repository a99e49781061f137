----------------------------- MODULE FilesProofs -----------------------------
(***************************************************************************)
(* Files keeps its invariants, and implements PackageIndex, for every      *)
(* number of workers, every set of names, contents and releases, every     *)
(* number of attempts and every batch size.                                *)
(***************************************************************************)
EXTENDS Files, TLAPS

(* There are names and contents, so what an idle worker has left is a file. *)
LEMMA NoFileType == NoFile \in File
  <1>1. PICK n \in Names, c \in Contents : TRUE
      BY NamesAssumption
  <1>2. [name |-> n, content |-> c] \in File
      BY DEF File
  <1> QED
      BY <1>2, Zenon DEF NoFile

(* The unique indexes do not care which of two rows came first.            *)
LEMMA CollidesSymmetric ==
  ASSUME NEW f, NEW g, Collides(f, g)
  PROVE  Collides(g, f)
  BY DEF Collides, SameSdist

(* The objects of a file: the distribution and, for a wheel, its metadata. *)
LEMMA ObjectsType ==
  ASSUME NEW f \in File
  PROVE  /\ Objects(f) \subseteq Object
         /\ Dist(f) \in Object /\ Metadata(f) \in Object
         /\ Objects(f) \subseteq {Dist(f), Metadata(f)}
  <1>1. Dist(f) \in Object
      BY Zenon DEF Object, Dist
  <1>2. Metadata(f) \in Object
      BY Zenon DEF Object, Metadata
  <1>3. Objects(f) \subseteq {Dist(f), Metadata(f)}
      BY DEF Objects
  <1> QED
      BY <1>1, <1>2, <1>3

(* Nothing has happened yet. *)
LEMMA InitInv == Init => IInv
  <1> SUFFICES ASSUME Init PROVE IInv
      OBVIOUS
  <1>1. TypeOK
      BY NoFileType, AttemptsAssumption DEF Init, TypeOK, NamesOf
  <1> QED
      BY <1>1
      DEF Init, IInv, StoredFirst, RowsDistinct, InsertsDistinct, CopiedFirst,
          RowsHeld, RunsGrabSeparateRows, CachedFilesAreServed,
          ConfirmedWasPublished, NamesOf

-----------------------------------------------------------------------------
(* A step of an upload that touches neither tables nor buckets and does    *)
(* not lead to its INSERT.                                                 *)
Harmless == {"idle", "release", "newRelease", "duplicate", "filename",
             "sdist", "store"}

QuietUpload(u) ==
    /\ \E to \in Harmless : pc' = [pc EXCEPT ![u] = to]
    /\ \E f \in File : upload' = [upload EXCEPT ![u] = f]
    /\ tries' \in [Uploads -> 0..(Attempts - 1)]
    /\ created' \in [Uploads -> BOOLEAN]
    /\ orphaned' \in [Uploads -> BOOLEAN]
    /\ confirmed' \subseteq published
    /\ UNCHANGED <<releases, files, registry, published, cached, archive,
                   cache, queue, taskVars>>

(* An upload's step that leaves the tables alone and leads to a point      *)
(* before the archive write keeps the invariant.                           *)
LEMMA QuietUploadInv ==
  ASSUME IInv, NEW u \in Uploads, QuietUpload(u)
  PROVE  IInv'
  <1> USE DEF IInv
  <1>1. PICK to \in Harmless : pc' = [pc EXCEPT ![u] = to]
      BY DEF QuietUpload
  <1>2. PICK f \in File : upload' = [upload EXCEPT ![u] = f]
      BY DEF QuietUpload
  <1>3. /\ pc'[u] \in Harmless
        /\ \A v \in Uploads \ {u} : pc'[v] = pc[v] /\ upload'[v] = upload[v]
      BY <1>1, <1>2 DEF TypeOK
  <1>4. TypeOK'
      BY <1>1, <1>2 DEF TypeOK, QuietUpload, Harmless, taskVars, NamesOf
  <1>5. StoredFirst'
      BY <1>3 DEF StoredFirst, QuietUpload, Harmless
  <1>6. RowsDistinct'
      BY DEF RowsDistinct, QuietUpload
  <1>7. InsertsDistinct'
    <2> SUFFICES ASSUME NEW x \in Uploads, pc'[x] = "commit"
                 PROVE  /\ upload'[x].name \notin registry'
                        /\ \A g \in files' : ~Collides(upload'[x], g)
                        /\ \A v \in Uploads \ {x} :
                              pc'[v] = "commit" =>
                                 ~Collides(upload'[x], upload'[v])
        BY DEF InsertsDistinct
    <2>1. x # u /\ pc[x] = "commit" /\ upload'[x] = upload[x]
        BY <1>3 DEF Harmless
    <2>2. \A v \in Uploads : pc'[v] = "commit" =>
             pc[v] = "commit" /\ upload'[v] = upload[v]
        BY <1>3 DEF Harmless
    <2> QED
        BY <2>1, <2>2 DEF InsertsDistinct, QuietUpload
  <1>8. CopiedFirst' /\ RowsHeld' /\ RunsGrabSeparateRows'
        /\ CachedFilesAreServed'
      BY DEF CopiedFirst, RowsHeld, RunsGrabSeparateRows,
             CachedFilesAreServed, QuietUpload, taskVars
  <1>9. ConfirmedWasPublished'
      BY DEF ConfirmedWasPublished, QuietUpload
  <1> QED
      BY <1>4, <1>5, <1>6, <1>7, <1>8, <1>9

(* The end of a request is such a step.                                    *)
LEMMA FinishedIsQuiet ==
  ASSUME TypeOK, NEW u \in Uploads, Finished(u)
  PROVE  /\ \E to \in Harmless : pc' = [pc EXCEPT ![u] = to]
         /\ \E f \in File : upload' = [upload EXCEPT ![u] = f]
         /\ tries' \in [Uploads -> 0..(Attempts - 1)]
         /\ created' \in [Uploads -> BOOLEAN]
         /\ orphaned' \in [Uploads -> BOOLEAN]
  <1>1. 0 \in 0..(Attempts - 1)
      BY AttemptsAssumption
  <1>2. "idle" \in Harmless
      BY DEF Harmless
  <1> QED
      BY <1>1, <1>2, NoFileType DEF Finished, TypeOK

(* So is a retry of the request.                                           *)
LEMMA RetryIsQuiet ==
  ASSUME TypeOK, NEW u \in Uploads, Retry(u)
  PROVE  /\ \E to \in Harmless : pc' = [pc EXCEPT ![u] = to]
         /\ \E f \in File : upload' = [upload EXCEPT ![u] = f]
         /\ tries' \in [Uploads -> 0..(Attempts - 1)]
         /\ created' \in [Uploads -> BOOLEAN]
         /\ orphaned' \in [Uploads -> BOOLEAN]
  <1>1. CASE Finished(u)
      BY <1>1, FinishedIsQuiet
  <1>2. CASE /\ RetriesLeft(u)
             /\ pc' = [pc EXCEPT ![u] = "release"]
             /\ tries' = [tries EXCEPT ![u] = @ + 1]
             /\ created' = [created EXCEPT ![u] = FALSE]
             /\ orphaned' = [orphaned EXCEPT ![u] = FALSE]
             /\ UNCHANGED upload
    <2>1. tries[u] + 1 \in 0..(Attempts - 1)
        BY <1>2, AttemptsAssumption DEF TypeOK, RetriesLeft
    <2>2. upload' = [upload EXCEPT ![u] = upload[u]] /\ upload[u] \in File
        BY <1>2 DEF TypeOK
    <2>3. "release" \in Harmless
        BY DEF Harmless
    <2> QED
        BY <1>2, <2>1, <2>2, <2>3 DEF TypeOK
  <1> QED
      BY <1>1, <1>2 DEF Retry

(* Every step before the archive is written is quiet, and so is an abort.  *)
LEMMA ChecksAreQuiet ==
  ASSUME IInv, NEW u \in Uploads,
         \/ \E f \in File : Post(u, f)
         \/ FindRelease(u) \/ InsertRelease(u)
         \/ CheckDuplicate(u) \/ CheckFilename(u) \/ CheckSdist(u)
         \/ Abort(u)
  PROVE  QuietUpload(u)
  <1> USE DEF IInv
  <1>1. confirmed \subseteq published
      BY DEF ConfirmedWasPublished
  <1>2. upload[u] \in File /\ upload = [upload EXCEPT ![u] = upload[u]]
      BY DEF TypeOK
  <1>3. ASSUME NEW f \in File, Post(u, f) PROVE QuietUpload(u)
      BY <1>1, <1>3
      DEF Post, Go, QuietUpload, Harmless, tableVars, TypeOK
  <1>4. CASE FindRelease(u)
      BY <1>1, <1>2, <1>4
      DEF FindRelease, Go, QuietUpload, Harmless, tableVars, TypeOK
  <1>5. CASE InsertRelease(u)
    <2>1. CASE Release(u) \in releases
        BY <1>1, <1>5, <2>1, RetryIsQuiet
        DEF InsertRelease, QuietUpload, tableVars
    <2>2. CASE Release(u) \notin releases
        BY <1>1, <1>2, <1>5, <2>2
        DEF InsertRelease, Go, QuietUpload, Harmless, tableVars, TypeOK
    <2> QED
        BY <2>1, <2>2
  <1>6. CASE CheckDuplicate(u)
    <2>1. CASE Go(u, "duplicate", "filename")
               /\ UNCHANGED <<upload, tries, created, orphaned, confirmed>>
        BY <1>1, <1>2, <1>6, <2>1
        DEF CheckDuplicate, Go, QuietUpload, Harmless, TypeOK
    <2>2. ASSUME Finished(u), NEW g \in Matches(upload[u]),
                 confirmed' = IF IsDuplicate(upload[u], g)
                                THEN confirmed \cup {upload[u]}
                                ELSE confirmed
          PROVE  QuietUpload(u)
      <3>1. g \in published
          BY DEF Matches, RowsDistinct
      <3>2. confirmed' \subseteq published
          BY <1>1, <2>2, <3>1 DEF IsDuplicate
      <3> QED
          BY <1>6, <2>2, <3>2, FinishedIsQuiet
          DEF CheckDuplicate, QuietUpload
    <2> QED
        BY <1>6, <2>1, <2>2 DEF CheckDuplicate
  <1>7. CASE CheckFilename(u)
    <2>1. CASE Finished(u)
        BY <1>1, <1>7, <2>1, FinishedIsQuiet
        DEF CheckFilename, QuietUpload, tableVars
    <2>2. CASE Go(u, "filename", "sdist")
               /\ UNCHANGED <<upload, tries, created, orphaned>>
        BY <1>1, <1>2, <1>7, <2>2
        DEF CheckFilename, Go, QuietUpload, Harmless, tableVars, TypeOK
    <2> QED
        BY <1>7, <2>1, <2>2 DEF CheckFilename
  <1>8. CASE CheckSdist(u)
    <2>1. CASE Finished(u)
        BY <1>1, <1>8, <2>1, FinishedIsQuiet
        DEF CheckSdist, QuietUpload, tableVars
    <2>2. CASE Go(u, "sdist", "store")
               /\ UNCHANGED <<upload, tries, created, orphaned>>
        BY <1>1, <1>2, <1>8, <2>2
        DEF CheckSdist, Go, QuietUpload, Harmless, tableVars, TypeOK
    <2> QED
        BY <1>8, <2>1, <2>2 DEF CheckSdist
  <1>9. CASE Abort(u)
      BY <1>1, <1>9, FinishedIsQuiet DEF Abort, QuietUpload, tableVars
  <1> QED
      BY <1>3, <1>4, <1>5, <1>6, <1>7, <1>8, <1>9

(* Writing to the archive: the objects of an upload are there before it    *)
(* may insert its rows.                                                    *)
LEMMA StoreInv ==
  ASSUME IInv, NEW u \in Uploads, Store(u) \/ StoreMetadata(u)
  PROVE  IInv'
  <1> USE DEF IInv
  <1>1. upload[u] \in File
      BY DEF TypeOK
  <1>2. /\ archive' \subseteq Object /\ archive \subseteq archive'
        /\ \E to \in {"storeMetadata", "insert"} : pc' = [pc EXCEPT ![u] = to]
        /\ UNCHANGED <<upload, tries, created, orphaned, tableVars, cached,
                       cache, queue, taskVars>>
      BY <1>1, ObjectsType DEF Store, StoreMetadata, Go, AfterStore, TypeOK
  <1>3. TypeOK'
      BY <1>2 DEF TypeOK, tableVars, taskVars, NamesOf
  <1>4. StoredFirst'
    <2>1. \A f \in published' : Objects(f) \subseteq archive'
        BY <1>2 DEF StoredFirst, tableVars
    <2>2. ASSUME NEW v \in Uploads, v # u
          PROVE  /\ pc'[v] = "storeMetadata" => Dist(upload'[v]) \in archive'
                 /\ pc'[v] \in {"insert", "commit"}
                       => Objects(upload'[v]) \subseteq archive'
        BY <1>2, <2>2 DEF StoredFirst, TypeOK
    <2>3. pc'[u] = "storeMetadata" => Dist(upload'[u]) \in archive'
        BY <1>2 DEF Store, StoreMetadata, Go, TypeOK
    <2>4. pc'[u] \in {"insert", "commit"} => Objects(upload'[u]) \subseteq archive'
      <3>1. CASE Store(u)
          BY <1>2, <3>1 DEF Store, Go, AfterStore, Objects, TypeOK
      <3>2. CASE StoreMetadata(u)
        <4>1. Dist(upload[u]) \in archive /\ Metadata(upload[u]) \in archive'
            BY <3>2 DEF StoreMetadata, Go, StoredFirst
        <4> QED
            BY <1>1, <1>2, <4>1, ObjectsType
      <3> QED
          BY <3>1, <3>2
    <2> QED
        BY <2>1, <2>2, <2>3, <2>4 DEF StoredFirst
  <1>5. InsertsDistinct'
      BY <1>2 DEF InsertsDistinct, TypeOK, tableVars
  <1>6. RowsDistinct' /\ CopiedFirst' /\ RowsHeld' /\ RunsGrabSeparateRows'
        /\ CachedFilesAreServed' /\ ConfirmedWasPublished'
      BY <1>2
      DEF RowsDistinct, CopiedFirst, RowsHeld, RunsGrabSeparateRows,
          CachedFilesAreServed, ConfirmedWasPublished, tableVars, taskVars
  <1> QED
      BY <1>3, <1>4, <1>5, <1>6

(* The INSERT goes through only where it collides with nobody's. *)
LEMMA InsertFileInv ==
  ASSUME IInv, NEW u \in Uploads, InsertFile(u)
  PROVE  IInv'
  <1> USE DEF IInv
  <1>1. CASE Retry(u)
    <2>1. confirmed \subseteq published
        BY DEF ConfirmedWasPublished
    <2>2. UNCHANGED <<tableVars, cached, archive, cache, queue, taskVars>>
        BY DEF InsertFile
    <2> QED
        BY <1>1, <2>1, <2>2, RetryIsQuiet, QuietUploadInv
        DEF QuietUpload, tableVars
  <1>2. CASE ~Retry(u)
    <2>1. /\ pc[u] = "insert" /\ pc' = [pc EXCEPT ![u] = "commit"]
          /\ \A v \in Uploads \ {u} :
                pc[v] = "commit" => ~Collides(upload[u], upload[v])
          /\ \A g \in files : ~Collides(upload[u], g)
          /\ upload[u].name \notin registry
          /\ UNCHANGED <<upload, tries, created, orphaned, tableVars, cached,
                         archive, cache, queue, taskVars>>
        BY <1>2 DEF InsertFile, Go, Registered
    <2>2. TypeOK'
        BY <2>1 DEF TypeOK, tableVars, taskVars, NamesOf
    <2>3. StoredFirst'
        BY <2>1 DEF StoredFirst, tableVars, TypeOK
    <2>4. InsertsDistinct'
      <3> SUFFICES ASSUME NEW x \in Uploads, pc'[x] = "commit"
                   PROVE  /\ upload[x].name \notin registry
                          /\ \A g \in files : ~Collides(upload[x], g)
                          /\ \A v \in Uploads \ {x} :
                                pc'[v] = "commit" =>
                                   ~Collides(upload[x], upload[v])
          BY <2>1 DEF InsertsDistinct, tableVars
      <3>1. \A v \in Uploads \ {u} : pc'[v] = pc[v]
          BY <2>1 DEF TypeOK
      <3>2. CASE x = u
          BY <2>1, <3>1, <3>2
      <3>3. CASE x # u
        <4>1. ~Collides(upload[x], upload[u])
            BY <2>1, <3>1, <3>3, CollidesSymmetric
        <4> QED
            BY <3>1, <3>3, <4>1 DEF InsertsDistinct
      <3> QED
          BY <3>2, <3>3
    <2>5. RowsDistinct' /\ CopiedFirst' /\ RowsHeld' /\ RunsGrabSeparateRows'
          /\ CachedFilesAreServed' /\ ConfirmedWasPublished'
        BY <2>1
        DEF RowsDistinct, CopiedFirst, RowsHeld, RunsGrabSeparateRows,
            CachedFilesAreServed, ConfirmedWasPublished, tableVars, taskVars
    <2> QED
        BY <2>2, <2>3, <2>4, <2>5
  <1> QED
      BY <1>1, <1>2

(* A commit adds a row that collides with none and whose objects the       *)
(* archive has.                                                            *)
LEMMA CommitInv ==
  ASSUME IInv, NEW u \in Uploads, Commit(u)
  PROVE  IInv'
  <1> USE DEF IInv
  <1> DEFINE f == upload[u]
  <1>1. /\ pc[u] = "commit" /\ f \in File /\ f.name \in Names
        /\ files' = files \cup {f} /\ registry' = registry \cup {f.name}
        /\ published' = published \cup {f} /\ confirmed' = confirmed \cup {f}
        /\ releases' = releases \cup {ReleaseOf[f.name]}
        /\ queue' \subseteq queue \cup {f.name}
        /\ UNCHANGED <<cached, archive, cache, taskVars>>
      BY DEF Commit, TypeOK, File, Release
  <1>2. /\ f.name \notin registry /\ \A g \in files : ~Collides(f, g)
        /\ \A v \in Uploads \ {u} : pc[v] = "commit" => ~Collides(f, upload[v])
      BY <1>1 DEF InsertsDistinct
  <1>3. /\ \E to \in Harmless : pc' = [pc EXCEPT ![u] = to]
        /\ \E g \in File : upload' = [upload EXCEPT ![u] = g]
        /\ tries' \in [Uploads -> 0..(Attempts - 1)]
        /\ created' \in [Uploads -> BOOLEAN]
        /\ orphaned' \in [Uploads -> BOOLEAN]
      BY FinishedIsQuiet DEF Commit
  <1>4. /\ pc'[u] \in Harmless
        /\ \A v \in Uploads \ {u} : pc'[v] = pc[v] /\ upload'[v] = upload[v]
      BY <1>3 DEF TypeOK
  <1> HIDE DEF f
  <1>5. TypeOK'
    <2>1. ReleaseOf[f.name] \in Releases
        BY <1>1, ReleaseOfAssumption
    <2>2. cached' \subseteq NamesOf(files')
        BY <1>1 DEF TypeOK, NamesOf
    <2>3. /\ releases' \subseteq Releases /\ files' \subseteq File /\ registry' \subseteq Names
          /\ published' \subseteq File /\ queue' \subseteq Names /\ UNCHANGED <<archive, cache>>
        BY <1>1, <2>1 DEF TypeOK
    <2>4. /\ pc' \in [Uploads -> {"idle", "release", "newRelease", "duplicate", "filename",
                                   "sdist", "store", "storeMetadata", "insert", "commit"}]
          /\ upload' \in [Uploads -> File]
        BY <1>3 DEF TypeOK, Harmless
    <2> QED
        BY <1>1, <1>3, <2>2, <2>3, <2>4 DEF TypeOK, taskVars
  <1>6. StoredFirst'
    <2>1. Objects(f) \subseteq archive
        BY <1>1 DEF StoredFirst, f
    <2> QED
        BY <1>1, <1>4, <2>1 DEF StoredFirst, Harmless
  <1>7. RowsDistinct'
    <2>1. files' \subseteq published' /\ NamesOf(files') \subseteq registry'
        BY <1>1 DEF RowsDistinct, NamesOf
    <2>2. \A g \in files : ~Collides(g, f)
        BY <1>2, CollidesSymmetric
    <2> QED
        BY <1>1, <1>2, <2>1, <2>2 DEF RowsDistinct
  <1>8. InsertsDistinct'
    <2> SUFFICES ASSUME NEW x \in Uploads, pc'[x] = "commit"
                 PROVE  /\ upload'[x].name \notin registry'
                        /\ \A g \in files' : ~Collides(upload'[x], g)
                        /\ \A v \in Uploads \ {x} :
                              pc'[v] = "commit" =>
                                 ~Collides(upload'[x], upload'[v])
        BY DEF InsertsDistinct
    <2>1. x # u /\ pc[x] = "commit" /\ upload'[x] = upload[x]
        BY <1>4 DEF Harmless
    <2>2. \A v \in Uploads : pc'[v] = "commit" =>
             pc[v] = "commit" /\ upload'[v] = upload[v]
        BY <1>4 DEF Harmless
    <2>3. ~Collides(f, upload[x]) /\ ~Collides(upload[x], f)
        BY <1>2, <2>1, CollidesSymmetric
    <2>4. upload[x].name # f.name
        BY <2>3 DEF Collides
    <2> QED
        BY <1>1, <2>1, <2>2, <2>3, <2>4 DEF InsertsDistinct
  <1>9. CachedFilesAreServed'
    <2>1. f.name \notin cached
        BY <1>2 DEF TypeOK, RowsDistinct
    <2> QED
        BY <1>1, <2>1 DEF CachedFilesAreServed
  <1>10. CopiedFirst' /\ RowsHeld' /\ RunsGrabSeparateRows'
         /\ ConfirmedWasPublished'
      BY <1>1
      DEF CopiedFirst, RowsHeld, RunsGrabSeparateRows, ConfirmedWasPublished,
          taskVars
  <1> QED
      BY <1>5, <1>6, <1>7, <1>8, <1>9, <1>10

-----------------------------------------------------------------------------
(* Deleting rows that nobody holds disturbs nothing. *)
LEMMA DeletionInv ==
  ASSUME IInv, Deletion
  PROVE  IInv'
  <1> USE DEF IInv
  <1>1. PICK fs \in SUBSET files : RemoveFiles(fs)
    <2>1. ASSUME NEW f \in files, DeleteFile(f)
          PROVE  \E fs \in SUBSET files : RemoveFiles(fs)
        BY <2>1 DEF DeleteFile
    <2>2. ASSUME NEW rs, DeleteReleases(rs)
          PROVE  \E fs \in SUBSET files : RemoveFiles(fs)
        BY <2>2 DEF DeleteReleases, FilesIn
    <2> QED
        BY <2>1, <2>2 DEF Deletion
  <1>2. /\ releases' \subseteq releases
        /\ orphaned' \in [Uploads -> BOOLEAN]
        /\ UNCHANGED <<pc, upload, tries, created, registry, published,
                       confirmed, archive, cache, queue, taskVars>>
    <2>1. ASSUME NEW f \in files, DeleteFile(f) PROVE <1>2
        BY <2>1 DEF DeleteFile, uploadVars, TypeOK
    <2>2. ASSUME NEW rs, DeleteReleases(rs) PROVE <1>2
        BY <2>2 DEF DeleteReleases
    <2> QED
        BY <2>1, <2>2 DEF Deletion
  <1>3. /\ files' = files \ fs /\ cached' = cached \ NamesOf(fs)
        /\ \A r \in Reconcilers : batch[r] \cap fs = {}
      BY <1>1 DEF RemoveFiles, Locked
  <1>4. TypeOK'
    <2>1. cached' \subseteq NamesOf(files')
        BY <1>3 DEF TypeOK, NamesOf
    <2> QED
        BY <1>2, <1>3, <2>1 DEF TypeOK, taskVars
  <1>5. StoredFirst' /\ CopiedFirst' /\ RunsGrabSeparateRows'
        /\ ConfirmedWasPublished'
      BY <1>2
      DEF StoredFirst, CopiedFirst, RunsGrabSeparateRows,
          ConfirmedWasPublished, taskVars
  <1>6. RowsDistinct' /\ CachedFilesAreServed' /\ InsertsDistinct'
      BY <1>2, <1>3
      DEF RowsDistinct, CachedFilesAreServed, InsertsDistinct, NamesOf
  <1>7. RowsHeld'
      BY <1>2, <1>3 DEF RowsHeld, taskVars
  <1> QED
      BY <1>4, <1>5, <1>6, <1>7

-----------------------------------------------------------------------------
(* Setting File.cached for a row whose objects the cache has. *)
LEMMA CachedGrows ==
  ASSUME RowsDistinct, CachedFilesAreServed, NEW fs \in SUBSET files,
         \A f \in fs : Objects(f) \subseteq cache
  PROVE  \A f \in files : f.name \in cached \cup NamesOf(fs)
                             => Objects(f) \subseteq cache
  <1> SUFFICES ASSUME NEW f \in files, NEW g \in fs, f.name = g.name
               PROVE  Objects(f) \subseteq cache
      BY DEF CachedFilesAreServed, NamesOf
  <1>1. f = g
      BY DEF RowsDistinct, Collides
  <1> QED
      BY <1>1

(* sync_file_to_cache sets File.cached after it has copied the objects.    *)
LEMMA SyncInv ==
  ASSUME IInv, NEW j \in Jobs, SyncStep(j)
  PROVE  IInv'
  <1> USE DEF IInv
  <1>1. /\ UNCHANGED <<uploadVars, tableVars, archive, batch, seen, good>>
        /\ cache \subseteq cache' /\ queue' \subseteq queue
      BY DEF SyncStep, SyncStart, SyncCopy, SyncCopyMetadata, SyncUpdate,
             SyncFail, Acknowledge
  <1>2. StoredFirst' /\ RowsDistinct' /\ InsertsDistinct' /\ RowsHeld'
        /\ RunsGrabSeparateRows' /\ ConfirmedWasPublished'
      BY <1>1
      DEF StoredFirst, RowsDistinct, InsertsDistinct, RowsHeld,
          RunsGrabSeparateRows, ConfirmedWasPublished, uploadVars, tableVars
  <1>3. /\ job' \in [Jobs -> {"idle", "copy", "copyMetadata", "update"}]
        /\ syncing' \in [Jobs -> File]
        /\ cache' \subseteq Object
        /\ \A i \in Jobs \ {j} : job'[i] = job[i] /\ syncing'[i] = syncing[i]
        /\ job'[j] = "copyMetadata" => Dist(syncing'[j]) \in cache'
        /\ job'[j] = "update" => Objects(syncing'[j]) \subseteq cache'
    <2>0. syncing[j] \in File
        BY DEF TypeOK
    <2>1. ASSUME NEW n \in queue, SyncStart(j, n) PROVE <1>3
        BY <2>1 DEF SyncStart, TypeOK, CopiedFirst
    <2>2. CASE SyncCopy(j)
        BY <2>0, <2>2, ObjectsType
        DEF SyncCopy, AfterCopy, TypeOK, Objects
    <2>3. CASE SyncCopyMetadata(j)
        BY <2>0, <2>3, ObjectsType
        DEF SyncCopyMetadata, TypeOK, CopiedFirst
    <2>4. CASE SyncUpdate(j) \/ SyncFail(j)
        BY <2>4, NoFileType DEF SyncUpdate, SyncFail, SyncEnd, TypeOK
    <2> QED
        BY <2>1, <2>2, <2>3, <2>4 DEF SyncStep
  <1>4. CopiedFirst'
      BY <1>1, <1>3 DEF CopiedFirst
  <1>5. cached' \subseteq NamesOf(files') /\ CachedFilesAreServed'
    <2>1. CASE SyncUpdate(j)
      <3>1. CASE syncing[j] \in files
        <4>1. Objects(syncing[j]) \subseteq cache
            BY <2>1 DEF SyncUpdate, CopiedFirst
        <4>2. \A f \in files : f.name \in cached \cup NamesOf({syncing[j]})
                                  => Objects(f) \subseteq cache
            BY <3>1, <4>1, CachedGrows
        <4>3. cached' = cached \cup NamesOf({syncing[j]})
            BY <2>1, <3>1 DEF SyncUpdate, NamesOf
        <4> QED
            BY <1>1, <3>1, <4>2, <4>3
            DEF CachedFilesAreServed, NamesOf, TypeOK, tableVars
      <3>2. CASE syncing[j] \notin files
          BY <1>1, <2>1, <3>2
          DEF SyncUpdate, CachedFilesAreServed, TypeOK, tableVars
      <3> QED
          BY <3>1, <3>2
    <2>2. CASE UNCHANGED cached
        BY <1>1, <2>2 DEF CachedFilesAreServed, TypeOK, tableVars
    <2> QED
        BY <2>1, <2>2
        DEF SyncStep, SyncStart, SyncCopy, SyncCopyMetadata, SyncFail
  <1>6. TypeOK'
      BY <1>1, <1>3, <1>5 DEF TypeOK, uploadVars, tableVars
  <1> QED
      BY <1>2, <1>4, <1>5, <1>6

-----------------------------------------------------------------------------
(* reconcile_file_storages holds the rows of its batch, and caches those   *)
(* whose objects it has copied.                                            *)
LEMMA ReconcileInv ==
  ASSUME IInv, NEW r \in Reconcilers, ReconcileStep(r)
  PROVE  IInv'
  <1> USE DEF IInv
  <1>1. /\ UNCHANGED <<uploadVars, tableVars, archive, queue, job, syncing>>
        /\ cache \subseteq cache'
      BY DEF ReconcileStep, ReconcileStart, ReconcileFile, ReconcileCommit,
             ReconcileFail, ReconcileEnd
  <1>2. StoredFirst' /\ RowsDistinct' /\ InsertsDistinct'
        /\ ConfirmedWasPublished'
      BY <1>1
      DEF StoredFirst, RowsDistinct, InsertsDistinct, ConfirmedWasPublished,
          uploadVars, tableVars
  <1>3. ASSUME ReconcileStart(r)
        PROVE  /\ TypeOK' /\ CopiedFirst' /\ RowsHeld'
               /\ RunsGrabSeparateRows' /\ CachedFilesAreServed'
    <2>1. PICK fs \in (SUBSET Selectable) \ {{}} :
             batch' = [batch EXCEPT ![r] = fs]
        BY <1>3 DEF ReconcileStart
    <2>2. /\ UNCHANGED <<cached, cache, seen, good>> /\ batch[r] = {}
          /\ fs \subseteq files /\ \A s \in Reconcilers : batch[s] \cap fs = {}
        BY <1>3, <2>1 DEF ReconcileStart, Selectable, Uncached, Locked
    <2>3. TypeOK'
        BY <1>1, <2>1, <2>2 DEF TypeOK, uploadVars, tableVars
    <2>4. CopiedFirst' /\ CachedFilesAreServed'
        BY <1>1, <2>2 DEF CopiedFirst, CachedFilesAreServed, tableVars
    <2>5. RowsHeld' /\ RunsGrabSeparateRows'
        BY <1>1, <2>1, <2>2
        DEF RowsHeld, RunsGrabSeparateRows, TypeOK, tableVars
    <2> QED
        BY <2>3, <2>4, <2>5
  <1>4. ASSUME NEW f \in batch[r], ReconcileFile(r, f)
        PROVE  /\ TypeOK' /\ CopiedFirst' /\ RowsHeld'
               /\ RunsGrabSeparateRows' /\ CachedFilesAreServed'
    <2>1. f \in File /\ f \in files
        BY DEF RowsHeld, TypeOK
    <2>2. /\ UNCHANGED <<cached, batch>>
          /\ cache' = cache \cup (Objects(f) \cap archive)
          /\ seen' = [seen EXCEPT ![r] = seen[r] \cup {f}]
          /\ \/ UNCHANGED good
             \/ /\ good' = [good EXCEPT ![r] = good[r] \cup {f}]
                /\ Objects(f) \subseteq cache'
        BY <1>4 DEF ReconcileFile, CopiedToCache, Reconciled
    <2>3. TypeOK'
        BY <1>1, <2>1, <2>2 DEF TypeOK, uploadVars, tableVars
    <2>4. CachedFilesAreServed'
        BY <1>1, <2>2 DEF CachedFilesAreServed, tableVars
    <2>5. CopiedFirst'
        BY <1>1, <2>2 DEF CopiedFirst, TypeOK
    <2>6. RowsHeld' /\ RunsGrabSeparateRows'
        BY <1>1, <2>1, <2>2
        DEF RowsHeld, RunsGrabSeparateRows, TypeOK, tableVars
    <2> QED
        BY <2>3, <2>4, <2>5, <2>6
  <1>5. ASSUME ReconcileEnd(r), cached' \in {cached, cached \cup NamesOf(good[r])}
        PROVE  /\ TypeOK' /\ CopiedFirst' /\ RowsHeld'
               /\ RunsGrabSeparateRows' /\ CachedFilesAreServed'
    <2>1. /\ UNCHANGED cache
          /\ batch' = [batch EXCEPT ![r] = {}]
          /\ seen' = [seen EXCEPT ![r] = {}]
          /\ good' = [good EXCEPT ![r] = {}]
        BY <1>5 DEF ReconcileEnd
    <2>2. good[r] \subseteq files /\ \A f \in good[r] : Objects(f) \subseteq cache
        BY DEF RowsHeld, CopiedFirst
    <2>3. cached' \subseteq NamesOf(files)
        BY <1>5, <2>2 DEF TypeOK, NamesOf
    <2>4. TypeOK'
        BY <1>1, <2>1, <2>3 DEF TypeOK, uploadVars, tableVars
    <2>5. CachedFilesAreServed'
      <3>1. \A f \in files : f.name \in cached \cup NamesOf(good[r])
                                => Objects(f) \subseteq cache
          BY <2>2, CachedGrows
      <3> QED
          BY <1>1, <1>5, <2>1, <3>1 DEF CachedFilesAreServed, tableVars
    <2>6. CopiedFirst' /\ RowsHeld' /\ RunsGrabSeparateRows'
        BY <1>1, <2>1
        DEF CopiedFirst, RowsHeld, RunsGrabSeparateRows, TypeOK, tableVars
    <2> QED
        BY <2>4, <2>5, <2>6
  <1> QED
      BY <1>2, <1>3, <1>4, <1>5
      DEF ReconcileStep, ReconcileCommit, ReconcileFail

(* The invariant survives every step. *)
LEMMA NextInv ==
  ASSUME IInv, [Next]_vars
  PROVE  IInv'
  <1>1. ASSUME NEW u \in Uploads, UploadStep(u) PROVE IInv'
      BY <1>1, ChecksAreQuiet, QuietUploadInv, StoreInv, InsertFileInv,
         CommitInv
      DEF UploadStep
  <1>2. CASE UNCHANGED vars
      BY <1>2
      DEF vars, uploadVars, tableVars, taskVars, IInv, TypeOK, StoredFirst,
          RowsDistinct, InsertsDistinct, CopiedFirst, RowsHeld,
          RunsGrabSeparateRows, CachedFilesAreServed, ConfirmedWasPublished,
          NamesOf
  <1> QED
      BY <1>1, <1>2, DeletionInv, SyncInv, ReconcileInv DEF Next

(* Whatever the order in which requests, tasks, crashes and deletions      *)
(* follow each other, the inductive invariant holds.                       *)
THEOREM Invariance == Spec => []IInv
  BY InitInv, NextInv, PTL DEF Spec

(* The state of uploads, rows, buckets and tasks is always well formed; in *)
(* particular only rows that exist count as cached.                        *)
THEOREM TypesCorrect == Spec => []TypeOK
  <1>1. IInv => TypeOK
      BY DEF IInv
  <1> QED
      BY <1>1, Invariance, PTL

(* file_upload writes the archive before the rows, and nothing deletes     *)
(* from the archive: it holds every object of every listed file.           *)
THEOREM ArchiveIsComplete == Spec => []ArchiveHoldsFiles
  <1>1. IInv => ArchiveHoldsFiles
      BY DEF IInv, StoredFirst, RowsDistinct, ArchiveHoldsFiles
  <1> QED
      BY <1>1, Invariance, PTL

(* sync_file_to_cache and reconcile_file_storages set File.cached only for *)
(* files whose objects the cache bucket holds.                             *)
THEOREM CachedIsServed == Spec => []CachedFilesAreServed
  <1>1. IInv => CachedFilesAreServed
      BY DEF IInv
  <1> QED
      BY <1>1, Invariance, PTL

(* The index release_files_single_sdist keeps a second sdist out, however  *)
(* the checks of two uploads interleave.                                   *)
THEOREM OneSdist == Spec => []SingleSdist
  <1>1. IInv => SingleSdist
      BY DEF IInv, RowsDistinct, Collides, SingleSdist
  <1> QED
      BY <1>1, Invariance, PTL

(* file_upload answers 200 OK only for files that were committed. *)
THEOREM ConfirmedIsPublished == Spec => []ConfirmedWasPublished
  <1>1. IInv => ConfirmedWasPublished
      BY DEF IInv
  <1> QED
      BY <1>1, Invariance, PTL

(* Concurrent reconcile_file_storages runs never hold the same row. *)
THEOREM RunsAreSeparate == Spec => []RunsGrabSeparateRows
  <1>1. IInv => RunsGrabSeparateRows
      BY DEF IInv
  <1> QED
      BY <1>1, Invariance, PTL

(* Every step publishes a file under a fresh name, withdraws files, or     *)
(* changes nothing that the index shows.                                   *)
LEMMA StepIndexes ==
  ASSUME IInv, [Next]_vars
  PROVE  [Index!Next]_(Index!vars)
  <1> USE DEF IInv
  <1>1. ASSUME UNCHANGED <<files, registry>>
        PROVE  [Index!Next]_(Index!vars)
      BY <1>1 DEF Index!vars
  <1>2. ASSUME NEW u \in Uploads, UploadStep(u)
        PROVE  [Index!Next]_(Index!vars)
    <2>1. CASE Commit(u)
      <3>1. upload[u] \in Index!File
          BY DEF TypeOK, File, Index!File
      <3>2. Index!Publish(upload[u])
        <4>1. /\ upload[u].name \notin registry
              /\ \A g \in files : g.content # upload[u].content
            BY <2>1 DEF Commit, InsertsDistinct, Collides
        <4> QED
            BY <2>1, <4>1 DEF Commit, Index!Publish
      <3> QED
          BY <3>1, <3>2 DEF Index!Next
    <2>2. CASE ~Commit(u)
      <3>1. UNCHANGED <<files, registry>>
          BY <1>2, <2>2
          DEF UploadStep, Post, FindRelease, InsertRelease, CheckDuplicate,
              CheckFilename, CheckSdist, Store, StoreMetadata, InsertFile,
              Abort, tableVars
      <3> QED
          BY <1>1, <3>1
    <2> QED
        BY <2>1, <2>2
  <1>3. CASE Deletion
    <2>1. PICK fs \in SUBSET files : files' = files \ fs /\ UNCHANGED registry
      <3>1. ASSUME NEW f \in files, DeleteFile(f)
            PROVE  \E fs \in SUBSET files :
                      files' = files \ fs /\ UNCHANGED registry
          BY <3>1 DEF DeleteFile, RemoveFiles
      <3>2. ASSUME NEW rs, DeleteReleases(rs)
            PROVE  \E fs \in SUBSET files :
                      files' = files \ fs /\ UNCHANGED registry
          BY <3>2 DEF DeleteReleases, RemoveFiles, FilesIn
      <3> QED
          BY <1>3, <3>1, <3>2 DEF Deletion
    <2>2. Index!Withdraw(fs)
        BY <2>1 DEF Index!Withdraw
    <2> QED
        BY <2>2 DEF Index!Next
  <1>4. ASSUME NEW j \in Jobs, SyncStep(j)
        PROVE  [Index!Next]_(Index!vars)
    <2>1. UNCHANGED <<files, registry>>
        BY <1>4
        DEF SyncStep, SyncStart, SyncCopy, SyncCopyMetadata, SyncUpdate,
            SyncFail, tableVars
    <2> QED
        BY <1>1, <2>1
  <1>5. ASSUME NEW r \in Reconcilers, ReconcileStep(r)
        PROVE  [Index!Next]_(Index!vars)
    <2>1. UNCHANGED <<files, registry>>
        BY <1>5
        DEF ReconcileStep, ReconcileStart, ReconcileFile, ReconcileCommit,
            ReconcileFail, ReconcileEnd, tableVars
    <2> QED
        BY <1>1, <2>1
  <1>6. CASE UNCHANGED vars
      BY <1>1, <1>6 DEF vars, tableVars
  <1> QED
      BY <1>2, <1>3, <1>4, <1>5, <1>6 DEF Next

(* Uploads, retries and deletions together keep the index's promise: a     *)
(* file name stands for one content for ever, and is never used again.     *)
THEOREM RefinesPackageIndex == Spec => ImplementsPackageIndex
  <1>1. Init => Index!Init
      BY DEF Init, Index!Init
  <1> QED
      BY <1>1, StepIndexes, Invariance, PTL
      DEF Spec, ImplementsPackageIndex, Index!Spec
=============================================================================
