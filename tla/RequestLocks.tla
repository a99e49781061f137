---------------------------- MODULE RequestLocks ----------------------------
(***************************************************************************)
(* The locks that the requests writing journal entries really take.        *)
(*                                                                         *)
(* Journals leaves open what a request adds to its session and when it     *)
(* flushes.  Here every worker runs one of the handlers of the upload API  *)
(* and of the project management pages, as the list of the operations that *)
(* touch the session, in the order of the source.  A row stands for what   *)
(* PostgreSQL locks: a project, the releases a project has (one row: they  *)
(* are locked together, in the order of their ids), their files, and the   *)
(* unique index entries of a new version and of a new file name.           *)
(*                                                                         *)
(* A request that fails is retried as a new request.  What a unique index  *)
(* decides after the wait is left open: the loser may go on or roll back.  *)
(* Two of the handlers lock a row after the project it is below, and with  *)
(* them requests can deadlock: see Late.  Left out are the first upload of *)
(* a project, an upload that respells its name, the removal of a project   *)
(* and a batch of reconcile_file_storages, which keep no order either, and *)
(* what is locked before any of these rows: an API token's own row and its *)
(* warning for the project.                                                *)
(***************************************************************************)
EXTENDS Journals

CONSTANTS
    Requests,     \* the scripts that workers run
    ReleasesRow,  \* project -> the row of its existing releases
    VersionRow,   \* project -> upload -> index entry of the version it adds
    FileRow,      \* project -> upload -> index entry of the name it adds
    FilesRow,     \* project -> the rows of the files in those releases
    EventsRow     \* stands for new rows that nobody waits for

(* The rows of each kind. *)
VersionRows ==
    UNION {{VersionRow[p][u] : u \in DOMAIN VersionRow[p]} : p \in Projects}
NewFileRows ==
    UNION {{FileRow[p][u] : u \in DOMAIN VersionRow[p]} : p \in Projects}
OldFileRows ==
    UNION {{FileRow[p][u] : u \in DOMAIN FileRow[p] \ DOMAIN VersionRow[p]} :
              p \in Projects}
ReleasesRows == {ReleasesRow[p] : p \in Projects}
FilesRows == {FilesRow[p] : p \in Projects}

ASSUME KindsAssumption ==
    /\ VersionRows \cup NewFileRows \cup OldFileRows \subseteq Rows
    /\ ReleasesRows \cup FilesRows \subseteq Rows
    /\ EventsRow \in Rows
    /\ \A p \in Projects : DOMAIN VersionRow[p] \subseteq DOMAIN FileRow[p]

Disjoint(A, B) == A \cap B = {}

(* No row is of two kinds, and each is of one project.  A file's name      *)
(* holds its version, so no name is uploaded both to a release that exists *)
(* and with a new one.                                                     *)
ASSUME DistinctKindsAssumption ==
    /\ Disjoint(VersionRows \cup OldFileRows,
                ReleasesRows \cup NewFileRows \cup FilesRows)
    /\ Disjoint(ReleasesRows, NewFileRows \cup FilesRows)
    /\ Disjoint(NewFileRows, FilesRows)
    /\ Disjoint(Projects \cup {EventsRow},
                VersionRows \cup OldFileRows \cup ReleasesRows
                \cup NewFileRows \cup FilesRows)
    /\ EventsRow \notin Projects
    /\ \A p, q \in Projects :
          FilesRow[p] = FilesRow[q] \/ ReleasesRow[p] = ReleasesRow[q]
             => p = q

VARIABLE script   \* the operations that a worker has still to run

-----------------------------------------------------------------------------
(* Operations on the session, the parts of a script. *)
Journal(p) == [do |-> "journal", row |-> p, mode |-> 0]
Write(r, m) == [do |-> "write", row |-> r, mode |-> m]
Delete(r, m) == [do |-> "delete", row |-> r, mode |-> m]
Query(p) == [do |-> "query", row |-> p, mode |-> 0]  \* autoflushes
Store(p) == [do |-> "store", row |-> p, mode |-> 0]  \* archive storage

(* An event is one more pending object.  Its foreign key is DEFERRED to    *)
(* the commit, when the request has a stronger lock on the row already.    *)
RecordEvent == Write(EventsRow, KeyShare)

(* A new Release with its event: its key is unique and it references its   *)
(* project.  It is flushed by the SELECT ... FOR UPDATE of _sort_releases, *)
(* whose own locks are taken here as one more flush, which is exact as     *)
(* long as no journal entry is pending.                                    *)
AddRelease(p, u) ==
    <<Write(VersionRow[p][u], Update), Write(p, KeyShare), Query(p),
      Write(ReleasesRow[p], Update), Query(p)>>

(* A File: its name is unique, it references a release, and the trigger    *)
(* project_total_size updates its project.  The INSERT comes with the next *)
(* flush, after the archive has the file.                                  *)
AddFile(p, u) ==
    <<Write(FileRow[p][u], Update), Write(ReleasesRow[p], KeyShare),
      Write(p, NoKeyUpdate), Store(p)>>

AddFileJournals_BeforeStore(p, u, entries) ==
    entries \o <<Query(p)>> \o AddFile(p, u) \o <<Query(p)>>

AddFileJournals(p, u, entries) ==
    AddFile(p, u) \o entries \o <<Query(p)>>

UploadFile(p, u) == AddFileJournals(p, u, <<Journal(p)>>)

(* The metadata names project URLs and the release is not new: loading its *)
(* URLs flushes the file, and a home page or download URL that is verified *)
(* now is one more UPDATE of the release, with the journal entry.          *)
UploadWithUrls(p, u, verified) ==
    AddFile(p, u) \o <<Query(p)>> \o verified \o <<Journal(p), Query(p)>>

NoneVerified == <<>>
OneVerified(p) == <<Write(ReleasesRow[p], NoKeyUpdate)>>

UploadRelease(p, u) ==
    AddRelease(p, u) \o AddFileJournals(p, u, <<Journal(p), Journal(p)>>)

(* delete_project_release: the release's files go with it in the database, *)
(* whose trigger then updates the project.                                 *)
DeleteRelease(p) ==
    <<Journal(p), RecordEvent, Delete(ReleasesRow[p], Update),
      Delete(FilesRow[p], Update), Delete(p, NoKeyUpdate), Query(p), Query(p)>>

(* delete_project_release_file: the queries for the contributors come      *)
(* before db.delete, so its DELETE waits for the commit.                   *)
DeleteFile(p) ==
    <<Journal(p), RecordEvent, Query(p), Query(p),
      Delete(FilesRow[p], Update), Delete(p, NoKeyUpdate)>>

(* yank_project_release: the release is updated. *)
YankRelease(p) ==
    <<Journal(p), RecordEvent, Write(ReleasesRow[p], NoKeyUpdate),
      Query(p), Query(p)>>

(* sync_file_to_cache: the UPDATE of the file fires the trigger that        *)
(* updates its project.  reconcile_file_storages takes the same locks in a *)
(* project, but for several projects in turn, which is left out.           *)
SyncFile(p) == <<Write(FilesRow[p], NoKeyUpdate), Write(p, NoKeyUpdate)>>

ASSUME RequestsAssumption ==
    \A s \in Requests : \E p \in Projects :
       \/ s \in {DeleteFile(p), DeleteRelease(p), YankRelease(p), SyncFile(p)}
       \/ \E u \in DOMAIN VersionRow[p] : s = UploadRelease(p, u)
       \/ \E u \in DOMAIN FileRow[p] \ DOMAIN VersionRow[p] :
             s \in {UploadFile(p, u), UploadWithUrls(p, u, NoneVerified),
                    UploadWithUrls(p, u, OneVerified(p))}

(* What the scripts do is within what Journals lets a request do. *)
ASSUME HandlersAssumption ==
    /\ Modes = 1..3
    /\ ReleasesRows \cup FilesRows \cup Projects \subseteq Deletable

-----------------------------------------------------------------------------
lockVars == <<vars, script>>

LockInit == Init /\ script = [t \in Tx |-> <<>>]

Start(t) ==
    /\ Begin(t)
    /\ \E s \in Requests : script' = [script EXCEPT ![t] = s]

NextOp(t, do) == script[t] # <<>> /\ Head(script[t]).do = do

Advance(t) == script' = [script EXCEPT ![t] = Tail(@)]

AddsJournal(t) ==
    /\ NextOp(t, "journal")
    /\ AddJournal(t, Head(script[t]).row)
    /\ Advance(t)

Writes(t) ==
    /\ NextOp(t, "write")
    /\ AddWrite(t, Head(script[t]).row, Head(script[t]).mode)
    /\ Advance(t)

Deletes(t) ==
    /\ NextOp(t, "delete")
    /\ AddDelete(t, Head(script[t]).row, Head(script[t]).mode)
    /\ Advance(t)

(* A query flushes once, whatever the flush leaves in the session. *)
Queries(t) ==
    /\ pc[t] = "open"
    /\ NextOp(t, "query")
    /\ Advance(t)
    /\ \/ BeforeFlush(t)
       \/ Clean(t) /\ UNCHANGED vars

Stores(t) ==
    /\ pc[t] = "open"
    /\ NextOp(t, "store")
    /\ Advance(t)
    /\ UNCHANGED vars

Finishes(t) ==
    /\ script[t] = <<>>
    /\ BeginCommit(t) \/ (committing[t] /\ (BeforeFlush(t) \/ Commit(t)))
    /\ UNCHANGED script

Executes(t) ==
    /\ \/ LockRow(t) \/ LockAdvisory(t)
       \/ ExecuteWrite(t) \/ InsertJournal(t) \/ ExecuteDelete(t)
       \/ AfterFlush(t)
    /\ UNCHANGED script

Fails(t) ==
    /\ Rollback(t)
    /\ script' = [script EXCEPT ![t] = <<>>]

LockNext ==
    \E t \in Tx :
       \/ Start(t) \/ AddsJournal(t) \/ Writes(t) \/ Deletes(t)
       \/ Queries(t) \/ Stores(t) \/ Executes(t)
       \/ Finishes(t) \/ Fails(t)

LockSpec == LockInit /\ [][LockNext]_lockVars

-----------------------------------------------------------------------------
(* The two statements that lock a row below a project whose lock the       *)
(* request has already: the DELETE of a file that was deleted on its own,  *)
(* at the commit, and the UPDATE of a release with a URL verified now.     *)
DeletesLate(t, p) ==
    /\ pc[t] = "execute" /\ advisory = t
    /\ deletes[t] # <<>> /\ Head(deletes[t]).row = FilesRow[p]

VerifiesLate(t, p) ==
    /\ pc[t] = "execute"
    /\ writes[t] # <<>> /\ Head(writes[t]).row = ReleasesRow[p]

Late(t, p) ==
    held[t][p] = NoKeyUpdate /\ (DeletesLate(t, p) \/ VerifiesLate(t, p))

(* A late statement waits for who waits for that project. *)
LatePair(t, u) ==
    /\ \E p \in Projects : Late(t, p)
    /\ u \in Blockers(t) /\ t \in Blockers(u)

(* What the order of the locks in ensure_monotonic_journals, file_upload   *)
(* and _sort_releases achieves: requests deadlock only in pairs, one of    *)
(* them with a late statement.  That deadlocks are prevented, as           *)
(* tests/unit/forklift/test_legacy.py:7251 has it, is true of the others.  *)
OnlyLatePairsDeadlock ==
    \A group \in SUBSET Tx :
       Deadlocked(group) => \E t, u \in group : LatePair(t, u)

(* Whoever holds the journals advisory lock waits for nothing but the file *)
(* that delete_project_release_file deletes last, so requests that queue   *)
(* for it wait for one that runs or that waits for that file.              *)
AdvisoryHolderWaitsForItsFile ==
    advisory # NoTx =>
       \/ Blockers(advisory) = {}
       \/ \E p \in Projects : DeletesLate(advisory, p)

(* An upload does not hold the advisory lock while it stores its file (the *)
(* note above the journal entries in forklift/legacy.py).                  *)
StoreWithoutAdvisory ==
    \A t \in Tx : NextOp(t, "store") => advisory # t
=============================================================================
