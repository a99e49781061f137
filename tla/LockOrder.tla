------------------------------ MODULE LockOrder ------------------------------
(***************************************************************************)
(* Why the requests of RequestLocks do not wait for one another in a       *)
(* circle: the order in which every request takes its locks, as an         *)
(* inductive invariant.                                                    *)
(*                                                                         *)
(* Rows have ranks, and a request takes them upwards: the unique index     *)
(* entry of what it adds first, the releases, what is below them, the      *)
(* project, and the advisory lock.  Two kinds of lock do not count: a new  *)
(* event, which nobody waits for, and the KEY SHARE on a project that a    *)
(* foreign key takes, which no other lock taken on a project refuses.  The *)
(* late statements (see Late) lock a release or a file after the project.  *)
(*                                                                         *)
(* The invariant lists where a request can be: the operations left in its  *)
(* script, what its session holds for the next flush, and the rank up to   *)
(* which it may have locks.                                                *)
(***************************************************************************)
EXTENDS RequestLocks

Cons(op, s) == <<op>> \o s

Lock(r, m) == [row |-> r, mode |-> m]

(* The strongest lock that any request takes on a row. *)
Strongest(r) ==
    IF r = EventsRow THEN KeyShare
    ELSE IF r \in Projects THEN NoKeyUpdate
    ELSE Update

(* The operations in a script. *)
Ops ==
    {o \in [do : {"journal", "write", "delete", "query", "store"},
            row : Rows, mode : 0..3] :
       /\ o.do \notin {"write", "delete"} => o.row \in Projects
       /\ o.do \in {"write", "delete"} => o.mode \in 1..Strongest(o.row)
       /\ o.do = "delete" => o.row \in Deletable /\ o.mode # KeyShare}

Mild == {l \in RowLock : l.mode <= Strongest(l.row)}

MildLocks ==
    /\ writes \in [Tx -> Seq(Mild)]
    /\ deletes \in [Tx -> Seq(Mild)]
    /\ \A t \in Tx, r \in Rows : held[t][r] <= Strongest(r)

ScriptType == script \in [Tx -> Seq(Ops)]

(* No two workers hold locks that refuse each other. *)
Compatible ==
    \A t, u \in Tx : t # u =>
       \A r \in Rows : held[t][r] # 0 /\ held[u][r] # 0 =>
          ~Conflicts(held[t][r], held[u][r])

-----------------------------------------------------------------------------
Rank(r) ==
    IF r \in VersionRows \cup OldFileRows THEN 1
    ELSE IF r \in ReleasesRows THEN 2
    ELSE IF r \in NewFileRows \cup FilesRows THEN 3
    ELSE IF r \in Projects THEN 4
    ELSE 5

Counts(t, r) ==
    /\ held[t][r] # 0
    /\ r # EventsRow
    /\ ~(r \in Projects /\ held[t][r] = KeyShare)

Upto(t, k) == \A r \in Rows : Counts(t, r) => Rank(r) <= k

UptoProject(t, p) == \A r \in Rows : Counts(t, r) => Rank(r) <= 3 \/ r = p

SortedReleases(t, p) == held[t][ReleasesRow[p]] = Update

(* Journal entries of one project, at least one. *)
Only(p) == Seq({p}) \ {<<>>}

-----------------------------------------------------------------------------
(* Between two flushes, and while one is executed. *)
Loaded(t, s, w, d) ==
    /\ pc[t] = "open"
    /\ script[t] = s /\ writes[t] = w /\ deletes[t] = d
    /\ deferred[t] = <<>>

Flushing(t, s, w, d) ==
    /\ pc[t] = "execute"
    /\ script[t] = s /\ writes[t] = w /\ deletes[t] = d
    /\ pending[t] = <<>>

EventLock == Lock(EventsRow, KeyShare)
ReferenceLock(p) == Lock(p, KeyShare)
ProjectLock(p) == Lock(p, NoKeyUpdate)
ReleasesLock(p, m) == Lock(ReleasesRow[p], m)

(* How the scripts end. *)
LastQuery(p) == Cons(Query(p), <<>>)
TwoQueries(p) == Cons(Query(p), LastQuery(p))
OneEntry(p) == Cons(Journal(p), LastQuery(p))
TwoEntries(p) == Cons(Journal(p), OneEntry(p))

(* An upload that adds a file, before its flush and in it. *)
NameLock(p, u) == Lock(FileRow[p][u], Update)
FileLocks(p, u) ==
    <<NameLock(p, u), ReleasesLock(p, KeyShare), ProjectLock(p)>>

Stored(p, z) == Cons(Store(p), z)
Sized(p, z) == Cons(Write(p, NoKeyUpdate), Stored(p, z))
Referenced(p, z) == Cons(Write(ReleasesRow[p], KeyShare), Sized(p, z))
Named(p, u, z) == Cons(Write(FileRow[p][u], Update), Referenced(p, z))

FileReady(t, p, u) ==
    \/ Rank(FileRow[p][u]) = 1 /\ Upto(t, 0)
    \/ Rank(FileRow[p][u]) = 3 /\ Upto(t, 2) /\ SortedReleases(t, p)

FileLocked(t, p) == Upto(t, 1) \/ (Upto(t, 3) /\ SortedReleases(t, p))

(* Whether the flush of the file comes before the journal entry. *)
Verifies(p) == Cons(Write(ReleasesRow[p], NoKeyUpdate), OneEntry(p))
Urls(p) == {OneEntry(p), Verifies(p)}
LoadsUrls(p, s) == Cons(Query(p), s)
AfterStore(p) ==
    {OneEntry(p), TwoEntries(p)} \cup {LoadsUrls(p, s) : s \in Urls(p)}

AddsFile(t, p, u) ==
    /\ FileReady(t, p, u)
    /\ pending[t] = <<>>
    /\ \E z \in AfterStore(p) :
          \/ Loaded(t, Named(p, u, z), <<>>, <<>>)
          \/ Loaded(t, Referenced(p, z), <<NameLock(p, u)>>, <<>>)
          \/ Loaded(t, Sized(p, z),
                    <<NameLock(p, u), ReleasesLock(p, KeyShare)>>, <<>>)
          \/ Loaded(t, Stored(p, z), FileLocks(p, u), <<>>)
          \/ Loaded(t, z, FileLocks(p, u), <<>>)

AddsEntries(t, p, u) ==
    /\ FileReady(t, p, u)
    /\ pending[t] \in Only(p)
    /\ \/ Loaded(t, OneEntry(p), FileLocks(p, u), <<>>)
       \/ Loaded(t, LastQuery(p), FileLocks(p, u), <<>>)

FlushesFile(t, p, u) ==
    /\ \E s \in {<<>>} \cup Urls(p) :
          /\ IF s = <<>> THEN deferred[t] \in Only(p) ELSE deferred[t] = <<>>
          /\ \/ /\ Flushing(t, s, FileLocks(p, u), <<>>)
                /\ FileReady(t, p, u)
             \/ /\ Flushing(t, s, <<ReleasesLock(p, KeyShare), ProjectLock(p)>>,
                            <<>>)
                /\ FileLocked(t, p)
             \/ /\ Flushing(t, s, <<ProjectLock(p)>>, <<>>)
                /\ Upto(t, 3) /\ held[t][ReleasesRow[p]] # 0

(* The file is flushed; a URL of its release may be verified now. *)
VerifiedLock(p) == ReleasesLock(p, NoKeyUpdate)

ChecksUrls(t, p) ==
    /\ UptoProject(t, p)
    /\ held[t][p] = NoKeyUpdate /\ held[t][ReleasesRow[p]] # 0
    /\ \/ /\ pending[t] = <<>> /\ deferred[t] = <<>>
          /\ \/ \E s \in Urls(p) :
                   Flushing(t, s, <<>>, <<>>) \/ Loaded(t, s, <<>>, <<>>)
             \/ Loaded(t, OneEntry(p), <<VerifiedLock(p)>>, <<>>)
       \/ /\ pending[t] \in Only(p)
          /\ Loaded(t, LastQuery(p), <<VerifiedLock(p)>>, <<>>)
       \/ /\ deferred[t] \in Only(p)
          /\ Flushing(t, <<>>, <<VerifiedLock(p)>>, <<>>)

(* An upload that adds a release, up to its file. *)
VersionLock(p, u) == Lock(VersionRow[p][u], Update)

Filed(p, u) == Named(p, u, TwoEntries(p))
Sorted(p, u) == Cons(Query(p), Filed(p, u))
Sorts(p, u) == Cons(Write(ReleasesRow[p], Update), Sorted(p, u))
Flushed(p, u) == Cons(Query(p), Sorts(p, u))
Owned(p, u) == Cons(Write(p, KeyShare), Flushed(p, u))
Versioned(p, u) == Cons(Write(VersionRow[p][u], Update), Owned(p, u))

AddsRelease(t, p, u) ==
    /\ pending[t] = <<>> /\ deferred[t] = <<>>
    /\ \/ /\ Upto(t, 0)
          /\ \/ Loaded(t, Versioned(p, u), <<>>, <<>>)
             \/ Loaded(t, Owned(p, u), <<VersionLock(p, u)>>, <<>>)
             \/ Loaded(t, Flushed(p, u),
                       <<VersionLock(p, u), ReferenceLock(p)>>, <<>>)
             \/ Flushing(t, Sorts(p, u),
                         <<VersionLock(p, u), ReferenceLock(p)>>, <<>>)
       \/ /\ Upto(t, 1)
          /\ \/ Flushing(t, Sorts(p, u), <<ReferenceLock(p)>>, <<>>)
             \/ Flushing(t, Sorts(p, u), <<>>, <<>>)
             \/ Loaded(t, Sorts(p, u), <<>>, <<>>)
             \/ Loaded(t, Sorted(p, u), <<ReleasesLock(p, Update)>>, <<>>)
             \/ Flushing(t, Filed(p, u), <<ReleasesLock(p, Update)>>, <<>>)
       \/ /\ Upto(t, 2) /\ SortedReleases(t, p)
          /\ Flushing(t, Filed(p, u), <<>>, <<>>)

(* The removal of a release. *)
FilesLock(p) == Lock(FilesRow[p], Update)
DropLocks(p) == <<ReleasesLock(p, Update), FilesLock(p), ProjectLock(p)>>

Unsized(p) == Cons(Delete(p, NoKeyUpdate), TwoQueries(p))
Emptied(p) == Cons(Delete(FilesRow[p], Update), Unsized(p))
Dropped(p) == Cons(Delete(ReleasesRow[p], Update), Emptied(p))
DropNoted(p) == Cons(RecordEvent, Dropped(p))

DeletesRelease(t, p) ==
    \/ /\ pending[t] = <<>> /\ Upto(t, 0)
       /\ Loaded(t, Cons(Journal(p), DropNoted(p)), <<>>, <<>>)
    \/ /\ pending[t] \in Only(p) /\ Upto(t, 0)
       /\ \/ Loaded(t, DropNoted(p), <<>>, <<>>)
          \/ Loaded(t, Dropped(p), <<EventLock>>, <<>>)
          \/ Loaded(t, Emptied(p), <<EventLock>>, <<ReleasesLock(p, Update)>>)
          \/ Loaded(t, Unsized(p), <<EventLock>>,
                    <<ReleasesLock(p, Update), FilesLock(p)>>)
          \/ Loaded(t, TwoQueries(p), <<EventLock>>, DropLocks(p))
    \/ /\ deferred[t] \in Only(p)
       /\ \/ /\ Upto(t, 0)
             /\ \E w \in {<<EventLock>>, <<>>} :
                   Flushing(t, LastQuery(p), w, DropLocks(p))
          \/ /\ Upto(t, 2)
             /\ Flushing(t, LastQuery(p), <<>>, <<FilesLock(p), ProjectLock(p)>>)
          \/ /\ Upto(t, 3)
             /\ Flushing(t, LastQuery(p), <<>>, <<ProjectLock(p)>>)

(* The removal of a file, up to the flush of its event. *)
FileDeletes(p) ==
    Cons(Delete(FilesRow[p], Update), Cons(Delete(p, NoKeyUpdate), <<>>))
FileQuery(p) == Cons(Query(p), FileDeletes(p))
FileNoted(p) == Cons(RecordEvent, Cons(Query(p), FileQuery(p)))

DeletesFile(t, p) ==
    /\ Upto(t, 0)
    /\ \/ /\ pending[t] = <<>>
          /\ Loaded(t, Cons(Journal(p), FileNoted(p)), <<>>, <<>>)
       \/ /\ pending[t] \in Only(p)
          /\ \/ Loaded(t, FileNoted(p), <<>>, <<>>)
             \/ Loaded(t, Cons(Query(p), FileQuery(p)), <<EventLock>>, <<>>)
       \/ /\ deferred[t] \in Only(p)
          /\ Flushing(t, FileQuery(p), <<EventLock>>, <<>>)

(* A release that is yanked. *)
YankWrites(p) == Cons(Write(ReleasesRow[p], NoKeyUpdate), TwoQueries(p))
YankNoted(p) == Cons(RecordEvent, YankWrites(p))

Yanks(t, p) ==
    /\ Upto(t, 0)
    /\ \/ /\ pending[t] = <<>>
          /\ Loaded(t, Cons(Journal(p), YankNoted(p)), <<>>, <<>>)
       \/ /\ pending[t] \in Only(p)
          /\ \/ Loaded(t, YankNoted(p), <<>>, <<>>)
             \/ Loaded(t, YankWrites(p), <<EventLock>>, <<>>)
             \/ Loaded(t, TwoQueries(p),
                       <<EventLock, ReleasesLock(p, NoKeyUpdate)>>, <<>>)
       \/ /\ deferred[t] \in Only(p)
          /\ \/ Flushing(t, LastQuery(p),
                         <<EventLock, ReleasesLock(p, NoKeyUpdate)>>, <<>>)
             \/ Flushing(t, LastQuery(p),
                         <<ReleasesLock(p, NoKeyUpdate)>>, <<>>)

(* A file that is marked as cached, and its project. *)
CachedLock(p) == Lock(FilesRow[p], NoKeyUpdate)
CachedSized(p) == Cons(Write(p, NoKeyUpdate), <<>>)
Cached(p) == Cons(Write(FilesRow[p], NoKeyUpdate), CachedSized(p))

Syncs(t, p) ==
    /\ pending[t] = <<>> /\ deferred[t] = <<>>
    /\ \/ /\ Upto(t, 0)
          /\ \/ Loaded(t, Cached(p), <<>>, <<>>)
             \/ Loaded(t, CachedSized(p), <<CachedLock(p)>>, <<>>)
             \/ Loaded(t, <<>>, <<CachedLock(p), ProjectLock(p)>>, <<>>)
             \/ Flushing(t, <<>>, <<CachedLock(p), ProjectLock(p)>>, <<>>)
       \/ /\ Upto(t, 3)
          /\ Flushing(t, <<>>, <<ProjectLock(p)>>, <<>>)
       \/ /\ UptoProject(t, p)
          /\ Flushing(t, <<>>, <<>>, <<>>) \/ Loaded(t, <<>>, <<>>, <<>>)

(* What all of them come to: the journal entries were deferred and the     *)
(* flush of everything else is through; then they are restored.            *)
Rest(p) == {<<>>, LastQuery(p), FileQuery(p)}

Restores(t, p) ==
    /\ UptoProject(t, p)
    /\ \E s \in Rest(p) :
          \/ deferred[t] \in Only(p) /\ Flushing(t, s, <<>>, <<>>)
          \/ pending[t] \in Only(p) /\ Loaded(t, s, <<>>, <<>>)

BeforeJournals(t, p) ==
    /\ advisory # t /\ toLock[t] = {}
    /\ \/ \E u \in DOMAIN FileRow[p] :
             AddsFile(t, p, u) \/ AddsEntries(t, p, u) \/ FlushesFile(t, p, u)
       \/ \E u \in DOMAIN VersionRow[p] : AddsRelease(t, p, u)
       \/ DeletesRelease(t, p)
       \/ DeletesFile(t, p)
       \/ Yanks(t, p)
       \/ ChecksUrls(t, p)
       \/ Syncs(t, p)
       \/ Restores(t, p)

(* The flush of the journal entries. *)
Alone(t) == writes[t] = <<>> /\ deletes[t] = <<>> /\ deferred[t] = <<>>

LocksProject(t, p) ==
    /\ pc[t] = "lockRows" /\ advisory # t
    /\ pending[t] \in Only(p) /\ Alone(t)
    /\ script[t] \in {<<>>, FileDeletes(p)}
    /\ UptoProject(t, p)
    /\ \/ toLock[t] = {p}
       \/ toLock[t] = {} /\ held[t][p] = NoKeyUpdate

Inserts(t, p) ==
    /\ pc[t] = "execute" /\ advisory = t /\ toLock[t] = {}
    /\ pending[t] \in Seq({p}) /\ Alone(t)
    /\ script[t] \in {<<>>, FileDeletes(p)}
    /\ UptoProject(t, p) /\ held[t][p] = NoKeyUpdate

(* What is left is the DELETE of a file, under the project's lock and the  *)
(* advisory lock.                                                          *)
Ends(t, p) ==
    /\ advisory = t /\ toLock[t] = {}
    /\ pending[t] = <<>> /\ writes[t] = <<>> /\ deferred[t] = <<>>
    /\ UptoProject(t, p) /\ held[t][p] = NoKeyUpdate
    /\ \/ /\ pc[t] = "open"
          /\ script[t] = FileDeletes(p) /\ deletes[t] = <<>>
       \/ /\ pc[t] = "open"
          /\ script[t] = Cons(Delete(p, NoKeyUpdate), <<>>)
          /\ deletes[t] = <<FilesLock(p)>>
       \/ /\ pc[t] \in {"open", "execute"}
          /\ script[t] = <<>>
          /\ deletes[t] \in {<<>>, <<ProjectLock(p)>>,
                             <<FilesLock(p), ProjectLock(p)>>}

Idle(t) ==
    /\ pc[t] = "idle" /\ advisory # t /\ toLock[t] = {}
    /\ pending[t] = <<>> /\ Alone(t)
    /\ \A r \in Rows : held[t][r] = 0

WorkerInOrder(t) ==
    \/ Idle(t)
    \/ \E p \in Projects :
          BeforeJournals(t, p) \/ LocksProject(t, p) \/ Inserts(t, p)
          \/ Ends(t, p)

InOrder == \A t \in Tx : WorkerInOrder(t)

(* Who has a project's files locked has the project too or locks it next;  *)
(* who has updated its releases has the project or locks it with the       *)
(* journal entries.                                                        *)
FilesGoWithProject(t, p) ==
    held[t][FilesRow[p]] # 0 =>
       \/ held[t][p] = NoKeyUpdate
       \/ Flushing(t, LastQuery(p), <<>>, <<ProjectLock(p)>>)
       \/ Flushing(t, <<>>, <<ProjectLock(p)>>, <<>>)

ReleasesGoWithProject(t, p) ==
    held[t][ReleasesRow[p]] = NoKeyUpdate =>
       \/ held[t][p] = NoKeyUpdate
       \/ BeforeJournals(t, p) /\ Restores(t, p)
       \/ LocksProject(t, p)

BelowProject ==
    \A t \in Tx, p \in Projects :
       FilesGoWithProject(t, p) /\ ReleasesGoWithProject(t, p)

LockInv == ScriptType /\ MildLocks /\ Compatible /\ InOrder
=============================================================================
