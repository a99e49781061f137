------------------------------ MODULE Journals ------------------------------
(***************************************************************************)
(* How a transaction writes journal entries, and how a mirror reads them.  *)
(*                                                                         *)
(* journals.id is a SERIAL: nextval() hands the numbers out in the order   *)
(* of the INSERT statements, not in the order of the commits, and never    *)
(* takes one back.  Mirrors need commit order (see Changelog), so the      *)
(* session listener ensure_monotonic_journals serialises the transactions  *)
(* that insert journal entries with an advisory lock held to the end of    *)
(* the transaction.  The listener also keeps journal entries out of        *)
(* flushes that write anything else, and locks the projects rows the       *)
(* journal trigger is about to update before it asks for the lock.         *)
(*                                                                         *)
(* A member of Tx is a worker (a request thread or a Celery worker) that   *)
(* runs one transaction after another.  A session's unit of work is kept   *)
(* as the lists of journal entries, other writes and deletes that the next *)
(* flush executes.  Row locks follow PostgreSQL: a statement that cannot   *)
(* have its lock waits, and locks go at commit or rollback.                *)
(***************************************************************************)
EXTENDS Naturals, Sequences, FiniteSetsExt

CONSTANTS
    Tx,         \* workers, each with at most one transaction open
    NoTx,       \* the advisory lock's holder when it is free
    Rows,       \* lockable rows, numbered in the order of normalized_name
    Projects,   \* the rows of table projects, one per project name
    Modes,      \* the lock modes that pending writes take
    Deletable,  \* the rows that requests delete
    MaxSerial,  \* the last value of the sequence behind journals.id
    MaxWork,    \* bound: objects one transaction adds to its session
    PageLimit   \* entries one changelog_since_serial() call returns at most

ASSUME TxAssumption == NoTx \notin Tx
ASSUME RowsAssumption == 
    Rows \subseteq Nat /\ Projects \subseteq Rows /\ Deletable \subseteq Rows
ASSUME ModesAssumption == Modes \subseteq 1..3
ASSUME BoundsAssumption ==
    MaxSerial \in Nat /\ MaxWork \in Nat /\ PageLimit \in Nat \ {0}

VARIABLES
    pc,          \* where each worker is
    committing,  \* the request is over; zope.sqlalchemy flushes and commits
    pending,     \* session.new: the journal entries, by project, in order
    deferred,    \* session.info["_deferred_journals"]
    writes,      \* the other new and dirty objects, with the lock each takes
    deletes,     \* session.deleted, with the locks a DELETE and its triggers take
    work,        \* how many objects were added to the session
    added,       \* how many of them were journal entries
    toLock,      \* projects rows the listener has still to lock
    held,        \* the strongest lock each worker has on each row
    advisory,    \* holder of the journals advisory lock
    seq,         \* last value nextval() returned
    written,     \* journal rows inserted by an uncommitted transaction
    rowSerial,   \* its uncommitted projects.last_serial values
    committed,   \* visible journal rows
    lastSerial,  \* visible projects.last_serial
    phase,       \* what the mirror is doing
    indexSerial, \* the serial at the top of the index being rendered
    mirrorSerial,
    mirrorSeen

session == <<committing, pending, deferred, writes, deletes, work, added>>
locks == <<toLock, held, advisory>>
tables == <<seq, written, rowSerial, committed, lastSerial>>
mirror == <<phase, indexSerial, mirrorSerial, mirrorSeen>>
vars == <<pc, session, locks, tables, mirror>>

Entry == [id : 1..MaxSerial, name : Projects]
RowLock == [row : Rows, mode : 1..3]
Ids(entries) == {e.id : e \in entries}

(* PostgreSQL row locks. *)
KeyShare == 1     \* taken on the referenced row by a foreign key
NoKeyUpdate == 2  \* UPDATE of ordinary columns, FOR NO KEY UPDATE
Update == 3       \* DELETE, FOR UPDATE

(* The conflict table of these modes: only KEY SHARE with KEY SHARE or NO  *)
(* KEY UPDATE is compatible.                                               *)
Conflicts(m, n) == m + n > 3

Refusers(t, r, m) ==
    {u \in Tx \ {t} : held[u][r] # 0 /\ Conflicts(held[u][r], m)}

Strengthen(t, r, m) ==
    [held EXCEPT ![t][r] = IF @ < m THEN m ELSE @]

NoLocks == [r \in Rows |-> 0]

SessionType ==
    /\ pc \in [Tx -> {"idle", "open", "lockRows", "execute"}]
    /\ committing \in [Tx -> BOOLEAN]
    /\ pending \in [Tx -> Seq(Projects)]
    /\ deferred \in [Tx -> Seq(Projects)]
    /\ writes \in [Tx -> Seq(RowLock)]
    /\ deletes \in [Tx -> Seq(RowLock)]
    /\ work \in [Tx -> 0..MaxWork]
    /\ added \in [Tx -> Nat]

LockType ==
    /\ toLock \in [Tx -> SUBSET Projects]
    /\ held \in [Tx -> [Rows -> 0..3]]
    /\ advisory \in Tx \cup {NoTx}

TableType ==
    /\ seq \in 0..MaxSerial
    /\ written \in [Tx -> SUBSET Entry]
    /\ rowSerial \in [Tx -> [Projects -> 0..MaxSerial]]
    /\ committed \in SUBSET Entry
    /\ lastSerial \in [Projects -> 0..MaxSerial]

MirrorType ==
    /\ phase \in {"new", "index", "polling"}
    /\ indexSerial \in 0..MaxSerial
    /\ mirrorSerial \in 0..MaxSerial
    /\ mirrorSeen \in SUBSET (1..MaxSerial)

TypeOK == SessionType /\ LockType /\ TableType /\ MirrorType

Init ==
    /\ pc = [t \in Tx |-> "idle"]
    /\ committing = [t \in Tx |-> FALSE]
    /\ pending = [t \in Tx |-> <<>>]
    /\ deferred = [t \in Tx |-> <<>>]
    /\ writes = [t \in Tx |-> <<>>]
    /\ deletes = [t \in Tx |-> <<>>]
    /\ work = [t \in Tx |-> 0]
    /\ added = [t \in Tx |-> 0]
    /\ toLock = [t \in Tx |-> {}]
    /\ held = [t \in Tx |-> NoLocks]
    /\ advisory = NoTx
    /\ seq = 0
    /\ written = [t \in Tx |-> {}]
    /\ rowSerial = [t \in Tx |-> [p \in Projects |-> 0]]
    /\ committed = {}
    /\ lastSerial = [p \in Projects |-> 0]
    /\ phase = "new"
    /\ indexSerial = 0
    /\ mirrorSerial = 0
    /\ mirrorSeen = {}

-----------------------------------------------------------------------------
(* The request's own code: it adds objects to the session. *)

Begin(t) ==
    /\ pc[t] = "idle"
    /\ pc' = [pc EXCEPT ![t] = "open"]
    /\ UNCHANGED <<session, locks, tables, mirror>>

Working(t) ==
    /\ pc[t] = "open"
    /\ ~committing[t]
    /\ work[t] < MaxWork
    /\ work' = [work EXCEPT ![t] = @ + 1]

(* request.db.add(JournalEntry(name=project.name, ...)) *)
AddJournal(t, p) ==
    /\ Working(t)
    /\ added' = [added EXCEPT ![t] = @ + 1]
    /\ pending' = [pending EXCEPT ![t] = Append(@, p)]
    /\ UNCHANGED <<pc, committing, deferred, writes, deletes, locks, tables,
                   mirror>>

(* Any other object added or modified; its INSERT or UPDATE, with the      *)
(* triggers and foreign keys that follow, takes lock m on row r.           *)
AddWrite(t, r, m) ==
    /\ Working(t)
    /\ writes' = [writes EXCEPT ![t] = Append(@, [row |-> r, mode |-> m])]
    /\ UNCHANGED <<pc, committing, pending, deferred, deletes, added, locks,
                   tables, mirror>>

(* request.db.delete(...): lock m on row r. *)
AddDelete(t, r, m) ==
    /\ Working(t)
    /\ deletes' = [deletes EXCEPT ![t] = Append(@, [row |-> r, mode |-> m])]
    /\ UNCHANGED <<pc, committing, pending, deferred, writes, added, locks,
                   tables, mirror>>

(* The request is over and the transaction manager starts its commit. *)
BeginCommit(t) ==
    /\ pc[t] = "open"
    /\ ~committing[t]
    /\ committing' = [committing EXCEPT ![t] = TRUE]
    /\ UNCHANGED <<pc, pending, deferred, writes, deletes, work, added, locks,
                   tables, mirror>>

-----------------------------------------------------------------------------
(* A flush: an autoflush before a query, an explicit one, or one of the    *)
(* commit's, which flushes until the session is clean.                     *)

Clean(t) == pending[t] = <<>> /\ writes[t] = <<>> /\ deletes[t] = <<>>

(* has_other_pending: session.dirty or another object in session.new;      *)
(* session.deleted does not count.                                         *)
HasOtherPending_Never(t) == FALSE

HasOtherPending(t) == writes[t] # <<>>

RowsToLock_None(t) == {}

RowsToLock(t) == Range(pending[t])

(* ensure_monotonic_journals, up to its decision. *)
BeforeFlush(t) ==
    /\ pc[t] = "open"
    /\ ~Clean(t)
    /\ \/ /\ pending[t] # <<>> /\ HasOtherPending(t)
          /\ deferred' = [deferred EXCEPT ![t] = @ \o pending[t]]
          /\ pending' = [pending EXCEPT ![t] = <<>>]
          /\ pc' = [pc EXCEPT ![t] = "execute"]
          /\ UNCHANGED toLock
       \/ /\ pending[t] # <<>> /\ ~HasOtherPending(t)
          /\ toLock' = [toLock EXCEPT ![t] = RowsToLock(t)]
          /\ pc' = [pc EXCEPT ![t] = "lockRows"]
          /\ UNCHANGED <<pending, deferred>>
       \/ /\ pending[t] = <<>>
          /\ pc' = [pc EXCEPT ![t] = "execute"]
          /\ UNCHANGED <<pending, deferred, toLock>>
    /\ UNCHANGED <<committing, writes, deletes, work, added, held, advisory,
                   tables, mirror>>

(* SELECT ... ORDER BY normalized_name FOR NO KEY UPDATE, one row a step. *)
LockRow(t) ==
    /\ pc[t] = "lockRows"
    /\ \E p \in toLock[t] :
          /\ \A q \in toLock[t] : p <= q
          /\ Refusers(t, p, NoKeyUpdate) = {}
          /\ held' = Strengthen(t, p, NoKeyUpdate)
          /\ toLock' = [toLock EXCEPT ![t] = @ \ {p}]
    /\ UNCHANGED <<pc, session, advisory, tables, mirror>>

(* SELECT pg_advisory_xact_lock(...) *)
AdvisoryFree_Unlocked(t) == TRUE

AdvisoryFree(t) == advisory \in {t, NoTx}

LockAdvisory(t) ==
    /\ pc[t] = "lockRows"
    /\ toLock[t] = {}
    /\ AdvisoryFree(t)
    /\ advisory' = t
    /\ pc' = [pc EXCEPT ![t] = "execute"]
    /\ UNCHANGED <<session, toLock, held, tables, mirror>>

(* The unit of work emits INSERTs and UPDATEs first, DELETEs last. *)
ExecuteWrite(t) ==
    /\ pc[t] = "execute"
    /\ writes[t] # <<>>
    /\ LET w == Head(writes[t])
       IN  /\ Refusers(t, w.row, w.mode) = {}
           /\ held' = Strengthen(t, w.row, w.mode)
    /\ writes' = [writes EXCEPT ![t] = Tail(@)]
    /\ UNCHANGED <<pc, committing, pending, deferred, deletes, work, added,
                   toLock, advisory, tables, mirror>>

SequenceHasNext == seq < MaxSerial

TriggerSerial_Oldest(p, visible) == Min(Ids({e \in visible : e.name = p}))

TriggerSerial(p, visible) == Max(Ids({e \in visible : e.name = p}))

(* INSERT INTO journals.  The trigger maintain_project_last_serial updates *)
(* the projects row with the newest serial its transaction can see.        *)
InsertJournal(t) ==
    /\ pc[t] = "execute"
    /\ writes[t] = <<>>
    /\ pending[t] # <<>>
    /\ SequenceHasNext
    /\ LET p == Head(pending[t])
           rows == written[t] \cup {[id |-> seq + 1, name |-> p]}
       IN  /\ Refusers(t, p, NoKeyUpdate) = {}
           /\ held' = Strengthen(t, p, NoKeyUpdate)
           /\ written' = [written EXCEPT ![t] = rows]
           /\ rowSerial' = [rowSerial EXCEPT ![t][p] =
                              TriggerSerial(p, committed \cup rows)]
    /\ seq' = seq + 1
    /\ pending' = [pending EXCEPT ![t] = Tail(@)]
    /\ UNCHANGED <<pc, committing, deferred, writes, deletes, work, added,
                   toLock, advisory, committed, lastSerial, mirror>>

ExecuteDelete(t) ==
    /\ pc[t] = "execute"
    /\ writes[t] = <<>> /\ pending[t] = <<>>
    /\ deletes[t] # <<>>
    /\ LET d == Head(deletes[t])
       IN  /\ Refusers(t, d.row, d.mode) = {}
           /\ held' = Strengthen(t, d.row, d.mode)
    /\ deletes' = [deletes EXCEPT ![t] = Tail(@)]
    /\ UNCHANGED <<pc, committing, pending, deferred, writes, work, added,
                   toLock, advisory, tables, mirror>>

Restored_Lost(t) == <<>>

Restored(t) == deferred[t]

(* _restore_deferred_journals *)
AfterFlush(t) ==
    /\ pc[t] = "execute"
    /\ Clean(t)
    /\ pending' = [pending EXCEPT ![t] = Restored(t)]
    /\ deferred' = [deferred EXCEPT ![t] = <<>>]
    /\ pc' = [pc EXCEPT ![t] = "open"]
    /\ UNCHANGED <<committing, writes, deletes, work, added, locks, tables,
                   mirror>>

-----------------------------------------------------------------------------
(* The end of a transaction: its locks go, its session is closed. *)

AfterRelease_SessionLevel(t) == advisory

AfterRelease(t) == IF advisory = t THEN NoTx ELSE advisory

End(t) ==
    /\ pc' = [pc EXCEPT ![t] = "idle"]
    /\ committing' = [committing EXCEPT ![t] = FALSE]
    /\ pending' = [pending EXCEPT ![t] = <<>>]
    /\ deferred' = [deferred EXCEPT ![t] = <<>>]
    /\ writes' = [writes EXCEPT ![t] = <<>>]
    /\ deletes' = [deletes EXCEPT ![t] = <<>>]
    /\ work' = [work EXCEPT ![t] = 0]
    /\ added' = [added EXCEPT ![t] = 0]
    /\ toLock' = [toLock EXCEPT ![t] = {}]
    /\ held' = [held EXCEPT ![t] = NoLocks]
    /\ advisory' = AfterRelease(t)
    /\ written' = [written EXCEPT ![t] = {}]
    /\ rowSerial' = [rowSerial EXCEPT ![t] = [p \in Projects |-> 0]]
    /\ UNCHANGED <<seq, mirror>>

Commit(t) ==
    /\ pc[t] = "open"
    /\ committing[t]
    /\ Clean(t)
    /\ committed' = committed \cup written[t]
    /\ lastSerial' = [p \in Projects |->
          IF rowSerial[t][p] = 0 THEN lastSerial[p] ELSE rowSerial[t][p]]
    /\ End(t)

(* The request failed, READ_ONLY doomed the transaction, a statement hit a *)
(* constraint or its timeout.  Numbers taken from the sequence are not     *)
(* given back.                                                             *)
Rollback(t) ==
    /\ pc[t] # "idle"
    /\ UNCHANGED <<committed, lastSerial>>
    /\ End(t)

(* nextval() has no number left: the INSERT fails. *)
SequenceExhausted(t) ==
    /\ pc[t] = "execute"
    /\ writes[t] = <<>> /\ pending[t] # <<>>
    /\ ~SequenceHasNext
    /\ Rollback(t)

(* Whom a worker that waits for a lock waits for. *)
Blockers(t) ==
    CASE pc[t] = "lockRows" /\ toLock[t] # {} ->
            Refusers(t, Min(toLock[t]), NoKeyUpdate)
      [] pc[t] = "lockRows" /\ toLock[t] = {} -> {advisory} \ {t, NoTx}
      [] pc[t] = "execute" /\ writes[t] # <<>> ->
            Refusers(t, Head(writes[t]).row, Head(writes[t]).mode)
      [] pc[t] = "execute" /\ writes[t] = <<>> /\ pending[t] # <<>> ->
            Refusers(t, Head(pending[t]), NoKeyUpdate)
      [] pc[t] = "execute" /\ writes[t] = <<>> /\ pending[t] = <<>>
            /\ deletes[t] # <<>> ->
            Refusers(t, Head(deletes[t]).row, Head(deletes[t]).mode)
      [] OTHER -> {}

(* Every member waits for another member: PostgreSQL has to break it. *)
Deadlocked(group) ==
    group # {} /\ \A t \in group : Blockers(t) \cap group # {}

DeadlockVictim(t) ==
    /\ \E group \in SUBSET Tx : t \in group /\ Deadlocked(group)
    /\ Rollback(t)

-----------------------------------------------------------------------------
(* A mirror.  It first renders /simple/: simple_index reads max(id) in one *)
(* statement and the projects in a later one, and READ COMMITTED lets      *)
(* commits in between.                                                     *)

NewestVisible_LastValue == {seq}

NewestVisible ==
    {i \in Ids(committed) \cup {0} : \A j \in Ids(committed) : j <= i}

IndexSerial ==
    /\ phase = "new"
    /\ indexSerial' \in NewestVisible
    /\ phase' = "index"
    /\ UNCHANGED <<pc, session, locks, tables, mirrorSerial, mirrorSeen>>

IndexProjects ==
    /\ phase = "index"
    /\ mirrorSerial' = indexSerial
    /\ mirrorSeen' = mirrorSeen \cup Ids(committed)
    /\ phase' = "polling"
    /\ UNCHANGED <<pc, session, locks, tables, indexSerial>>

(* changelog_since_serial: id > serial, ordered by id, at most PageLimit. *)
Page_SkipsOne(serial, upto) ==
    {i \in Ids(committed) : serial + 1 < i /\ i <= upto}

Page_FromSerial(serial, upto) ==
    {i \in Ids(committed) : serial <= i /\ i <= upto}

Page(serial, upto) == {i \in Ids(committed) : serial < i /\ i <= upto}

Poll ==
    /\ phase = "polling"
    /\ mirrorSerial' \in Ids(committed)
    /\ LET page == Page(mirrorSerial, mirrorSerial')
       IN  /\ mirrorSerial' \in page
           /\ Cardinality(page) <= PageLimit
           /\ \/ Cardinality(page) = PageLimit
              \/ \A i \in Ids(committed) : i <= mirrorSerial'
           /\ mirrorSeen' = mirrorSeen \cup page
    /\ UNCHANGED <<pc, session, locks, tables, phase, indexSerial>>

-----------------------------------------------------------------------------
Flush(t) ==
    \/ BeforeFlush(t)
    \/ LockRow(t)
    \/ LockAdvisory(t)
    \/ ExecuteWrite(t)
    \/ InsertJournal(t)
    \/ SequenceExhausted(t)
    \/ ExecuteDelete(t)
    \/ AfterFlush(t)

Request(t) ==
    \/ Begin(t)
    \/ \E p \in Projects : AddJournal(t, p)
    \/ \E r \in Rows, m \in Modes : AddWrite(t, r, m)
    \/ \E r \in Deletable, m \in {NoKeyUpdate, Update} : AddDelete(t, r, m)
    \/ BeginCommit(t)

Mirror == IndexSerial \/ IndexProjects \/ Poll

Next ==
    \/ \E t \in Tx : Request(t) \/ Flush(t) \/ Commit(t) \/ Rollback(t)
    \/ Mirror

Spec == Init /\ [][Next]_vars

(* Requests end (the web server and Celery limit them), PostgreSQL runs a  *)
(* statement whose locks are free, grants a lock that keeps coming free to *)
(* whoever waits for it, and breaks deadlocks; a mirror keeps polling.     *)
Fairness ==
    /\ \A t \in Tx : SF_vars(BeginCommit(t) \/ Flush(t) \/ Commit(t))
    /\ WF_vars(\E t \in Tx : DeadlockVictim(t))
    /\ WF_vars(Mirror)

FairSpec == Spec /\ Fairness

-----------------------------------------------------------------------------
(* Safety. *)

(* Journal entries become visible in the order of their serials: a commit  *)
(* never publishes a serial below one that is already visible (the promise *)
(* of ensure_monotonic_journals).                                          *)
SerialsInCommitOrder ==
    [][\A new \in committed' \ committed, old \in committed :
          old.id < new.id]_committed

(* The mirror that follows docs/dev/api-reference/xml-rpc.md has seen the  *)
(* effect of every visible entry up to the serial it asks from, although   *)
(* the index it started from was put together from two statements.         *)
MirrorMissesNothing ==
    \A e \in committed : e.id <= mirrorSerial => e.id \in mirrorSeen

(* projects.last_serial is the newest visible serial of the project (the   *)
(* trigger maintain_project_last_serial).                                  *)
LastSerialCurrent ==
    \A p \in Projects :
       /\ \A e \in committed : e.name = p => e.id <= lastSerial[p]
       /\ lastSerial[p] # 0 => [id |-> lastSerial[p], name |-> p] \in committed

(* Deferring loses no journal entry: between flushes each one added is     *)
(* either still in the session or inserted.                                *)
JournalsConserved ==
    \A t \in Tx :
       added[t] = Len(pending[t]) + Len(deferred[t]) + Cardinality(written[t])

(* The inductive invariant behind the three: whoever has uncommitted       *)
(* journal rows holds the advisory lock, so their serials are above every  *)
(* visible one, and what the mirror asks from is visible or zero.          *)
AdvisoryHolderWrites ==
    \A t \in Tx :
       /\ (written[t] # {} \/ (pc[t] = "execute" /\ pending[t] # <<>>))
             => advisory = t
       /\ pc[t] = "idle" => advisory # t /\ written[t] = {}

SerialsAllocated ==
    /\ \A e \in committed : e.id <= seq
    /\ \A t \in Tx : \A e \in written[t] :
          e.id <= seq /\ \A old \in committed : old.id < e.id

RowSerialCurrent ==
    \A t \in Tx, p \in Projects :
       /\ \A e \in written[t] : e.name = p => e.id <= rowSerial[t][p]
       /\ rowSerial[t][p] # 0
             => [id |-> rowSerial[t][p], name |-> p] \in written[t]

MirrorBehind ==
    /\ mirrorSerial \in Ids(committed) \cup {0}
    /\ indexSerial \in Ids(committed) \cup {0}

IInv ==
    /\ TypeOK
    /\ AdvisoryHolderWrites
    /\ SerialsAllocated
    /\ RowSerialCurrent
    /\ LastSerialCurrent
    /\ MirrorBehind
    /\ MirrorMissesNothing

-----------------------------------------------------------------------------
(* Liveness. *)

(* A transaction that has begun to commit ends, deadlocks included. *)
CommitsEnd ==
    \A t \in Tx : committing[t] ~> pc[t] = "idle"

(* Every visible entry reaches the mirror, a page at a time. *)
MirrorCatchesUp ==
    \A i \in 1..MaxSerial : (i \in Ids(committed)) ~> (i \in mirrorSeen)

-----------------------------------------------------------------------------
(* The mirror's view is that of Changelog. *)
Abstract == INSTANCE Changelog WITH Names <- Projects, log <- committed

ImplementsChangelog == Abstract!Spec
=============================================================================
