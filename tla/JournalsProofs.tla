--------------------------- MODULE JournalsProofs ---------------------------
(***************************************************************************)
(* The serial order of the changelog, and that the requests whose          *)
(* transactions write it do not deadlock and come to an end, proved for    *)
(* every number of workers, projects, uploads and serials.                 *)
(***************************************************************************)
EXTENDS Progress, SequenceTheorems, FiniteSetTheorems, TLAPS

-----------------------------------------------------------------------------
(* Where no worker's name is the value that stands for nobody, every step  *)
(* keeps the variables in their types.                                     *)

LEMMA TypeInit == Init => TypeOK
  <1> SUFFICES ASSUME Init PROVE TypeOK
      OBVIOUS
  <1>1. <<>> \in Seq(Projects) /\ <<>> \in Seq(RowLock)
      BY EmptySeq
  <1>2. SessionType
      BY <1>1, BoundsAssumption DEF Init, SessionType
  <1>3. LockType /\ TableType /\ MirrorType
      BY BoundsAssumption DEF Init, LockType, TableType, MirrorType, NoLocks
  <1> QED
      BY <1>2, <1>3 DEF TypeOK

(* A lock request leaves every worker with one mode a row.                 *)
LEMMA StrengthenType ==
  ASSUME held \in [Tx -> [Rows -> 0..3]],
         NEW t \in Tx, NEW r \in Rows, NEW m \in 1..3
  PROVE  Strengthen(t, r, m) \in [Tx -> [Rows -> 0..3]]
  BY DEF Strengthen

(* The request's own steps touch the session alone. *)
LEMMA RequestType ==
  ASSUME TypeOK, NEW t \in Tx, Request(t)
  PROVE  TypeOK'
  <1> USE DEF TypeOK, session, locks, tables, mirror
  <1>1. UNCHANGED <<locks, tables, mirror>>
      BY DEF Request, Begin, AddJournal, AddWrite, AddDelete, BeginCommit
  <1>2. LockType' /\ TableType' /\ MirrorType'
      BY <1>1 DEF LockType, TableType, MirrorType
  <1>3. SessionType'
    <2> USE DEF SessionType
    <2>1. CASE Begin(t)
        BY <2>1 DEF Begin
    <2>2. ASSUME Working(t) PROVE work' \in [Tx -> 0..MaxWork]
        BY <2>2, BoundsAssumption DEF Working
    <2>3. ASSUME NEW p \in Projects, AddJournal(t, p) PROVE SessionType'
      <3>1. Append(pending[t], p) \in Seq(Projects)
          OBVIOUS
      <3> QED
          BY <2>2, <2>3, <3>1 DEF AddJournal
    <2>4. ASSUME NEW r \in Rows, NEW m \in Modes, AddWrite(t, r, m)
          PROVE  SessionType'
      <3>1. /\ [row |-> r, mode |-> m] \in RowLock
            /\ writes[t] \in Seq(RowLock)
          BY ModesAssumption DEF RowLock
      <3>2. Append(writes[t], [row |-> r, mode |-> m]) \in Seq(RowLock)
          BY <3>1, AppendProperties
      <3> QED
          BY <2>2, <2>4, <3>2 DEF AddWrite
    <2>5. ASSUME NEW r \in Deletable, NEW m \in {NoKeyUpdate, Update},
                 AddDelete(t, r, m)
          PROVE  SessionType'
      <3>0. r \in Rows /\ m \in 1..3
          BY RowsAssumption DEF NoKeyUpdate, Update
      <3>1. /\ [row |-> r, mode |-> m] \in RowLock
            /\ deletes[t] \in Seq(RowLock)
          BY <3>0 DEF RowLock
      <3>2. Append(deletes[t], [row |-> r, mode |-> m]) \in Seq(RowLock)
          BY <3>1, AppendProperties
      <3> QED
          BY <2>2, <2>5, <3>2 DEF AddDelete
    <2>6. CASE BeginCommit(t)
        BY <2>6 DEF BeginCommit
    <2> QED
        BY <2>1, <2>3, <2>4, <2>5, <2>6 DEF Request
  <1> QED
      BY <1>2, <1>3

(* The trigger's max(id) is the serial just inserted: every serial the     *)
(* transaction can see was allocated before.                               *)
LEMMA NewestIsMax ==
  ASSUME NEW S \in SUBSET Nat, NEW n \in S, \A x \in S : x <= n
  PROVE  Max(S) = n
  <1>1. n \in S /\ \A y \in S : n >= y
      OBVIOUS
  <1>2. Max(S) \in S /\ \A y \in S : Max(S) >= y
      BY <1>1, Zenon DEF Max
  <1>3. Max(S) \in Nat /\ n \in Nat /\ n >= Max(S) /\ Max(S) >= n
      BY <1>1, <1>2
  <1> HIDE DEF Max
  <1> QED
      BY <1>3

(* What the INSERT and its trigger write: the next number of the sequence, *)
(* which is also the project's newest serial.                              *)
LEMMA InsertedSerial ==
  ASSUME TypeOK, SerialsAllocated, NEW t \in Tx, InsertJournal(t)
  PROVE  /\ Head(pending[t]) \in Projects
         /\ Tail(pending[t]) \in Seq(Projects)
         /\ [id |-> seq + 1, name |-> Head(pending[t])] \in Entry
         /\ written' = [written EXCEPT ![t] =
               @ \cup {[id |-> seq + 1, name |-> Head(pending[t])]}]
         /\ rowSerial' = [rowSerial EXCEPT ![t][Head(pending[t])] = seq + 1]
  <1> DEFINE p == Head(pending[t])
             new == [id |-> seq + 1, name |-> p]
             seen == {e \in committed \cup (written[t] \cup {new}) : e.name = p}
  <1>1. p \in Projects /\ Tail(pending[t]) \in Seq(Projects)
      BY HeadTailProperties DEF InsertJournal, TypeOK, SessionType
  <1>2. new \in Entry
      BY <1>1, BoundsAssumption DEF InsertJournal, SequenceHasNext, Entry, TypeOK,
         TableType
  <1>3. \A e \in seen : e \in Entry /\ e.id <= seq + 1
      BY <1>2, BoundsAssumption DEF SerialsAllocated, TypeOK, TableType, Entry
  <1>4. Ids(seen) \in SUBSET Nat /\ seq + 1 \in Ids(seen)
    <2>1. new \in seen /\ new.id = seq + 1
        OBVIOUS
    <2>2. \A e \in seen : e.id \in Nat
        BY <1>3, BoundsAssumption DEF Entry
    <2> HIDE DEF seen
    <2> QED
        BY <2>1, <2>2 DEF Ids
  <1>5. Max(Ids(seen)) = seq + 1
    <2>1. \A x \in Ids(seen) : x <= seq + 1
        BY <1>3 DEF Ids
    <2> QED
        BY <1>4, <2>1, NewestIsMax
  <1> QED
      BY <1>1, <1>2, <1>5 DEF InsertJournal, TriggerSerial

(* A flush moves the session's lists to the database and takes locks. *)
LEMMA FlushType ==
  ASSUME TypeOK, SerialsAllocated, NEW t \in Tx, Flush(t),
         ~SequenceExhausted(t)
  PROVE  TypeOK'
  <1> USE DEF TypeOK
  <1>1. CASE BeforeFlush(t)
    <2>1. deferred[t] \o pending[t] \in Seq(Projects) /\ <<>> \in Seq(Projects)
        BY ConcatProperties, EmptySeq DEF SessionType
    <2>2. Range(pending[t]) \subseteq Projects
        BY ElementOfSeq, LenProperties DEF Range, SessionType
    <2>3. SessionType'
        <3>1. /\ \/ deferred' = [deferred EXCEPT ![t] = @ \o pending[t]]
                 \/ deferred' = deferred
              /\ pending' = [pending EXCEPT ![t] = <<>>] \/ pending' = pending
              /\ \E to \in {"lockRows", "execute"} : pc' = [pc EXCEPT ![t] = to]
              /\ UNCHANGED <<committing, writes, deletes, work, added>>
            BY <1>1 DEF BeforeFlush
        <3> QED
            BY <2>1, <3>1 DEF SessionType
    <2>4. LockType'
        BY <1>1, <2>2 DEF BeforeFlush, HasOtherPending, RowsToLock, LockType
    <2> QED
        BY <1>1, <2>3, <2>4
        DEF BeforeFlush, HasOtherPending, RowsToLock, tables, mirror, TableType, MirrorType
  <1>2. CASE LockRow(t)
    <2>1. PICK p \in toLock[t] : LockRow(t)!2!(p)
        BY <1>2 DEF LockRow
    <2>2. p \in Rows
        BY RowsAssumption DEF LockType
    <2>3. LockType'
        BY <1>2, <2>1, <2>2, StrengthenType DEF LockRow, LockType, NoKeyUpdate
    <2> QED
        BY <1>2, <2>3 DEF LockRow, session, tables, mirror,
           SessionType, TableType, MirrorType
  <1>3. CASE LockAdvisory(t)
    <2>1. SessionType' /\ LockType'
        BY <1>3 DEF LockAdvisory, session, SessionType, LockType
    <2> QED
        BY <1>3, <2>1 DEF LockAdvisory, tables, mirror, TableType, MirrorType
  <1>4. CASE ExecuteWrite(t)
    <2>1. Head(writes[t]) \in RowLock /\ Tail(writes[t]) \in Seq(RowLock)
        BY <1>4, HeadTailProperties DEF ExecuteWrite, SessionType
    <2>2. SessionType'
        BY <1>4, <2>1 DEF ExecuteWrite, SessionType
    <2>3. LockType'
        BY <1>4, <2>1, StrengthenType DEF ExecuteWrite, LockType, RowLock
    <2> QED
        BY <1>4, <2>2, <2>3
        DEF ExecuteWrite, tables, mirror, TableType, MirrorType
  <1>5. CASE InsertJournal(t)
    <2> DEFINE p == Head(pending[t])
               new == [id |-> seq + 1, name |-> p]
    <2>1. /\ p \in Projects /\ Tail(pending[t]) \in Seq(Projects)
          /\ new \in Entry
          /\ written' = [written EXCEPT ![t] = @ \cup {new}]
          /\ rowSerial' = [rowSerial EXCEPT ![t][p] = seq + 1]
        BY <1>5, InsertedSerial
    <2>2. SessionType'
        BY <1>5, <2>1 DEF InsertJournal, SessionType
    <2>3. LockType'
      <3>1. Strengthen(t, p, NoKeyUpdate) \in [Tx -> [Rows -> 0..3]]
          BY <2>1, StrengthenType, RowsAssumption DEF LockType, NoKeyUpdate
      <3> QED
          BY <1>5, <3>1 DEF InsertJournal, LockType
    <2>4. seq + 1 \in 0..MaxSerial
        BY <1>5, BoundsAssumption DEF InsertJournal, SequenceHasNext, TableType
    <2>5. TableType'
      <3>1. written' \in [Tx -> SUBSET Entry]
          BY <2>1 DEF TableType
      <3>2. rowSerial' \in [Tx -> [Projects -> 0..MaxSerial]]
          BY <2>1, <2>4 DEF TableType
      <3> QED
          BY <1>5, <2>4, <3>1, <3>2 DEF InsertJournal, TableType
    <2> QED
        BY <1>5, <2>2, <2>3, <2>5 DEF InsertJournal, mirror, MirrorType
  <1>6. CASE ExecuteDelete(t)
    <2>1. Head(deletes[t]) \in RowLock /\ Tail(deletes[t]) \in Seq(RowLock)
        BY <1>6, HeadTailProperties DEF ExecuteDelete, SessionType
    <2>2. SessionType'
        BY <1>6, <2>1 DEF ExecuteDelete, SessionType
    <2>3. LockType'
        BY <1>6, <2>1, StrengthenType DEF ExecuteDelete, LockType, RowLock
    <2> QED
        BY <1>6, <2>2, <2>3
        DEF ExecuteDelete, tables, mirror, TableType, MirrorType
  <1>7. CASE AfterFlush(t)
    <2>1. SessionType'
        BY <1>7, EmptySeq DEF AfterFlush, Restored, SessionType
    <2> QED
        BY <1>7, <2>1 DEF AfterFlush, locks, tables, mirror,
           LockType, TableType, MirrorType
  <1> QED
      BY <1>1, <1>2, <1>3, <1>4, <1>5, <1>6, <1>7 DEF Flush

(* The end of a transaction resets its worker. *)
LEMMA EndType ==
  ASSUME TypeOK, NEW t \in Tx, End(t),
         committed' \in SUBSET Entry,
         lastSerial' \in [Projects -> 0..MaxSerial]
  PROVE  TypeOK'
  <1>1. SessionType'
      BY EmptySeq, BoundsAssumption DEF End, TypeOK, SessionType
  <1>2. LockType'
      BY DEF End, AfterRelease, TypeOK, LockType, NoLocks
  <1>3. TableType' /\ MirrorType'
      BY BoundsAssumption DEF End, TypeOK, TableType, MirrorType, mirror
  <1> QED
      BY <1>1, <1>2, <1>3 DEF TypeOK

(* The mirror's steps stay within the serials of the visible entries.      *)
LEMMA MirrorStepType ==
  ASSUME TypeOK, Mirror
  PROVE  TypeOK'
  <1>1. UNCHANGED <<pc, session, locks, tables>>
      BY DEF Mirror, IndexSerial, IndexProjects, Poll
  <1>2. SessionType' /\ LockType' /\ TableType'
      BY <1>1 DEF TypeOK, session, locks, tables, SessionType, LockType,
         TableType
  <1>3. Ids(committed) \in SUBSET (1..MaxSerial) /\ 0 \in 0..MaxSerial
      BY BoundsAssumption DEF TypeOK, TableType, Entry, Ids
  <1>4. MirrorType'
    <2> USE <1>3 DEF TypeOK, MirrorType
    <2>1. CASE IndexSerial
        BY <2>1 DEF IndexSerial, NewestVisible
    <2>2. CASE IndexProjects
        BY <2>2 DEF IndexProjects
    <2>3. CASE Poll
      <3>1. /\ mirrorSerial' \in 1..MaxSerial
            /\ mirrorSeen' = mirrorSeen \cup Page(mirrorSerial, mirrorSerial')
            /\ UNCHANGED <<phase, indexSerial>>
          BY <2>3 DEF Poll
      <3>2. Page(mirrorSerial, mirrorSerial') \in SUBSET (1..MaxSerial)
          BY DEF Page
      <3>3. mirrorSeen' \in SUBSET (1..MaxSerial)
          BY <3>1, <3>2
      <3> QED
          BY <3>1, <3>3, BoundsAssumption
    <2> QED
        BY <2>1, <2>2, <2>3 DEF Mirror
  <1> QED
      BY <1>2, <1>4 DEF TypeOK

(* Every step keeps the variables in their types.                          *)
LEMMA TypeStep ==
  ASSUME TypeOK, SerialsAllocated, [Next]_vars
  PROVE  TypeOK'
  <1>1. CASE UNCHANGED vars
      BY <1>1 DEF vars, session, locks, tables, mirror, TypeOK, SessionType,
         LockType, TableType, MirrorType
  <1>2. CASE Mirror
      BY <1>2, MirrorStepType
  <1>3. ASSUME NEW t \in Tx, Request(t) PROVE TypeOK'
      BY <1>3, RequestType
  <1>4. ASSUME NEW t \in Tx, Rollback(t) PROVE TypeOK'
      BY <1>4, EndType DEF Rollback, TypeOK, TableType
  <1>5. ASSUME NEW t \in Tx, Flush(t) PROVE TypeOK'
      BY <1>4, <1>5, FlushType DEF SequenceExhausted
  <1>6. ASSUME NEW t \in Tx, Commit(t) PROVE TypeOK'
    <2>1. committed' \in SUBSET Entry
        BY <1>6 DEF Commit, TypeOK, TableType
    <2>2. lastSerial' \in [Projects -> 0..MaxSerial]
        BY <1>6 DEF Commit, TypeOK, TableType
    <2> QED
        BY <1>6, <2>1, <2>2, EndType DEF Commit
  <1> QED
      BY <1>1, <1>2, <1>3, <1>4, <1>5, <1>6 DEF Next

-----------------------------------------------------------------------------
(* The inductive invariant.  Three kinds of step matter: inserting journal *)
(* rows (only the holder of the advisory lock gets there, with a number    *)
(* above every earlier one), ending a transaction, and the mirror's.  The  *)
(* rest leave serials and journal rows alone.                              *)

SerialOrder ==
    /\ AdvisoryHolderWrites
    /\ SerialsAllocated
    /\ RowSerialCurrent
    /\ LastSerialCurrent
    /\ MirrorBehind
    /\ MirrorMissesNothing

(* Nothing is written at the start, and the mirror has asked for nothing.  *)
LEMMA OrderInit == Init => SerialOrder
  BY TxAssumption DEF Init, SerialOrder, AdvisoryHolderWrites, SerialsAllocated,
     RowSerialCurrent, LastSerialCurrent, MirrorBehind, MirrorMissesNothing, Ids

(* What reads only the tables and the mirror survives a step that leaves   *)
(* them alone.                                                             *)
LEMMA TablesUntouched ==
  ASSUME SerialOrder, UNCHANGED <<tables, mirror>>
  PROVE  /\ SerialsAllocated' /\ RowSerialCurrent' /\ LastSerialCurrent'
         /\ MirrorBehind' /\ MirrorMissesNothing'
  BY DEF SerialOrder, tables, mirror, SerialsAllocated, RowSerialCurrent,
     LastSerialCurrent, MirrorBehind, MirrorMissesNothing

(* A request's own steps insert nothing: the serials keep their order.     *)
LEMMA RequestOrder ==
  ASSUME TypeOK, SerialOrder, NEW t \in Tx, Request(t)
  PROVE  SerialOrder'
  <1>1. UNCHANGED <<locks, tables, mirror>>
      BY DEF Request, Begin, AddJournal, AddWrite, AddDelete, BeginCommit,
         session
  <1>2. AdvisoryHolderWrites'
    <2>1. /\ pc[t] \in {"idle", "open"} /\ pc'[t] \in {"idle", "open"}
          /\ \A u \in Tx \ {t} : pc'[u] = pc[u] /\ pending'[u] = pending[u]
          /\ pc'[t] = "idle" => pc[t] = "idle"
        BY DEF Request, Begin, AddJournal, AddWrite, AddDelete, BeginCommit,
           Working, session, TypeOK, SessionType
    <2> QED
        BY <1>1, <2>1 DEF SerialOrder, AdvisoryHolderWrites, locks, tables
  <1> QED
      BY <1>1, <1>2, TablesUntouched DEF SerialOrder

(* A flush step other than an insert. *)
LEMMA QuietFlushOrder ==
  ASSUME TypeOK, SerialOrder, NEW t \in Tx,
         \/ BeforeFlush(t) \/ LockRow(t) \/ LockAdvisory(t)
         \/ ExecuteWrite(t) \/ ExecuteDelete(t) \/ AfterFlush(t)
  PROVE  SerialOrder'
  <1>1. UNCHANGED <<tables, mirror>>
      BY DEF BeforeFlush, HasOtherPending, RowsToLock, LockRow, LockAdvisory,
         ExecuteWrite, ExecuteDelete, AfterFlush
  <1>2. AdvisoryHolderWrites'
    <2> USE DEF SerialOrder, AdvisoryHolderWrites, tables, TypeOK, SessionType,
        LockType
    <2>1. CASE BeforeFlush(t)
        BY <1>1, <2>1 DEF BeforeFlush, HasOtherPending, RowsToLock
    <2>2. CASE LockRow(t)
        BY <1>1, <2>2 DEF LockRow, session
    <2>3. CASE LockAdvisory(t)
        BY <1>1, <2>3, TxAssumption DEF LockAdvisory, AdvisoryFree, session
    <2>4. CASE ExecuteWrite(t)
        BY <1>1, <2>4 DEF ExecuteWrite
    <2>5. CASE ExecuteDelete(t)
        BY <1>1, <2>5 DEF ExecuteDelete
    <2>6. CASE AfterFlush(t)
        BY <1>1, <2>6 DEF AfterFlush, locks
    <2> QED
        BY <2>1, <2>2, <2>3, <2>4, <2>5, <2>6
  <1> QED
      BY <1>1, <1>2, TablesUntouched DEF SerialOrder

(* An inserted row has a serial above every other, and its transaction     *)
(* holds the advisory lock.                                                *)
LEMMA InsertOrder ==
  ASSUME TypeOK, SerialOrder, NEW t \in Tx, InsertJournal(t)
  PROVE  SerialOrder'
  <1> DEFINE p == Head(pending[t])
             new == [id |-> seq + 1, name |-> p]
  <1>1. /\ p \in Projects /\ new \in Entry
        /\ written' = [written EXCEPT ![t] = @ \cup {new}]
        /\ rowSerial' = [rowSerial EXCEPT ![t][p] = seq + 1]
      BY InsertedSerial DEF SerialOrder
  <1>2. /\ advisory = t /\ pc[t] = "execute"
        /\ seq' = seq + 1
        /\ pending' = [pending EXCEPT ![t] = Tail(@)]
        /\ UNCHANGED <<pc, advisory, committed, lastSerial, mirror>>
      BY DEF InsertJournal, SerialOrder, AdvisoryHolderWrites
  <1>3. AdvisoryHolderWrites'
      BY <1>1, <1>2 DEF SerialOrder, AdvisoryHolderWrites, TypeOK, SessionType,
         TableType
  <1>4. SerialsAllocated'
    <2>1. seq \in Nat /\ \A e \in Entry : e.id \in Nat
        BY BoundsAssumption DEF TypeOK, TableType, Entry
    <2>2. new.id = seq + 1
        OBVIOUS
    <2>3. committed \subseteq Entry /\ \A u \in Tx : written[u] \subseteq Entry
        BY DEF TypeOK, TableType
    <2>4. \A u \in Tx : \A e \in written'[u] : e \in written[u] \/ (u = t /\ e = new)
        BY <1>1 DEF TypeOK, TableType
    <2> HIDE DEF new
    <2>5. \A e \in committed' : e.id <= seq'
        BY <1>2, <2>1, <2>3 DEF SerialOrder, SerialsAllocated
    <2>6. ASSUME NEW u \in Tx, NEW e \in written'[u]
          PROVE  e.id <= seq' /\ \A old \in committed' : old.id < e.id
      <3>1. CASE e \in written[u]
          BY <1>2, <2>1, <2>3, <3>1 DEF SerialOrder, SerialsAllocated
      <3>2. CASE e = new
          BY <1>2, <2>1, <2>2, <2>3, <3>2 DEF SerialOrder, SerialsAllocated
      <3> QED
          BY <2>4, <3>1, <3>2
    <2> QED
        BY <2>5, <2>6 DEF SerialsAllocated
  <1>5. RowSerialCurrent'
    <2> SUFFICES ASSUME NEW u \in Tx, NEW q \in Projects
                 PROVE  /\ \A e \in written'[u] :
                              e.name = q => e.id <= rowSerial'[u][q]
                        /\ rowSerial'[u][q] # 0
                              => [id |-> rowSerial'[u][q], name |-> q]
                                    \in written'[u]
        BY DEF RowSerialCurrent
    <2>1. CASE u = t /\ q = p
      <3>1. rowSerial'[u][q] = seq + 1 /\ new \in written'[u]
          BY <1>1, <2>1 DEF TypeOK, TableType
      <3>2. \A e \in written'[u] : e.id <= seq + 1
          BY <1>2, <1>4 DEF SerialsAllocated
      <3> QED
          BY <2>1, <3>1, <3>2
    <2>2. CASE ~(u = t /\ q = p)
      <3>1. rowSerial'[u][q] = rowSerial[u][q]
          BY <1>1, <2>2 DEF TypeOK, TableType
      <3>2. /\ written[u] \subseteq written'[u]
            /\ \A e \in written'[u] : e \in written[u] \/ (u = t /\ e = new)
          BY <1>1 DEF TypeOK, TableType
      <3>3. u = t => q # new.name
          BY <2>2
      <3> QED
          BY <3>1, <3>2, <3>3 DEF SerialOrder, RowSerialCurrent
    <2> QED
        BY <2>1, <2>2
  <1>6. LastSerialCurrent' /\ MirrorBehind' /\ MirrorMissesNothing'
      BY <1>2 DEF SerialOrder, LastSerialCurrent, MirrorBehind,
         MirrorMissesNothing, mirror
  <1> QED
      BY <1>3, <1>4, <1>5, <1>6 DEF SerialOrder

(* The end of a transaction clears what belongs to its worker. *)
LEMMA EndOrder ==
  ASSUME TypeOK, SerialOrder, NEW t \in Tx, End(t)
  PROVE  /\ AdvisoryHolderWrites'
         /\ RowSerialCurrent'
         /\ UNCHANGED <<seq, mirror>>
         /\ written' = [written EXCEPT ![t] = {}]
  <1>1. AdvisoryHolderWrites'
      BY TxAssumption DEF End, AfterRelease, SerialOrder,
         AdvisoryHolderWrites, TypeOK, SessionType, TableType
  <1>2. RowSerialCurrent'
    <2>1. \A u \in Tx : \/ written'[u] = written[u] /\ rowSerial'[u] = rowSerial[u]
                        \/ written'[u] = {} /\ rowSerial'[u] = [p \in Projects |-> 0]
        BY DEF End, TypeOK, TableType
    <2> QED
        BY <2>1 DEF SerialOrder, RowSerialCurrent
  <1> QED
      BY <1>1, <1>2 DEF End

(* A rollback takes its rows back and leaves a gap.                        *)
LEMMA RollbackOrder ==
  ASSUME TypeOK, SerialOrder, NEW t \in Tx, Rollback(t)
  PROVE  SerialOrder'
  <1>1. /\ AdvisoryHolderWrites' /\ RowSerialCurrent'
        /\ UNCHANGED <<seq, mirror, committed, lastSerial>>
        /\ written' = [written EXCEPT ![t] = {}]
      BY EndOrder DEF Rollback
  <1>2. SerialsAllocated'
      BY <1>1 DEF SerialOrder, SerialsAllocated, TypeOK, TableType
  <1>3. LastSerialCurrent' /\ MirrorBehind' /\ MirrorMissesNothing'
      BY <1>1 DEF SerialOrder, LastSerialCurrent, MirrorBehind,
         MirrorMissesNothing, mirror
  <1> QED
      BY <1>1, <1>2, <1>3 DEF SerialOrder

(* A commit that publishes journal rows is the lock holder's, so its rows  *)
(* are above the visible ones and below whatever anyone inserts later.     *)
LEMMA CommitOrder ==
  ASSUME TypeOK, SerialOrder, NEW t \in Tx, Commit(t)
  PROVE  /\ SerialOrder'
         /\ \A new \in written[t], old \in committed : old.id < new.id
  <1>1. /\ AdvisoryHolderWrites' /\ RowSerialCurrent'
        /\ UNCHANGED <<seq, mirror>>
        /\ written' = [written EXCEPT ![t] = {}]
      BY EndOrder DEF Commit
  <1>2. /\ committed' = committed \cup written[t]
        /\ lastSerial' = [p \in Projects |->
              IF rowSerial[t][p] = 0 THEN lastSerial[p] ELSE rowSerial[t][p]]
      BY DEF Commit
  <1>3. \A new \in written[t], old \in committed : old.id < new.id
      BY DEF SerialOrder, SerialsAllocated
  <1>4. \A e \in Entry : e.id \in Nat /\ e.id # 0
      BY BoundsAssumption DEF Entry
  <1>5. committed \subseteq Entry /\ \A u \in Tx : written[u] \subseteq Entry
      BY DEF TypeOK, TableType
  <1>6. SerialsAllocated'
    <2>1. \A u \in Tx : written'[u] \subseteq written[u] /\ written'[t] = {}
        BY <1>1 DEF TypeOK, TableType
    <2>2. \A u \in Tx \ {t} : written[u] = {} \/ written[t] = {}
        BY DEF SerialOrder, AdvisoryHolderWrites
    <2> QED
        BY <1>1, <1>2, <2>1, <2>2 DEF SerialOrder, SerialsAllocated
  <1>7. LastSerialCurrent'
    <2> SUFFICES ASSUME NEW p \in Projects
                 PROVE  /\ \A e \in committed' :
                              e.name = p => e.id <= lastSerial'[p]
                        /\ lastSerial'[p] # 0
                              => [id |-> lastSerial'[p], name |-> p] \in committed'
        BY DEF LastSerialCurrent
    <2>1. /\ \A e \in written[t] : e.name = p => e.id <= rowSerial[t][p]
          /\ rowSerial[t][p] # 0
                => [id |-> rowSerial[t][p], name |-> p] \in written[t]
          /\ \A e \in committed : e.name = p => e.id <= lastSerial[p]
          /\ lastSerial[p] # 0
                => [id |-> lastSerial[p], name |-> p] \in committed
          /\ rowSerial[t][p] \in Nat /\ lastSerial[p] \in Nat
        BY BoundsAssumption DEF SerialOrder, RowSerialCurrent,
           LastSerialCurrent, TypeOK, TableType
    <2>2. CASE rowSerial[t][p] = 0
      <3>1. \A e \in written[t] : e.name # p
          BY <1>4, <1>5, <2>1, <2>2
      <3> QED
          BY <1>2, <2>1, <2>2, <3>1
    <2>3. CASE rowSerial[t][p] # 0
      <3> DEFINE top == [id |-> rowSerial[t][p], name |-> p]
      <3>1. top \in written[t] /\ top.id = rowSerial[t][p]
          BY <2>1, <2>3
      <3>2. lastSerial'[p] = rowSerial[t][p]
          BY <1>2, <2>3
      <3>3. \A e \in committed : e.id < top.id
          BY <1>3, <3>1
      <3> QED
          BY <1>2, <1>4, <1>5, <2>1, <3>1, <3>2, <3>3
    <2> QED
        BY <2>2, <2>3
  <1>8. MirrorBehind' /\ MirrorMissesNothing'
    <2>1. mirrorSerial \in Ids(committed) \cup {0}
        BY DEF SerialOrder, MirrorBehind
    <2>2. \A new \in written[t] : ~ new.id <= mirrorSerial
      <3> SUFFICES ASSUME NEW new \in written[t] PROVE ~ new.id <= mirrorSerial
          OBVIOUS
      <3>1. new.id \in Nat /\ new.id > 0
          BY <1>4, <1>5
      <3>2. CASE mirrorSerial = 0
          BY <3>1, <3>2
      <3>3. CASE mirrorSerial # 0
        <4>1. PICK old \in committed : mirrorSerial = old.id
            BY <2>1, <3>3 DEF Ids
        <4> QED
            BY <1>3, <1>4, <1>5, <3>1, <4>1
      <3> QED
          BY <3>2, <3>3
    <2>3. MirrorMissesNothing'
        BY <1>1, <1>2, <2>2 DEF SerialOrder, MirrorMissesNothing, mirror
    <2>4. MirrorBehind'
        BY <1>1, <1>2 DEF SerialOrder, MirrorBehind, mirror, Ids
    <2> QED
        BY <2>3, <2>4
  <1> QED
      BY <1>1, <1>3, <1>6, <1>7, <1>8 DEF SerialOrder

(* The mirror asks from a visible serial, and has seen what is below it.   *)
LEMMA MirrorOrder ==
  ASSUME TypeOK, SerialOrder, Mirror
  PROVE  SerialOrder'
  <1>1. UNCHANGED <<pc, session, locks, tables>>
      BY DEF Mirror, IndexSerial, IndexProjects, Poll
  <1>2. /\ AdvisoryHolderWrites' /\ SerialsAllocated' /\ RowSerialCurrent'
        /\ LastSerialCurrent'
      BY <1>1 DEF SerialOrder, AdvisoryHolderWrites, SerialsAllocated,
         RowSerialCurrent, LastSerialCurrent, session, locks, tables
  <1>3. committed' = committed
      BY <1>1 DEF tables
  <1>4. \A e \in committed : e.id \in Nat /\ e.id \in Ids(committed)
      BY BoundsAssumption DEF TypeOK, TableType, Entry, Ids
  <1>5. MirrorBehind' /\ MirrorMissesNothing'
    <2>1. CASE IndexSerial
        BY <1>3, <2>1 DEF IndexSerial, NewestVisible, SerialOrder,
           MirrorBehind, MirrorMissesNothing
    <2>2. CASE IndexProjects
        BY <1>3, <1>4, <2>2 DEF IndexProjects, SerialOrder, MirrorBehind,
           MirrorMissesNothing
    <2>3. CASE Poll
      <3>1. /\ mirrorSerial' \in Ids(committed) /\ indexSerial' = indexSerial
            /\ mirrorSeen' = mirrorSeen \cup Page(mirrorSerial, mirrorSerial')
          BY <2>3 DEF Poll
      <3>2. mirrorSerial \in Nat
          BY BoundsAssumption DEF TypeOK, MirrorType
      <3>3. MirrorMissesNothing'
          BY <1>3, <1>4, <3>1, <3>2 DEF SerialOrder, MirrorMissesNothing, Page
      <3> QED
          BY <1>3, <3>1, <3>3 DEF SerialOrder, MirrorBehind
    <2> QED
        BY <2>1, <2>2, <2>3 DEF Mirror
  <1> QED
      BY <1>2, <1>5 DEF SerialOrder

(* Every step keeps the order of the serials.                              *)
LEMMA OrderStep ==
  ASSUME TypeOK, SerialOrder, [Next]_vars
  PROVE  SerialOrder'
  <1>1. CASE UNCHANGED vars
      BY <1>1, TablesUntouched DEF vars, session, locks, SerialOrder,
         AdvisoryHolderWrites, tables
  <1>2. ASSUME NEW t \in Tx, Request(t) PROVE SerialOrder'
      BY <1>2, RequestOrder
  <1>3. ASSUME NEW t \in Tx, Flush(t) PROVE SerialOrder'
      BY <1>3, QuietFlushOrder, InsertOrder, RollbackOrder
      DEF Flush, SequenceExhausted
  <1>4. ASSUME NEW t \in Tx, Commit(t) PROVE SerialOrder'
      BY <1>4, CommitOrder
  <1>5. ASSUME NEW t \in Tx, Rollback(t) PROVE SerialOrder'
      BY <1>5, RollbackOrder
  <1>6. CASE Mirror
      BY <1>6, MirrorOrder
  <1> QED
      BY <1>1, <1>2, <1>3, <1>4, <1>5, <1>6 DEF Next

-----------------------------------------------------------------------------
(* The theorems. *)

(* Every reachable state satisfies the inductive invariant: the listener   *)
(* ensure_monotonic_journals and the trigger keep the variables in their   *)
(* types, uncommitted serials with the lock holder and above the visible   *)
(* ones.                                                                   *)
THEOREM Invariance == Spec => []IInv
  <1>1. Init => TypeOK /\ SerialOrder
      BY TypeInit, OrderInit
  <1>2. TypeOK /\ SerialOrder /\ [Next]_vars => TypeOK' /\ SerialOrder'
      BY TypeStep, OrderStep DEF SerialOrder
  <1>3. TypeOK /\ SerialOrder => IInv
      BY DEF SerialOrder, IInv
  <1> QED
      BY <1>1, <1>2, <1>3, PTL DEF Spec

(* A mirror that starts from the index and polls changelog_since_serial    *)
(* never passes over a journal entry, however commits interleave with its  *)
(* reads.                                                                  *)
THEOREM MirrorIsComplete == Spec => []MirrorMissesNothing
  <1>1. IInv => MirrorMissesNothing
      BY DEF IInv
  <1> QED
      BY Invariance, <1>1, PTL

(* projects.last_serial, which the simple API and the JSON API send as     *)
(* X-PyPI-Last-Serial, is the newest visible serial of the project.        *)
THEOREM LastSerialIsNewest == Spec => []LastSerialCurrent
  <1>1. IInv => LastSerialCurrent
      BY DEF IInv
  <1> QED
      BY Invariance, <1>1, PTL

(* What one step can do to the visible entries, in the terms of Changelog. *)
LEMMA StepPublishes ==
  ASSUME IInv, Next
  PROVE  \/ UNCHANGED <<committed, mirrorSerial, mirrorSeen>>
         \/ Abstract!Publish /\ \A new \in committed' \ committed,
                                   old \in committed : old.id < new.id
         \/ UNCHANGED committed /\ (Abstract!Snapshot \/ Abstract!Poll)
  <1> USE DEF Abstract!Ids, Ids
  <1>1. TypeOK /\ SerialOrder
      BY DEF IInv, SerialOrder
  <1>2. ASSUME NEW t \in Tx, Commit(t)
        PROVE  Abstract!Publish /\ \A new \in committed' \ committed,
                                      old \in committed : old.id < new.id
    <2>1. \A new \in written[t], old \in committed : old.id < new.id
        BY <1>1, <1>2, CommitOrder
    <2>2. written[t] \in SUBSET Abstract!Entry
        BY <1>1 DEF TypeOK, TableType, Entry, Abstract!Entry
    <2>3. /\ committed' = committed \cup written[t]
          /\ UNCHANGED <<mirrorSerial, mirrorSeen>>
        BY <1>2 DEF Commit, End, mirror
    <2> QED
        BY <2>1, <2>2, <2>3 DEF Abstract!Publish
  <1>3. ASSUME NEW t \in Tx, Request(t) \/ Flush(t) \/ Rollback(t)
        PROVE  UNCHANGED <<committed, mirrorSerial, mirrorSeen>>
      BY <1>3 DEF Request, Begin, AddJournal, AddWrite, AddDelete, BeginCommit,
         Flush, BeforeFlush, LockRow, LockAdvisory, ExecuteWrite,
         InsertJournal, SequenceExhausted, ExecuteDelete, AfterFlush,
         Rollback, End, tables, mirror
  <1>4. CASE IndexSerial
      BY <1>4 DEF IndexSerial, tables
  <1>5. CASE IndexProjects
      BY <1>1, <1>5 DEF IndexProjects, tables, SerialOrder, MirrorBehind,
         Abstract!Snapshot
  <1>6. CASE Poll
    <2>1. UNCHANGED committed
        BY <1>6 DEF Poll, tables
    <2>2. Abstract!Poll
        BY <1>6, <2>1 DEF Poll, Page, Abstract!Poll
    <2> QED
        BY <2>1, <2>2
  <1> QED
      BY <1>2, <1>3, <1>4, <1>5, <1>6 DEF Next, Mirror

(* Journal entries become visible in the order of their serials.           *)
THEOREM CommitsInSerialOrder == Spec => SerialsInCommitOrder
  <1>1. IInv /\ [Next]_vars
           => [\A new \in committed' \ committed, old \in committed :
                  old.id < new.id]_committed
      BY StepPublishes DEF vars, tables
  <1> QED
      BY Invariance, <1>1, PTL DEF Spec, SerialsInCommitOrder

(* The transactions, locks and triggers implement the changelog that the   *)
(* mirroring documentation relies on.                                      *)
THEOREM RefinesChangelog == Spec => ImplementsChangelog
  <1>1. Init => Abstract!Init
      BY DEF Init, Abstract!Init
  <1>2. IInv /\ [Next]_vars => [Abstract!Next]_(Abstract!vars)
      BY StepPublishes
      DEF vars, tables, mirror, Abstract!Next, Abstract!vars
  <1> QED
      BY Invariance, <1>1, <1>2, PTL
      DEF Spec, ImplementsChangelog, Abstract!Spec

-----------------------------------------------------------------------------
(* Deferring loses no journal entry.                                       *)
Conserved ==
    \A t \in Tx :
       /\ added[t] = Len(pending[t]) + Len(deferred[t]) + Cardinality(written[t])
       /\ IsFiniteSet(written[t])

LEMMA ConservedInit == Init => Conserved
  BY FS_EmptySet DEF Init, Conserved

(* A step that inserts nothing and moves the entries of one worker's       *)
(* session, or ends its transaction.                                       *)
LEMMA ConservedKept ==
  ASSUME TypeOK, Conserved, NEW t \in Tx,
         \A u \in Tx \ {t} : /\ added'[u] = added[u] /\ pending'[u] = pending[u]
                             /\ deferred'[u] = deferred[u] /\ written'[u] = written[u],
         \/ /\ written'[t] = written[t]
            /\ added'[t] + (Len(pending[t]) + Len(deferred[t]))
                  = added[t] + (Len(pending'[t]) + Len(deferred'[t]))
            /\ added'[t] \in Nat /\ Len(pending'[t]) \in Nat /\ Len(deferred'[t]) \in Nat
         \/ added'[t] = 0 /\ pending'[t] = <<>> /\ deferred'[t] = <<>> /\ written'[t] = {}
  PROVE  Conserved'
  <1>1. ASSUME NEW u \in Tx, u # t
        PROVE  /\ added'[u] = Len(pending'[u]) + Len(deferred'[u]) + Cardinality(written'[u])
               /\ IsFiniteSet(written'[u])
      BY <1>1 DEF Conserved
  <1>2. CASE added'[t] = 0 /\ pending'[t] = <<>> /\ deferred'[t] = <<>> /\ written'[t] = {}
    <2>1. Len(pending'[t]) = 0 /\ Len(deferred'[t]) = 0 /\ Cardinality(written'[t]) = 0
        BY <1>2, FS_EmptySet
    <2>2. added'[t] = Len(pending'[t]) + Len(deferred'[t]) + Cardinality(written'[t])
        BY <1>2, <2>1
    <2>3. IsFiniteSet(written'[t])
        BY <1>2, FS_EmptySet
    <2> QED
        BY <1>1, <2>2, <2>3 DEF Conserved
  <1>3. CASE /\ written'[t] = written[t]
             /\ added'[t] + (Len(pending[t]) + Len(deferred[t]))
                  = added[t] + (Len(pending'[t]) + Len(deferred'[t]))
             /\ added'[t] \in Nat /\ Len(pending'[t]) \in Nat /\ Len(deferred'[t]) \in Nat
    <2>1. /\ added[t] = Len(pending[t]) + Len(deferred[t]) + Cardinality(written[t])
          /\ IsFiniteSet(written[t]) /\ Cardinality(written[t]) \in Nat
        BY FS_CardinalityType DEF Conserved
    <2>2. added[t] \in Nat /\ Len(pending[t]) \in Nat /\ Len(deferred[t]) \in Nat
        BY DEF TypeOK, SessionType
    <2>3. added'[t] = Len(pending'[t]) + Len(deferred'[t]) + Cardinality(written'[t])
      <3> DEFINE a0 == added[t]     a1 == added'[t]
                 p0 == Len(pending[t])   p1 == Len(pending'[t])
                 d0 == Len(deferred[t])  d1 == Len(deferred'[t])
                 c == Cardinality(written[t])
      <3>1. /\ a0 \in Nat /\ a1 \in Nat /\ p0 \in Nat /\ p1 \in Nat /\ d0 \in Nat /\ d1 \in Nat
            /\ c \in Nat /\ a1 + (p0 + d0) = a0 + (p1 + d1) /\ a0 = p0 + d0 + c
          BY <1>3, <2>1, <2>2
      <3>2. a1 = p1 + d1 + c
        <4> HIDE DEF a0, a1, p0, p1, d0, d1, c
        <4> QED
            BY <3>1
      <3> QED
          BY <1>3, <3>2
    <2> QED
        BY <1>1, <1>3, <2>1, <2>3 DEF Conserved
  <1> QED
      BY <1>2, <1>3

LEMMA ConservedRequest ==
  ASSUME TypeOK, Conserved, NEW t \in Tx, Request(t)
  PROVE  Conserved'
  <1>1. CASE \E p \in Projects : AddJournal(t, p)
    <2>1. PICK p \in Projects : AddJournal(t, p)
        BY <1>1
    <2>2. pending[t] \in Seq(Projects) /\ added[t] \in Nat /\ Len(deferred[t]) \in Nat
        BY DEF TypeOK, SessionType
    <2>3. /\ added'[t] = added[t] + 1 /\ pending'[t] = Append(pending[t], p)
          /\ deferred'[t] = deferred[t] /\ written'[t] = written[t]
        BY <2>1 DEF AddJournal, tables, TypeOK, SessionType
    <2>4. Len(pending'[t]) = Len(pending[t]) + 1 /\ Len(pending[t]) \in Nat
        BY <2>2, <2>3
    <2>5. \A u \in Tx \ {t} : /\ added'[u] = added[u] /\ pending'[u] = pending[u]
                              /\ deferred'[u] = deferred[u] /\ written'[u] = written[u]
        BY <2>1 DEF AddJournal, tables, TypeOK, SessionType
    <2>6. /\ added'[t] + (Len(pending[t]) + Len(deferred[t]))
                = added[t] + (Len(pending'[t]) + Len(deferred'[t]))
          /\ added'[t] \in Nat /\ Len(pending'[t]) \in Nat /\ Len(deferred'[t]) \in Nat
      <3> DEFINE a0 == added[t]     a1 == added'[t]
                 p0 == Len(pending[t])   p1 == Len(pending'[t])
                 d0 == Len(deferred[t])  d1 == Len(deferred'[t])
      <3>1. /\ a0 \in Nat /\ p0 \in Nat /\ d0 \in Nat
            /\ a1 = a0 + 1 /\ p1 = p0 + 1 /\ d1 = d0
          BY <2>2, <2>3, <2>4
      <3>2. a1 + (p0 + d0) = a0 + (p1 + d1) /\ a1 \in Nat /\ p1 \in Nat /\ d1 \in Nat
        <4> HIDE DEF a0, a1, p0, p1, d0, d1
        <4> QED
            BY <3>1
      <3> QED
          BY <3>2
    <2> QED
        BY <2>3, <2>5, <2>6, ConservedKept
  <1>2. CASE ~\E p \in Projects : AddJournal(t, p)
    <2>1. UNCHANGED <<added, pending, deferred, written>>
        BY <1>2 DEF Request, Begin, AddWrite, AddDelete, BeginCommit, session, tables
    <2> QED
        BY <2>1 DEF Conserved
  <1> QED
      BY <1>1, <1>2

LEMMA ConservedFlush ==
  ASSUME TypeOK, SerialOrder, Conserved, NEW t \in Tx, Flush(t), ~SequenceExhausted(t)
  PROVE  Conserved'
  <1>0. /\ pending[t] \in Seq(Projects) /\ deferred[t] \in Seq(Projects) /\ added[t] \in Nat
        /\ Len(pending[t]) \in Nat /\ Len(deferred[t]) \in Nat
      BY DEF TypeOK, SessionType
  <1>1. CASE BeforeFlush(t) /\ deferred' = [deferred EXCEPT ![t] = @ \o pending[t]]
                            /\ pending' = [pending EXCEPT ![t] = <<>>]
    <2>1. UNCHANGED <<added, written>>
        BY <1>1 DEF BeforeFlush, tables
    <2>2. /\ deferred'[t] = deferred[t] \o pending[t] /\ pending'[t] = <<>>
          /\ \A u \in Tx \ {t} : deferred'[u] = deferred[u] /\ pending'[u] = pending[u]
        BY <1>1 DEF TypeOK, SessionType
    <2>3. Len(deferred'[t]) = Len(deferred[t]) + Len(pending[t]) /\ Len(pending'[t]) = 0
        BY <1>0, <2>2, ConcatProperties
    <2>4. /\ added'[t] + (Len(pending[t]) + Len(deferred[t]))
                = added[t] + (Len(pending'[t]) + Len(deferred'[t]))
          /\ added'[t] \in Nat /\ Len(pending'[t]) \in Nat /\ Len(deferred'[t]) \in Nat
      <3> DEFINE a0 == added[t]     a1 == added'[t]
                 p0 == Len(pending[t])   p1 == Len(pending'[t])
                 d0 == Len(deferred[t])  d1 == Len(deferred'[t])
      <3>1. /\ a0 \in Nat /\ p0 \in Nat /\ d0 \in Nat
            /\ a1 = a0 /\ p1 = 0 /\ d1 = d0 + p0
          BY <1>0, <2>1, <2>3
      <3>2. a1 + (p0 + d0) = a0 + (p1 + d1) /\ a1 \in Nat /\ p1 \in Nat /\ d1 \in Nat
        <4> HIDE DEF a0, a1, p0, p1, d0, d1
        <4> QED
            BY <3>1
      <3> QED
          BY <3>2
    <2> QED
        BY <2>1, <2>2, <2>4, ConservedKept
  <1>2. CASE \/ BeforeFlush(t) /\ UNCHANGED <<pending, deferred>>
             \/ LockRow(t) \/ LockAdvisory(t) \/ ExecuteWrite(t) \/ ExecuteDelete(t)
    <2>1. UNCHANGED <<added, pending, deferred, written>>
        BY <1>2 DEF BeforeFlush, LockRow, LockAdvisory, ExecuteWrite, ExecuteDelete, session, tables
    <2> QED
        BY <2>1 DEF Conserved
  <1>3. CASE InsertJournal(t)
    <2> DEFINE new == [id |-> seq + 1, name |-> Head(pending[t])]
    <2>1. /\ written' = [written EXCEPT ![t] = @ \cup {new}]
          /\ pending' = [pending EXCEPT ![t] = Tail(@)] /\ pending[t] # <<>>
          /\ UNCHANGED <<added, deferred>>
        BY <1>3, InsertedSerial DEF SerialOrder, InsertJournal
    <2>2. new.id = seq + 1 /\ seq \in Nat /\ \A e \in written[t] : e.id <= seq
        BY BoundsAssumption DEF SerialOrder, SerialsAllocated, TypeOK, TableType
    <2> HIDE DEF new
    <2>3. new \notin written[t]
        BY <2>2
    <2>4. /\ written'[t] = written[t] \cup {new} /\ pending'[t] = Tail(pending[t])
          /\ \A u \in Tx \ {t} : written'[u] = written[u] /\ pending'[u] = pending[u]
        BY <2>1 DEF TypeOK, SessionType, TableType
    <2>5. Len(pending'[t]) = Len(pending[t]) - 1
        BY <1>0, <2>1, <2>4, HeadTailProperties
    <2>6. IsFiniteSet(written[t]) /\ Cardinality(written[t]) \in Nat
        BY FS_CardinalityType DEF Conserved
    <2>7. IsFiniteSet(written'[t]) /\ Cardinality(written'[t]) = Cardinality(written[t]) + 1
      <3>1. /\ IsFiniteSet(written[t] \cup {new})
            /\ Cardinality(written[t] \cup {new}) = Cardinality(written[t]) + 1
          BY ONLY <2>3, <2>6, FS_AddElement
      <3> QED
          BY ONLY <2>4, <3>1
    <2>8. added[t] = Len(pending[t]) + Len(deferred[t]) + Cardinality(written[t])
        BY DEF Conserved
    <2>9. added'[t] = added[t] /\ deferred'[t] = deferred[t]
        BY <2>1
    <2>10. added'[t] = Len(pending'[t]) + Len(deferred'[t]) + Cardinality(written'[t])
      <3> DEFINE a0 == added[t]     a1 == added'[t]
                 p0 == Len(pending[t])   p1 == Len(pending'[t])
                 d0 == Len(deferred[t])  d1 == Len(deferred'[t])
                 c0 == Cardinality(written[t])   c1 == Cardinality(written'[t])
      <3>1. /\ a0 \in Nat /\ p0 \in Nat /\ d0 \in Nat /\ c0 \in Nat
            /\ a0 = p0 + d0 + c0 /\ a1 = a0 /\ p1 = p0 - 1 /\ d1 = d0 /\ c1 = c0 + 1
          BY <1>0, <2>5, <2>6, <2>7, <2>8, <2>9
      <3>2. a1 = p1 + d1 + c1
        <4> HIDE DEF a0, a1, p0, p1, d0, d1, c0, c1
        <4> QED
            BY <3>1
      <3> QED
          BY <3>2
    <2> QED
        BY <2>1, <2>4, <2>7, <2>10 DEF Conserved
  <1>4. CASE AfterFlush(t)
    <2>1. /\ pending[t] = <<>> /\ pending'[t] = deferred[t] /\ deferred'[t] = <<>>
          /\ \A u \in Tx \ {t} : deferred'[u] = deferred[u] /\ pending'[u] = pending[u]
          /\ UNCHANGED <<added, written>>
        BY <1>4 DEF AfterFlush, Clean, Restored, tables, TypeOK, SessionType
    <2>2. Len(pending[t]) = 0 /\ Len(deferred'[t]) = 0 /\ Len(pending'[t]) = Len(deferred[t])
        BY <2>1
    <2>3. /\ added'[t] + (Len(pending[t]) + Len(deferred[t]))
                = added[t] + (Len(pending'[t]) + Len(deferred'[t]))
          /\ added'[t] \in Nat /\ Len(pending'[t]) \in Nat /\ Len(deferred'[t]) \in Nat
        BY <1>0, <2>1, <2>2
    <2> QED
        BY <2>1, <2>3, ConservedKept
  <1> QED
      BY <1>1, <1>2, <1>3, <1>4 DEF Flush, BeforeFlush

LEMMA ConservedStep ==
  ASSUME TypeOK, SerialOrder, Conserved, [Next]_vars
  PROVE  Conserved'
  <1>1. ASSUME NEW t \in Tx, End(t) PROVE Conserved'
    <2>1. /\ added'[t] = 0 /\ pending'[t] = <<>> /\ deferred'[t] = <<>> /\ written'[t] = {}
          /\ \A u \in Tx \ {t} : /\ added'[u] = added[u] /\ pending'[u] = pending[u]
                                 /\ deferred'[u] = deferred[u] /\ written'[u] = written[u]
        BY <1>1 DEF End, TypeOK, SessionType, TableType
    <2> QED
        BY <2>1, ConservedKept
  <1>2. CASE Mirror \/ UNCHANGED vars
    <2>1. UNCHANGED <<added, pending, deferred, written>>
        BY <1>2 DEF Mirror, IndexSerial, IndexProjects, Poll, vars, session, tables
    <2> QED
        BY <2>1 DEF Conserved
  <1> QED
      BY <1>1, <1>2, ConservedRequest, ConservedFlush
      DEF Next, Commit, Rollback, SequenceExhausted

(* No journal entry that a request added is lost by flushes that defer it, *)
(* and none is inserted twice (_restore_deferred_journals).                *)
THEOREM DeferringConserves == Spec => []JournalsConserved
  <1>1. Init => TypeOK /\ SerialOrder /\ Conserved
      BY TypeInit, OrderInit, ConservedInit
  <1>2. TypeOK /\ SerialOrder /\ Conserved /\ [Next]_vars
           => TypeOK' /\ SerialOrder' /\ Conserved'
      BY TypeStep, OrderStep, ConservedStep DEF SerialOrder
  <1>3. Conserved => JournalsConserved
      BY DEF Conserved, JournalsConserved
  <1> QED
      BY <1>1, <1>2, <1>3, PTL DEF Spec

-----------------------------------------------------------------------------
(* No deadlock among the requests of RequestLocks: their scripts.          *)

LEMMA ConsFacts ==
  ASSUME NEW op \in Ops, NEW s \in Seq(Ops)
  PROVE  /\ Cons(op, s) \in Seq(Ops) /\ Cons(op, s) # <<>>
         /\ Head(Cons(op, s)) = op /\ Tail(Cons(op, s)) = s
  BY DEF Cons

(* A session's lists grow and shrink as one expects. *)
LEMMA ListFacts ==
  ASSUME NEW a \in Mild, NEW b \in Mild, NEW c \in Mild
  PROVE  /\ Append(<<>>, a) = <<a>>
         /\ Append(<<a>>, b) = <<a, b>>
         /\ Append(<<a, b>>, c) = <<a, b, c>>
         /\ Head(<<a>>) = a /\ Tail(<<a>>) = <<>>
         /\ Head(<<a, b>>) = a /\ Tail(<<a, b>>) = <<b>>
         /\ Head(<<a, b, c>>) = a /\ Tail(<<a, b, c>>) = <<b, c>>
         /\ <<a>> # <<>> /\ <<a, b>> # <<>> /\ <<a, b, c>> # <<>>
  <1>1. /\ <<>> \in Seq(Mild) /\ <<a>> \in Seq(Mild) /\ <<a, b>> \in Seq(Mild)
        /\ <<a, b, c>> \in Seq(Mild)
      OBVIOUS
  <1>2. Append(<<>>, a) = <<a>>
      BY <1>1, AppendProperties, SeqEqual
  <1>3. Append(<<a>>, b) = <<a, b>>
    <2> DEFINE l == Append(<<a>>, b)
    <2>1. l \in Seq(Mild) /\ Len(l) = 2 /\ l[2] = b /\ l[1] = <<a>>[1]
        BY <1>1, AppendProperties
    <2>2. \A i \in 1..Len(l) : l[i] = <<a, b>>[i]
        BY <2>1
    <2> QED
        BY <2>1, <2>2, <1>1, SeqEqual
  <1>4. Append(<<a, b>>, c) = <<a, b, c>>
    <2> DEFINE l == Append(<<a, b>>, c)
    <2>1. l \in Seq(Mild) /\ Len(l) = 3 /\ l[3] = c
        BY <1>1, AppendProperties
    <2>2. l[1] = <<a, b>>[1] /\ l[2] = <<a, b>>[2]
        BY <1>1, AppendProperties
    <2>3. \A i \in 1..Len(l) : l[i] = <<a, b, c>>[i]
        BY <2>1, <2>2
    <2> QED
        BY <2>1, <2>3, <1>1, SeqEqual
  <1> QED
      BY <1>2, <1>3, <1>4

LEMMA OneLock ==
  ASSUME NEW a \in Mild
  PROVE  Append(<<>>, a) = <<a>> /\ Head(<<a>>) = a /\ Tail(<<a>>) = <<>> /\ <<a>> # <<>>
  BY ListFacts

LEMMA TwoLocks ==
  ASSUME NEW a \in Mild, NEW b \in Mild
  PROVE  /\ Append(<<a>>, b) = <<a, b>>
         /\ Head(<<a, b>>) = a /\ Tail(<<a, b>>) = <<b>> /\ <<a, b>> # <<>>
  BY ListFacts

LEMMA ThreeLocks ==
  ASSUME NEW a \in Mild, NEW b \in Mild, NEW c \in Mild
  PROVE  /\ Append(<<a, b>>, c) = <<a, b, c>>
         /\ Head(<<a, b, c>>) = a /\ Tail(<<a, b, c>>) = <<b, c>> /\ <<a, b, c>> # <<>>
  <1>1. Append(<<a, b>>, c) = <<a, b, c>>
      BY ListFacts, Zenon
  <1>2. Head(<<a, b, c>>) = a /\ Tail(<<a, b, c>>) = <<b, c>> /\ <<a, b, c>> # <<>>
      OBVIOUS
  <1> QED
      BY <1>1, <1>2

(* What a request is made of, as lists that shrink from the front. *)
LEMMA ConsConcat ==
  \A op \in Ops : \A s, z \in Seq(Ops) : Cons(op, s) \o z = Cons(op, s \o z)
  BY ConcatAssociative DEF Cons

LEMMA ConsHeadTail ==
  ASSUME NEW S, NEW s \in Seq(S), s # <<>>
  PROVE  s = Cons(Head(s), Tail(s))
  <1> DEFINE l == Cons(Head(s), Tail(s))
  <1>1. /\ Head(s) \in S /\ Tail(s) \in Seq(S) /\ Len(Tail(s)) = Len(s) - 1
        /\ Head(s) = s[1] /\ Len(s) \in Nat \ {0}
        /\ \A i \in 1..Len(Tail(s)) : Tail(s)[i] = s[i + 1]
      BY HeadTailProperties, EmptySeq
  <1>2. <<Head(s)>> \in Seq(S) /\ Len(<<Head(s)>>) = 1 /\ <<Head(s)>>[1] = s[1]
      BY <1>1
  <1>3. /\ l \in Seq(S) /\ Len(l) = Len(s)
        /\ \A i \in 1..Len(s) :
              l[i] = IF i <= 1 THEN <<Head(s)>>[i] ELSE Tail(s)[i - 1]
      BY <1>1, <1>2, ConcatProperties DEF Cons
  <1>4. ASSUME NEW i \in 1..Len(s) PROVE s[i] = l[i]
    <2>1. CASE i = 1
        BY <2>1, <1>2, <1>3
    <2>2. CASE i # 1
      <3>1. i - 1 \in 1..Len(Tail(s)) /\ i - 1 + 1 = i
          BY <2>2, <1>1
      <3>2. Tail(s)[i - 1] = s[i]
          BY <3>1, <1>1
      <3> QED
          BY <2>2, <3>2, <1>3
    <2> QED
        BY <2>1, <2>2
  <1> QED
      BY <1>3, <1>4, SeqEqual

LEMMA Prepended ==
  ASSUME NEW s \in Seq(Ops), NEW z \in Seq(Ops), s # <<>>
  PROVE  s \o z = Cons(Head(s), Tail(s) \o z)
  <1>1. Head(s) \in Ops /\ Tail(s) \in Seq(Ops)
      BY HeadTailProperties
  <1>2. Cons(Head(s), Tail(s)) \o z = Cons(Head(s), Tail(s) \o z)
      BY <1>1, ConsConcat
  <1>3. s = Cons(Head(s), Tail(s))
      BY ConsHeadTail
  <1> QED
      BY <1>2, <1>3, Zenon

-----------------------------------------------------------------------------
(* The kinds of rows, and the operations on them. *)

LEMMA RowFacts ==
  ASSUME NEW p \in Projects
  PROVE  /\ p \in Rows /\ EventsRow \in Rows /\ p # EventsRow
         /\ ReleasesRow[p] \in Rows /\ FilesRow[p] \in Rows
         /\ ReleasesRow[p] \in Deletable /\ FilesRow[p] \in Deletable
         /\ p \in Deletable
         /\ Strongest(p) = 2 /\ Strongest(EventsRow) = 1
         /\ Strongest(ReleasesRow[p]) = 3 /\ Strongest(FilesRow[p]) = 3
         /\ Rank(p) = 4 /\ Rank(ReleasesRow[p]) = 2 /\ Rank(FilesRow[p]) = 3
         /\ ReleasesRow[p] \notin Projects /\ FilesRow[p] \notin Projects
         /\ ReleasesRow[p] # EventsRow /\ FilesRow[p] # EventsRow
  <1>1. /\ ReleasesRow[p] \in ReleasesRows /\ FilesRow[p] \in FilesRows
      BY DEF ReleasesRows, FilesRows
  <1>2. /\ p \in Rows /\ EventsRow \in Rows /\ ReleasesRow[p] \in Rows
        /\ FilesRow[p] \in Rows
        /\ ReleasesRow[p] \in Deletable /\ FilesRow[p] \in Deletable
        /\ p \in Deletable
      BY <1>1, KindsAssumption, RowsAssumption, HandlersAssumption
  <1>3. /\ p # EventsRow
        /\ ReleasesRow[p] \notin Projects \cup {EventsRow}
        /\ FilesRow[p] \notin Projects \cup {EventsRow}
      BY <1>1, DistinctKindsAssumption DEF Disjoint
  <1>4. /\ p \notin VersionRows \cup OldFileRows /\ p \notin ReleasesRows
        /\ p \notin NewFileRows \cup FilesRows
      BY DistinctKindsAssumption DEF Disjoint
  <1>5. /\ ReleasesRow[p] \notin VersionRows \cup OldFileRows
        /\ FilesRow[p] \notin VersionRows \cup OldFileRows \cup ReleasesRows
      BY <1>1, DistinctKindsAssumption DEF Disjoint
  <1> QED
      BY <1>1, <1>2, <1>3, <1>4, <1>5
      DEF Rank, Strongest, KeyShare, NoKeyUpdate, Update

LEMMA VersionFacts ==
  ASSUME NEW p \in Projects, NEW u \in DOMAIN VersionRow[p]
  PROVE  /\ VersionRow[p][u] \in Rows /\ Strongest(VersionRow[p][u]) = 3
         /\ Rank(VersionRow[p][u]) = 1
         /\ VersionRow[p][u] \notin Projects \cup {EventsRow}
         /\ u \in DOMAIN FileRow[p] /\ Rank(FileRow[p][u]) = 3
  <1>1. VersionRow[p][u] \in VersionRows /\ FileRow[p][u] \in NewFileRows
      BY DEF VersionRows, NewFileRows
  <1>2. VersionRow[p][u] \in Rows /\ u \in DOMAIN FileRow[p]
      BY <1>1, KindsAssumption
  <1>3. /\ VersionRow[p][u] \notin Projects \cup {EventsRow}
        /\ FileRow[p][u] \notin VersionRows \cup OldFileRows
        /\ FileRow[p][u] \notin ReleasesRows
      BY <1>1, DistinctKindsAssumption DEF Disjoint
  <1> QED
      BY <1>1, <1>2, <1>3 DEF Rank, Strongest, Update

LEMMA FileFacts ==
  ASSUME NEW p \in Projects, NEW u \in DOMAIN FileRow[p]
  PROVE  /\ FileRow[p][u] \in Rows /\ Strongest(FileRow[p][u]) = 3
         /\ FileRow[p][u] \notin Projects \cup {EventsRow}
         /\ u \notin DOMAIN VersionRow[p] => Rank(FileRow[p][u]) = 1
  <1>1. /\ u \in DOMAIN VersionRow[p] => FileRow[p][u] \in NewFileRows
        /\ u \notin DOMAIN VersionRow[p] => FileRow[p][u] \in OldFileRows
      BY DEF OldFileRows, NewFileRows
  <1>2. FileRow[p][u] \in Rows
      BY <1>1, KindsAssumption
  <1>3. FileRow[p][u] \notin Projects \cup {EventsRow}
      BY <1>1, DistinctKindsAssumption DEF Disjoint
  <1> QED
      BY <1>1, <1>2, <1>3 DEF Rank, Strongest, Update

LEMMA OpFacts ==
  ASSUME NEW p \in Projects
  PROVE  /\ Journal(p) \in Ops /\ Query(p) \in Ops /\ Store(p) \in Ops
         /\ RecordEvent \in Ops
         /\ Write(p, KeyShare) \in Ops /\ Write(p, NoKeyUpdate) \in Ops
         /\ Write(ReleasesRow[p], KeyShare) \in Ops
         /\ Write(ReleasesRow[p], NoKeyUpdate) \in Ops
         /\ Write(ReleasesRow[p], Update) \in Ops
         /\ Delete(p, NoKeyUpdate) \in Ops
         /\ Delete(ReleasesRow[p], Update) \in Ops
         /\ Delete(FilesRow[p], Update) \in Ops
         /\ Write(FilesRow[p], NoKeyUpdate) \in Ops
         /\ \A u \in DOMAIN VersionRow[p] :
               Write(VersionRow[p][u], Update) \in Ops
         /\ \A u \in DOMAIN FileRow[p] : Write(FileRow[p][u], Update) \in Ops
  <1> USE RowFacts DEF KeyShare, NoKeyUpdate, Update
  <1>1. Journal(p) \in Ops /\ Query(p) \in Ops /\ Store(p) \in Ops
      BY DEF Ops, Journal, Query, Store
  <1>2. /\ RecordEvent \in Ops
        /\ Write(p, KeyShare) \in Ops /\ Write(p, NoKeyUpdate) \in Ops
        /\ Write(ReleasesRow[p], KeyShare) \in Ops
        /\ Write(ReleasesRow[p], NoKeyUpdate) \in Ops
        /\ Write(ReleasesRow[p], Update) \in Ops
        /\ Write(FilesRow[p], NoKeyUpdate) \in Ops
      BY DEF Ops, RecordEvent, Write
  <1>3. /\ Delete(p, NoKeyUpdate) \in Ops
        /\ Delete(ReleasesRow[p], Update) \in Ops
        /\ Delete(FilesRow[p], Update) \in Ops
      BY DEF Ops, Delete
  <1>4. \A u \in DOMAIN VersionRow[p] : Write(VersionRow[p][u], Update) \in Ops
      BY VersionFacts DEF Ops, Write
  <1>5. \A u \in DOMAIN FileRow[p] : Write(FileRow[p][u], Update) \in Ops
      BY FileFacts DEF Ops, Write
  <1> QED
      BY <1>1, <1>2, <1>3, <1>4, <1>5

LEMMA RowLocks ==
  ASSUME NEW r, NEW m
  PROVE  Lock(r, m).row = r /\ Lock(r, m).mode = m
  BY DEF Lock

LEMMA LockFacts ==
  ASSUME NEW p \in Projects
  PROVE  /\ EventLock \in Mild /\ ReferenceLock(p) \in Mild
         /\ ProjectLock(p) \in Mild /\ FilesLock(p) \in Mild
         /\ CachedLock(p) \in Mild /\ VerifiedLock(p) \in Mild
         /\ \A m \in 1..3 : ReleasesLock(p, m) \in Mild
         /\ \A u \in DOMAIN VersionRow[p] : VersionLock(p, u) \in Mild
         /\ \A u \in DOMAIN FileRow[p] : NameLock(p, u) \in Mild
  <1> USE RowFacts
      DEF KeyShare, NoKeyUpdate, Update, Mild, RowLock, Lock
  <1>1. \A u \in DOMAIN VersionRow[p] : VersionLock(p, u) \in Mild
      BY VersionFacts DEF VersionLock
  <1>2. \A u \in DOMAIN FileRow[p] : NameLock(p, u) \in Mild
      BY FileFacts DEF NameLock
  <1> QED
      BY <1>1, <1>2
      DEF EventLock, ReferenceLock, ProjectLock, FilesLock, CachedLock,
          VerifiedLock, ReleasesLock

-----------------------------------------------------------------------------
(* The scripts, each as what it starts with and what is left after it. *)

LEMMA EndFacts ==
  ASSUME NEW p \in Projects
  PROVE  /\ <<>> \in Seq(Ops) /\ LastQuery(p) \in Seq(Ops)
         /\ TwoQueries(p) \in Seq(Ops) /\ OneEntry(p) \in Seq(Ops)
         /\ TwoEntries(p) \in Seq(Ops)
  <1>1. <<>> \in Seq(Ops)
      OBVIOUS
  <1> QED
      BY <1>1, ConsFacts, OpFacts
      DEF LastQuery, TwoQueries, OneEntry, TwoEntries

LEMMA UploadFacts ==
  ASSUME NEW p \in Projects, NEW u \in DOMAIN FileRow[p], NEW z \in Seq(Ops)
  PROVE  /\ Stored(p, z) \in Seq(Ops) /\ Sized(p, z) \in Seq(Ops)
         /\ Referenced(p, z) \in Seq(Ops) /\ Named(p, u, z) \in Seq(Ops)
         /\ AddFile(p, u) \o z = Named(p, u, z)
  <1> DEFINE a == Write(FileRow[p][u], Update)
             b == Write(ReleasesRow[p], KeyShare)
             c == Write(p, NoKeyUpdate)
             d == Store(p)
  <1>1. a \in Ops /\ b \in Ops /\ c \in Ops /\ d \in Ops /\ <<>> \in Seq(Ops)
      BY OpFacts
  <1>2. AddFile(p, u) = <<a, b, c, d>>
      BY DEF AddFile
  <1>3. /\ Stored(p, z) = Cons(d, z) /\ Sized(p, z) = Cons(c, Stored(p, z))
        /\ Referenced(p, z) = Cons(b, Sized(p, z))
        /\ Named(p, u, z) = Cons(a, Referenced(p, z))
      BY DEF Stored, Sized, Referenced, Named
  <1> HIDE DEF a, b, c, d
  <1>4. /\ Stored(p, z) \in Seq(Ops) /\ Sized(p, z) \in Seq(Ops)
        /\ Referenced(p, z) \in Seq(Ops) /\ Named(p, u, z) \in Seq(Ops)
      BY <1>1, <1>3, ConsFacts
  <1>5. <<a, b, c, d>> \o z = Cons(a, Cons(b, Cons(c, Cons(d, z))))
    <2> DEFINE s1 == <<a, b, c, d>>
               s2 == <<b, c, d>>
               s3 == <<c, d>>
               s4 == <<d>>
    <2>1. /\ s1 \in Seq(Ops) /\ s1 # <<>>
          /\ Head(s1) = a /\ Tail(s1) = s2
          /\ s2 \in Seq(Ops) /\ s2 # <<>>
          /\ Head(s2) = b /\ Tail(s2) = s3
          /\ s3 \in Seq(Ops) /\ s3 # <<>>
          /\ Head(s3) = c /\ Tail(s3) = s4
          /\ s4 \in Seq(Ops) /\ s4 # <<>>
          /\ Head(s4) = d /\ Tail(s4) = <<>>
        BY <1>1
    <2> HIDE DEF s1, s2, s3, s4
    <2>2. /\ s4 \o z = Cons(d, <<>> \o z) /\ s3 \o z = Cons(c, s4 \o z)
          /\ s2 \o z = Cons(b, s3 \o z) /\ s1 \o z = Cons(a, s2 \o z)
      <3>1. s4 \o z = Cons(Head(s4), Tail(s4) \o z)
          BY <2>1, Prepended
      <3>2. s3 \o z = Cons(Head(s3), Tail(s3) \o z)
          BY <2>1, Prepended
      <3>3. s2 \o z = Cons(Head(s2), Tail(s2) \o z)
          BY <2>1, Prepended
      <3>4. s1 \o z = Cons(Head(s1), Tail(s1) \o z)
          BY <2>1, Prepended
      <3> QED
          BY ONLY <2>1, <3>1, <3>2, <3>3, <3>4
    <2>3. <<>> \o z = z
        BY ConcatEmptySeq
    <2>4. s1 \o z = Cons(a, Cons(b, Cons(c, Cons(d, z))))
        BY <2>2, <2>3
    <2> QED
        BY <2>4 DEF s1
  <1> QED
      BY <1>2, <1>3, <1>4, <1>5

LEMMA UrlFacts ==
  ASSUME NEW p \in Projects
  PROVE  /\ Verifies(p) \in Seq(Ops) /\ Cached(p) \in Seq(Ops)
         /\ CachedSized(p) \in Seq(Ops) /\ Verifies(p) # <<>> /\ OneEntry(p) # <<>>
         /\ \A s \in Urls(p) : LoadsUrls(p, s) \in Seq(Ops)
         /\ \A z \in AfterStore(p) : z \in Seq(Ops)
  <1>1. /\ Verifies(p) \in Seq(Ops) /\ Cached(p) \in Seq(Ops)
        /\ CachedSized(p) \in Seq(Ops) /\ Verifies(p) # <<>>
      BY EndFacts, ConsFacts, OpFacts DEF Verifies, Cached, CachedSized
  <1>2. OneEntry(p) # <<>>
      BY EndFacts, ConsFacts, OpFacts DEF OneEntry
  <1>3. \A s \in Urls(p) : LoadsUrls(p, s) \in Seq(Ops)
      BY <1>1, EndFacts, ConsFacts, OpFacts DEF LoadsUrls, Urls
  <1> QED
      BY <1>1, <1>2, <1>3, EndFacts DEF AfterStore

LEMMA ReleaseFacts ==
  ASSUME NEW p \in Projects, NEW u \in DOMAIN VersionRow[p]
  PROVE  /\ Filed(p, u) \in Seq(Ops) /\ Sorted(p, u) \in Seq(Ops)
         /\ Sorts(p, u) \in Seq(Ops) /\ Flushed(p, u) \in Seq(Ops)
         /\ Owned(p, u) \in Seq(Ops) /\ Versioned(p, u) \in Seq(Ops)
  <1>1. Filed(p, u) \in Seq(Ops)
      BY VersionFacts, UploadFacts, EndFacts DEF Filed
  <1> QED
      BY <1>1, ConsFacts, OpFacts DEF Sorted, Sorts, Flushed, Owned, Versioned

LEMMA RemovalFacts ==
  ASSUME NEW p \in Projects
  PROVE  /\ Unsized(p) \in Seq(Ops) /\ Emptied(p) \in Seq(Ops)
         /\ Dropped(p) \in Seq(Ops) /\ DropNoted(p) \in Seq(Ops)
         /\ Cons(Delete(p, NoKeyUpdate), <<>>) \in Seq(Ops)
         /\ FileDeletes(p) \in Seq(Ops) /\ FileQuery(p) \in Seq(Ops)
         /\ Cons(Query(p), FileQuery(p)) \in Seq(Ops)
         /\ FileNoted(p) \in Seq(Ops)
         /\ YankWrites(p) \in Seq(Ops) /\ YankNoted(p) \in Seq(Ops)
  <1>1. /\ Unsized(p) \in Seq(Ops) /\ Emptied(p) \in Seq(Ops)
        /\ Dropped(p) \in Seq(Ops) /\ DropNoted(p) \in Seq(Ops)
      BY EndFacts, ConsFacts, OpFacts DEF Unsized, Emptied, Dropped, DropNoted
  <1>2. /\ Cons(Delete(p, NoKeyUpdate), <<>>) \in Seq(Ops)
        /\ FileDeletes(p) \in Seq(Ops) /\ FileQuery(p) \in Seq(Ops)
        /\ Cons(Query(p), FileQuery(p)) \in Seq(Ops)
        /\ FileNoted(p) \in Seq(Ops)
      BY EndFacts, ConsFacts, OpFacts DEF FileDeletes, FileQuery, FileNoted
  <1>3. YankWrites(p) \in Seq(Ops) /\ YankNoted(p) \in Seq(Ops)
      BY EndFacts, ConsFacts, OpFacts DEF YankWrites, YankNoted
  <1> QED
      BY <1>1, <1>2, <1>3

LEMMA RequestScripts ==
  ASSUME NEW p \in Projects
  PROVE  /\ DeleteFile(p) = Cons(Journal(p), FileNoted(p))
         /\ DeleteRelease(p) = Cons(Journal(p), DropNoted(p))
         /\ YankRelease(p) = Cons(Journal(p), YankNoted(p))
         /\ SyncFile(p) = Cached(p)
         /\ \A u \in DOMAIN FileRow[p] :
               /\ UploadFile(p, u) = Named(p, u, OneEntry(p))
               /\ UploadWithUrls(p, u, NoneVerified)
                     = Named(p, u, LoadsUrls(p, OneEntry(p)))
               /\ UploadWithUrls(p, u, OneVerified(p))
                     = Named(p, u, LoadsUrls(p, Verifies(p)))
         /\ \A u \in DOMAIN VersionRow[p] :
               UploadRelease(p, u) = Versioned(p, u)
  <1> DEFINE j == Journal(p)
             q == Query(p)
             n == RecordEvent
             d1 == Delete(ReleasesRow[p], Update)
             d2 == Delete(FilesRow[p], Update)
             d3 == Delete(FilesRow[p], Update)
             d4 == Delete(p, NoKeyUpdate)
             w == Write(ReleasesRow[p], NoKeyUpdate)
  <1>1. /\ j \in Ops /\ q \in Ops /\ n \in Ops /\ d1 \in Ops /\ d2 \in Ops
        /\ d3 \in Ops /\ d4 \in Ops /\ w \in Ops
      BY OpFacts
  <1>2. \A s \in Seq(Ops) : s \o <<>> = s
      BY ConcatEmptySeq
  <1>3. <<>> \in Seq(Ops)
      OBVIOUS
  <1>4. /\ DeleteFile(p) = Cons(j, FileNoted(p))
        /\ DeleteRelease(p) = Cons(j, DropNoted(p))
        /\ YankRelease(p) = Cons(j, YankNoted(p))
        /\ <<q>> = LastQuery(p)
        /\ <<j>> \o <<q>> = OneEntry(p)
        /\ <<j, j>> \o <<q>> = TwoEntries(p)
    <2>1. /\ DeleteFile(p) = <<j, n, q, q, d3, d4>>
          /\ DeleteRelease(p) = <<j, n, d1, d2, d4, q, q>>
          /\ YankRelease(p) = <<j, n, w, q, q>>
        BY DEF DeleteFile, DeleteRelease, YankRelease
    <2>2. /\ FileNoted(p) = Cons(n, Cons(q, Cons(q, Cons(d3, Cons(d4, <<>>)))))
          /\ DropNoted(p) = Cons(n, Cons(d1, Cons(d2, Cons(d4, Cons(q,
                                 Cons(q, <<>>))))))
          /\ YankNoted(p) = Cons(n, Cons(w, Cons(q, Cons(q, <<>>))))
          /\ LastQuery(p) = Cons(q, <<>>)
          /\ OneEntry(p) = Cons(j, LastQuery(p))
          /\ TwoEntries(p) = Cons(j, Cons(j, LastQuery(p)))
        BY DEF FileNoted, FileQuery, FileDeletes, DropNoted, Dropped, Emptied,
               Unsized, TwoQueries, LastQuery, YankNoted, YankWrites,
               OneEntry, TwoEntries
    <2> HIDE DEF j, q, n, d1, d2, d3, d4, w
    <2>3. DeleteFile(p) = Cons(j, FileNoted(p))
      <3> DEFINE s1 == <<j, n, q, q, d3, d4>>
                 s2 == <<n, q, q, d3, d4>>
                 s3 == <<q, q, d3, d4>>
                 s4 == <<q, d3, d4>>
                 s5 == <<d3, d4>>
                 s6 == <<d4>>
    <3>1. /\ s1 \in Seq(Ops) /\ s1 # <<>>
            /\ Head(s1) = j /\ Tail(s1) = s2
            /\ s2 \in Seq(Ops) /\ s2 # <<>>
            /\ Head(s2) = n /\ Tail(s2) = s3
            /\ s3 \in Seq(Ops) /\ s3 # <<>>
            /\ Head(s3) = q /\ Tail(s3) = s4
            /\ s4 \in Seq(Ops) /\ s4 # <<>>
            /\ Head(s4) = q /\ Tail(s4) = s5
            /\ s5 \in Seq(Ops) /\ s5 # <<>>
            /\ Head(s5) = d3 /\ Tail(s5) = s6
            /\ s6 \in Seq(Ops) /\ s6 # <<>>
            /\ Head(s6) = d4 /\ Tail(s6) = <<>>
          BY <1>1
      <3> HIDE DEF s1, s2, s3, s4, s5, s6
      <3>2. /\ s1 = Cons(j, s2)
            /\ s2 = Cons(n, s3)
            /\ s3 = Cons(q, s4)
            /\ s4 = Cons(q, s5)
            /\ s5 = Cons(d3, s6)
            /\ s6 = Cons(d4, <<>>)
        <4>1. s1 = Cons(Head(s1), Tail(s1))
            BY <3>1, ConsHeadTail
        <4>2. s2 = Cons(Head(s2), Tail(s2))
            BY <3>1, ConsHeadTail
        <4>3. s3 = Cons(Head(s3), Tail(s3))
            BY <3>1, ConsHeadTail
        <4>4. s4 = Cons(Head(s4), Tail(s4))
            BY <3>1, ConsHeadTail
        <4>5. s5 = Cons(Head(s5), Tail(s5))
            BY <3>1, ConsHeadTail
        <4>6. s6 = Cons(Head(s6), Tail(s6))
            BY <3>1, ConsHeadTail
        <4> QED
            BY ONLY <3>1, <4>1, <4>2, <4>3, <4>4, <4>5, <4>6
      <3>3. s1 = Cons(j, Cons(n, Cons(q, Cons(q, Cons(d3, Cons(d4, <<>>))))))
          BY <3>2
      <3> QED
          BY <3>3, <2>1, <2>2 DEF s1
    <2>4. DeleteRelease(p) = Cons(j, DropNoted(p))
      <3> DEFINE s1 == <<j, n, d1, d2, d4, q, q>>
                 s2 == <<n, d1, d2, d4, q, q>>
                 s3 == <<d1, d2, d4, q, q>>
                 s4 == <<d2, d4, q, q>>
                 s5 == <<d4, q, q>>
                 s6 == <<q, q>>
                 s7 == <<q>>
    <3>1. /\ s1 \in Seq(Ops) /\ s1 # <<>>
            /\ Head(s1) = j /\ Tail(s1) = s2
            /\ s2 \in Seq(Ops) /\ s2 # <<>>
            /\ Head(s2) = n /\ Tail(s2) = s3
            /\ s3 \in Seq(Ops) /\ s3 # <<>>
            /\ Head(s3) = d1 /\ Tail(s3) = s4
            /\ s4 \in Seq(Ops) /\ s4 # <<>>
            /\ Head(s4) = d2 /\ Tail(s4) = s5
            /\ s5 \in Seq(Ops) /\ s5 # <<>>
            /\ Head(s5) = d4 /\ Tail(s5) = s6
            /\ s6 \in Seq(Ops) /\ s6 # <<>>
            /\ Head(s6) = q /\ Tail(s6) = s7
            /\ s7 \in Seq(Ops) /\ s7 # <<>>
            /\ Head(s7) = q /\ Tail(s7) = <<>>
          BY <1>1
      <3> HIDE DEF s1, s2, s3, s4, s5, s6, s7
      <3>2. /\ s1 = Cons(j, s2)
            /\ s2 = Cons(n, s3)
            /\ s3 = Cons(d1, s4)
            /\ s4 = Cons(d2, s5)
            /\ s5 = Cons(d4, s6)
            /\ s6 = Cons(q, s7)
            /\ s7 = Cons(q, <<>>)
        <4>1. s1 = Cons(Head(s1), Tail(s1))
            BY <3>1, ConsHeadTail
        <4>2. s2 = Cons(Head(s2), Tail(s2))
            BY <3>1, ConsHeadTail
        <4>3. s3 = Cons(Head(s3), Tail(s3))
            BY <3>1, ConsHeadTail
        <4>4. s4 = Cons(Head(s4), Tail(s4))
            BY <3>1, ConsHeadTail
        <4>5. s5 = Cons(Head(s5), Tail(s5))
            BY <3>1, ConsHeadTail
        <4>6. s6 = Cons(Head(s6), Tail(s6))
            BY <3>1, ConsHeadTail
        <4>7. s7 = Cons(Head(s7), Tail(s7))
            BY <3>1, ConsHeadTail
        <4> QED
            BY ONLY <3>1, <4>1, <4>2, <4>3, <4>4, <4>5, <4>6, <4>7
      <3>3. s1 = Cons(j, Cons(n, Cons(d1, Cons(d2, Cons(d4, Cons(q, Cons(q, <<>>)))))))
          BY <3>2
      <3> QED
          BY <3>3, <2>1, <2>2 DEF s1
    <2>5. YankRelease(p) = Cons(j, YankNoted(p))
      <3> DEFINE s1 == <<j, n, w, q, q>>
                 s2 == <<n, w, q, q>>
                 s3 == <<w, q, q>>
                 s4 == <<q, q>>
                 s5 == <<q>>
    <3>1. /\ s1 \in Seq(Ops) /\ s1 # <<>>
            /\ Head(s1) = j /\ Tail(s1) = s2
            /\ s2 \in Seq(Ops) /\ s2 # <<>>
            /\ Head(s2) = n /\ Tail(s2) = s3
            /\ s3 \in Seq(Ops) /\ s3 # <<>>
            /\ Head(s3) = w /\ Tail(s3) = s4
            /\ s4 \in Seq(Ops) /\ s4 # <<>>
            /\ Head(s4) = q /\ Tail(s4) = s5
            /\ s5 \in Seq(Ops) /\ s5 # <<>>
            /\ Head(s5) = q /\ Tail(s5) = <<>>
          BY <1>1
      <3> HIDE DEF s1, s2, s3, s4, s5
      <3>2. /\ s1 = Cons(j, s2)
            /\ s2 = Cons(n, s3)
            /\ s3 = Cons(w, s4)
            /\ s4 = Cons(q, s5)
            /\ s5 = Cons(q, <<>>)
        <4>1. s1 = Cons(Head(s1), Tail(s1))
            BY <3>1, ConsHeadTail
        <4>2. s2 = Cons(Head(s2), Tail(s2))
            BY <3>1, ConsHeadTail
        <4>3. s3 = Cons(Head(s3), Tail(s3))
            BY <3>1, ConsHeadTail
        <4>4. s4 = Cons(Head(s4), Tail(s4))
            BY <3>1, ConsHeadTail
        <4>5. s5 = Cons(Head(s5), Tail(s5))
            BY <3>1, ConsHeadTail
        <4> QED
            BY ONLY <3>1, <4>1, <4>2, <4>3, <4>4, <4>5
      <3>3. s1 = Cons(j, Cons(n, Cons(w, Cons(q, Cons(q, <<>>)))))
          BY <3>2
      <3> QED
          BY <3>3, <2>1, <2>2 DEF s1
    <2>6. /\ <<q>> = LastQuery(p)
          /\ <<j>> \o <<q>> = OneEntry(p)
          /\ <<j, j>> \o <<q>> = TwoEntries(p)
      <3> DEFINE s1 == <<j, j>>
                 s2 == <<j>>
                 s3 == <<q>>
      <3>1. /\ s1 \in Seq(Ops) /\ s1 # <<>> /\ Head(s1) = j /\ Tail(s1) = s2
            /\ s2 \in Seq(Ops) /\ s2 # <<>> /\ Head(s2) = j /\ Tail(s2) = <<>>
            /\ s3 \in Seq(Ops) /\ s3 # <<>> /\ Head(s3) = q /\ Tail(s3) = <<>>
          BY <1>1
      <3> HIDE DEF s1, s2, s3
      <3>2. s3 = Cons(q, <<>>) /\ <<>> \o s3 = s3
          BY <3>1, ConsHeadTail, ConcatEmptySeq
      <3>3. s2 \o s3 = Cons(j, <<>> \o s3) /\ s1 \o s3 = Cons(j, s2 \o s3)
          BY <3>1, Prepended
      <3>4. /\ s3 = LastQuery(p) /\ s2 \o s3 = OneEntry(p)
            /\ s1 \o s3 = TwoEntries(p)
          BY <2>2, <3>2, <3>3
      <3> QED
          BY <3>4 DEF s1, s2, s3
    <2> QED
        BY <2>3, <2>4, <2>5, <2>6
  <1>5. /\ <<Journal(p)>> \in Seq(Ops) /\ <<Query(p)>> \in Seq(Ops)
        /\ <<Journal(p), Journal(p)>> \in Seq(Ops)
      BY <1>1
  <1>6. ASSUME NEW u \in DOMAIN FileRow[p]
        PROVE  /\ AddFileJournals(p, u, <<Journal(p)>>)
                    = Named(p, u, OneEntry(p))
               /\ AddFileJournals(p, u, <<Journal(p), Journal(p)>>)
                    = Named(p, u, TwoEntries(p))
    <2>1. AddFile(p, u) \in Seq(Ops)
        BY OpFacts DEF AddFile
    <2>2. \A e \in Seq(Ops) : AddFileJournals(p, u, e)
                                = AddFile(p, u) \o (e \o <<Query(p)>>)
        BY <2>1, <1>5, ConcatAssociative DEF AddFileJournals
    <2>3. /\ AddFileJournals(p, u, <<Journal(p)>>)
                = AddFile(p, u) \o OneEntry(p)
          /\ AddFileJournals(p, u, <<Journal(p), Journal(p)>>)
                = AddFile(p, u) \o TwoEntries(p)
        BY <2>2, <1>4, <1>5
    <2>4. OneEntry(p) \in Seq(Ops) /\ TwoEntries(p) \in Seq(Ops)
        BY EndFacts
    <2> QED
        BY <2>3, <2>4, UploadFacts
  <1>7. ASSUME NEW u \in DOMAIN VersionRow[p]
        PROVE  UploadRelease(p, u) = Versioned(p, u)
    <2> DEFINE a == Write(VersionRow[p][u], Update)
               b == Write(p, KeyShare)
               c == Query(p)
               d == Write(ReleasesRow[p], Update)
    <2>1. a \in Ops /\ b \in Ops /\ c \in Ops /\ d \in Ops
        BY OpFacts
    <2>2. AddRelease(p, u) = <<a, b, c, d, c>>
        BY DEF AddRelease
    <2>3. UploadRelease(p, u) = AddRelease(p, u) \o Filed(p, u)
        BY <1>6, VersionFacts DEF UploadRelease, Filed
    <2>4. Versioned(p, u)
            = Cons(a, Cons(b, Cons(c, Cons(d, Cons(c, Filed(p, u))))))
        BY DEF Versioned, Owned, Flushed, Sorts, Sorted
    <2>5. Filed(p, u) \in Seq(Ops)
        BY ReleaseFacts
    <2> HIDE DEF a, b, c, d
    <2>6. <<a, b, c, d, c>> \o Filed(p, u)
            = Cons(a, Cons(b, Cons(c, Cons(d, Cons(c, Filed(p, u))))))
      <3> DEFINE z == Filed(p, u)
                 s1 == <<a, b, c, d, c>>
                 s2 == <<b, c, d, c>>
                 s3 == <<c, d, c>>
                 s4 == <<d, c>>
                 s5 == <<c>>
      <3>1. /\ s1 \in Seq(Ops) /\ s1 # <<>>
            /\ Head(s1) = a /\ Tail(s1) = s2
          BY <2>1
      <3>2. /\ s2 \in Seq(Ops) /\ s2 # <<>>
            /\ Head(s2) = b /\ Tail(s2) = s3
          BY <2>1
      <3>3. /\ s3 \in Seq(Ops) /\ s3 # <<>>
            /\ Head(s3) = c /\ Tail(s3) = s4
          BY <2>1
      <3>4. /\ s4 \in Seq(Ops) /\ s4 # <<>>
            /\ Head(s4) = d /\ Tail(s4) = s5
          BY <2>1
      <3>5. /\ s5 \in Seq(Ops) /\ s5 # <<>>
            /\ Head(s5) = c /\ Tail(s5) = <<>>
          BY <2>1
      <3> HIDE DEF s1, s2, s3, s4, s5, z
      <3>6. z \in Seq(Ops) /\ <<>> \o z = z
          BY <2>5, ConcatEmptySeq DEF z
      <3>7. /\ s5 \o z = Cons(c, z)
            /\ s4 \o z = Cons(d, s5 \o z) /\ s3 \o z = Cons(c, s4 \o z)
            /\ s2 \o z = Cons(b, s3 \o z) /\ s1 \o z = Cons(a, s2 \o z)
        <4>1. s5 \o z = Cons(c, z)
          <5>1. s5 \o z = Cons(Head(s5), Tail(s5) \o z)
              BY <3>5, <3>6, Prepended
          <5> QED
              BY ONLY <3>5, <3>6, <5>1
        <4>2. s4 \o z = Cons(d, s5 \o z)
            BY <3>4, <3>6, Prepended
        <4>3. s3 \o z = Cons(c, s4 \o z)
            BY <3>3, <3>6, Prepended
        <4>4. s2 \o z = Cons(b, s3 \o z)
            BY <3>2, <3>6, Prepended
        <4>5. s1 \o z = Cons(a, s2 \o z)
            BY <3>1, <3>6, Prepended
        <4> QED
            BY <4>1, <4>2, <4>3, <4>4, <4>5
      <3>8. s1 \o z = Cons(a, Cons(b, Cons(c, Cons(d, Cons(c, z)))))
          BY <3>7
      <3> QED
          BY <3>8 DEF s1, z
    <2> QED
        BY <2>2, <2>3, <2>4, <2>6
  <1>8. SyncFile(p) = Cached(p)
    <2> DEFINE c == Write(FilesRow[p], NoKeyUpdate)
               d == Write(p, NoKeyUpdate)
    <2>1. c \in Ops /\ d \in Ops
        BY OpFacts
    <2>2. SyncFile(p) = <<c, d>> /\ Cached(p) = Cons(c, Cons(d, <<>>))
        BY DEF SyncFile, Cached, CachedSized
    <2> HIDE DEF c, d
    <2>3. <<c, d>> = Cons(c, Cons(d, <<>>))
      <3> DEFINE s1 == <<c, d>>
                 s2 == <<d>>
      <3>1. /\ s1 \in Seq(Ops) /\ s1 # <<>> /\ Head(s1) = c /\ Tail(s1) = s2
            /\ s2 \in Seq(Ops) /\ s2 # <<>> /\ Head(s2) = d /\ Tail(s2) = <<>>
          BY <2>1
      <3> HIDE DEF s1, s2
      <3>2. /\ s1 = Cons(Head(s1), Tail(s1))
            /\ s2 = Cons(Head(s2), Tail(s2))
          BY <3>1, ConsHeadTail
      <3> QED
          BY <3>1, <3>2 DEF s1
    <2> QED
        BY <2>2, <2>3
  <1>9. ASSUME NEW u \in DOMAIN FileRow[p]
        PROVE  /\ UploadWithUrls(p, u, NoneVerified)
                     = Named(p, u, LoadsUrls(p, OneEntry(p)))
               /\ UploadWithUrls(p, u, OneVerified(p))
                     = Named(p, u, LoadsUrls(p, Verifies(p)))
    <2>1. AddFile(p, u) \in Seq(Ops) /\ OneEntry(p) \in Seq(Ops)
        BY OpFacts, EndFacts DEF AddFile
    <2>2. /\ <<j>> \o <<q>> = <<j, q>> /\ <<j, q>> \in Seq(Ops)
          /\ <<w>> \in Seq(Ops) /\ <<q>> \in Seq(Ops)
      <3> HIDE DEF j, q, w
      <3> DEFINE l == <<j, q>>
      <3>1. /\ l \in Seq(Ops) /\ l # <<>> /\ Head(l) = j /\ Tail(l) = <<q>>
            /\ <<w>> \in Seq(Ops) /\ <<q>> \in Seq(Ops)
          BY <1>1
      <3>2. l = Cons(Head(l), Tail(l))
          BY <3>1, ConsHeadTail
      <3> QED
          BY <3>1, <3>2 DEF Cons
    <2>3. <<j, q>> = OneEntry(p)
        BY <1>4, <2>2
    <2>4. \A v \in Seq(Ops) :
             UploadWithUrls(p, u, v)
                = AddFile(p, u) \o (<<q>> \o (v \o OneEntry(p)))
      <3> TAKE v \in Seq(Ops)
      <3>1. UploadWithUrls(p, u, v)
               = ((AddFile(p, u) \o <<q>>) \o v) \o OneEntry(p)
          BY <2>3 DEF UploadWithUrls
      <3> DEFINE a == AddFile(p, u)
                 b == <<q>>
                 c == OneEntry(p)
      <3>2. a \in Seq(Ops) /\ b \in Seq(Ops) /\ c \in Seq(Ops)
          BY <2>1, <2>2
      <3> HIDE DEF a, b, c
      <3>3. v \o c \in Seq(Ops) /\ a \o b \in Seq(Ops)
          BY <3>2
      <3>4. \A r, s, t \in Seq(Ops) : (r \o s) \o t = r \o (s \o t)
          BY ConcatAssociative
      <3> DEFINE z == v \o c
      <3>5. (a \o b) \o z = a \o (b \o z)
        <4>1. z \in Seq(Ops)
            BY <3>3
        <4> HIDE DEF z
        <4>2. \A t \in Seq(Ops) : (a \o b) \o t = a \o (b \o t)
            BY <3>2, <3>4
        <4> QED
            BY <4>1, <4>2
      <3> DEFINE d == a \o b
      <3>6. d \in Seq(Ops)
          BY <3>3
      <3> HIDE DEF d
      <3>7. (d \o v) \o c = d \o (v \o c)
          BY <3>2, <3>4, <3>6
      <3> QED
          BY <3>1, <3>5, <3>7 DEF a, b, c, d, z
    <2>5. \A s \in Seq(Ops) : <<q>> \o s = Cons(q, s) /\ <<w>> \o s = Cons(w, s)
        BY DEF Cons
    <2>6. <<>> \o OneEntry(p) = OneEntry(p)
        BY <2>1, ConcatEmptySeq
    <2>7. /\ <<q>> \o (<<>> \o OneEntry(p)) = LoadsUrls(p, OneEntry(p))
          /\ <<q>> \o (<<w>> \o OneEntry(p)) = LoadsUrls(p, Verifies(p))
      <3>1. <<w>> \o OneEntry(p) = Verifies(p) /\ Verifies(p) \in Seq(Ops)
          BY <2>1, <2>5, UrlFacts DEF Verifies
      <3> QED
          BY <2>1, <2>5, <2>6, <3>1 DEF LoadsUrls
    <2>8. /\ LoadsUrls(p, OneEntry(p)) \in Seq(Ops)
          /\ LoadsUrls(p, Verifies(p)) \in Seq(Ops)
        BY UrlFacts DEF Urls
    <2>9. /\ UploadWithUrls(p, u, <<>>) = AddFile(p, u) \o LoadsUrls(p, OneEntry(p))
          /\ UploadWithUrls(p, u, <<w>>) = AddFile(p, u) \o LoadsUrls(p, Verifies(p))
        BY <1>3, <2>2, <2>4, <2>7
    <2> QED
        BY <2>8, <2>9, UploadFacts DEF NoneVerified, OneVerified
  <1> QED
      BY <1>4, <1>6, <1>7, <1>8, <1>9 DEF UploadFile

-----------------------------------------------------------------------------
(* What a step of a worker does to it, by where the worker is. *)

Acts(t) ==
    \/ AddsJournal(t) \/ Writes(t) \/ Deletes(t)
    \/ Queries(t) \/ Stores(t) \/ Executes(t) \/ Finishes(t)

After(t, c, s, n, w, d, x, l) ==
    /\ pc'[t] = c /\ script'[t] = s
    /\ pending'[t] = n /\ writes'[t] = w /\ deletes'[t] = d
    /\ deferred'[t] = x /\ toLock'[t] = l

SameLocks(t) == held'[t] = held[t] /\ (advisory' = t <=> advisory = t)

Takes(t, r, m) ==
    /\ Refusers(t, r, m) = {}
    /\ \A x \in Rows :
          held'[t][x] = IF x = r /\ held[t][x] < m THEN m ELSE held[t][x]
    /\ advisory' = t <=> advisory = t

SessionFlushed(t, s) ==
    \/ /\ pending[t] # <<>> /\ writes[t] # <<>>
       /\ After(t, "execute", s, <<>>, writes[t], deletes[t],
                deferred[t] \o pending[t], toLock[t])
    \/ /\ pending[t] # <<>> /\ writes[t] = <<>>
       /\ After(t, "lockRows", s, pending[t], writes[t], deletes[t],
                deferred[t], Range(pending[t]))
    \/ /\ pending[t] = <<>> /\ ~Clean(t)
       /\ After(t, "execute", s, pending[t], writes[t], deletes[t],
                deferred[t], toLock[t])

LEMMA FlushEffect ==
  ASSUME TypeOK, ScriptType, NEW t \in Tx, BeforeFlush(t)
  PROVE  SessionFlushed(t, script'[t]) /\ SameLocks(t)
  <1> USE DEF TypeOK, SessionType, LockType
  <1>1. SameLocks(t)
      BY DEF BeforeFlush, SameLocks
  <1>2. ~Clean(t) /\ writes'[t] = writes[t] /\ deletes'[t] = deletes[t]
      BY DEF BeforeFlush
  <1>3. CASE pending[t] # <<>> /\ HasOtherPending(t)
    <2>1. /\ deferred' = [deferred EXCEPT ![t] = @ \o pending[t]]
          /\ pending' = [pending EXCEPT ![t] = <<>>]
          /\ pc' = [pc EXCEPT ![t] = "execute"] /\ toLock' = toLock
        BY <1>3, Zenon DEF BeforeFlush
    <2>2. /\ deferred'[t] = deferred[t] \o pending[t] /\ pending'[t] = <<>>
          /\ pc'[t] = "execute" /\ toLock'[t] = toLock[t]
        BY <2>1, Zenon
    <2> QED
        BY <1>1, <1>2, <1>3, <2>2 DEF HasOtherPending, SessionFlushed, After
  <1>4. CASE pending[t] # <<>> /\ ~HasOtherPending(t)
    <2>1. /\ toLock' = [toLock EXCEPT ![t] = Range(pending[t])]
          /\ pc' = [pc EXCEPT ![t] = "lockRows"]
          /\ pending' = pending /\ deferred' = deferred
        BY <1>4, Zenon DEF BeforeFlush, RowsToLock
    <2>2. /\ deferred'[t] = deferred[t] /\ pending'[t] = pending[t]
          /\ pc'[t] = "lockRows" /\ toLock'[t] = Range(pending[t])
        BY <2>1, Zenon
    <2> QED
        BY <1>1, <1>2, <1>4, <2>2 DEF HasOtherPending, SessionFlushed, After
  <1>5. CASE pending[t] = <<>>
    <2>1. /\ pc' = [pc EXCEPT ![t] = "execute"]
          /\ pending' = pending /\ deferred' = deferred /\ toLock' = toLock
        BY <1>5, Zenon DEF BeforeFlush
    <2>2. /\ deferred'[t] = deferred[t] /\ pending'[t] = pending[t]
          /\ pc'[t] = "execute" /\ toLock'[t] = toLock[t]
        BY <2>1, Zenon
    <2> QED
        BY <1>1, <1>2, <1>5, <2>2 DEF SessionFlushed, After
  <1> QED
      BY <1>1, <1>3, <1>4, <1>5

LEMMA NextOpIs ==
  ASSUME NEW t \in Tx, NEW op \in Ops, NEW s \in Seq(Ops),
         script[t] = Cons(op, s), ScriptType
  PROVE  /\ script[t] # <<>> /\ Head(script[t]) = op
         /\ \A do : NextOp(t, do) => op.do = do
         /\ Advance(t) => script'[t] = s
  BY ConsFacts DEF NextOp, Advance, ScriptType

LEMMA JournalEffect ==
  ASSUME TypeOK, ScriptType, NEW t \in Tx, pc[t] = "open", Acts(t),
         NEW p \in Projects, NEW s \in Seq(Ops), script[t] = Cons(Journal(p), s)
  PROVE  /\ After(t, "open", s, Append(pending[t], p), writes[t], deletes[t],
                  deferred[t], toLock[t])
         /\ SameLocks(t)
  <1>1. Journal(p) \in Ops
      BY OpFacts
  <1>2. AddsJournal(t) /\ Head(script[t]) = Journal(p)
      BY <1>1, NextOpIs
      DEF Acts, Journal, Writes, Deletes, Queries, Stores, Executes, Finishes,
          LockRow, LockAdvisory, ExecuteWrite, InsertJournal, ExecuteDelete,
          AfterFlush
  <1>3. AddJournal(t, p) /\ script'[t] = s
      BY <1>1, <1>2, NextOpIs DEF AddsJournal, Journal
  <1> QED
      BY <1>3
      DEF AddJournal, Working, After, SameLocks, TypeOK, SessionType, locks

LEMMA WriteEffect ==
  ASSUME TypeOK, ScriptType, NEW t \in Tx, pc[t] = "open", Acts(t),
         NEW r, NEW m, NEW s \in Seq(Ops), Write(r, m) \in Ops,
         script[t] = Cons(Write(r, m), s)
  PROVE  /\ After(t, "open", s, pending[t], Append(writes[t], Lock(r, m)),
                  deletes[t], deferred[t], toLock[t])
         /\ SameLocks(t)
  <1>1. Writes(t) /\ Head(script[t]) = Write(r, m)
      BY NextOpIs
      DEF Acts, Write, AddsJournal, Deletes, Queries, Stores, Executes,
          Finishes, LockRow, LockAdvisory, ExecuteWrite, InsertJournal,
          ExecuteDelete, AfterFlush
  <1>2. AddWrite(t, r, m) /\ script'[t] = s
      BY <1>1, NextOpIs DEF Writes, Write
  <1> QED
      BY <1>2
      DEF AddWrite, Working, After, SameLocks, TypeOK, SessionType, locks, Lock

LEMMA DeleteEffect ==
  ASSUME TypeOK, ScriptType, NEW t \in Tx, pc[t] = "open", Acts(t),
         NEW r, NEW m, NEW s \in Seq(Ops), Delete(r, m) \in Ops,
         script[t] = Cons(Delete(r, m), s)
  PROVE  /\ After(t, "open", s, pending[t], writes[t],
                  Append(deletes[t], Lock(r, m)), deferred[t], toLock[t])
         /\ SameLocks(t)
  <1>1. Deletes(t) /\ Head(script[t]) = Delete(r, m)
      BY NextOpIs
      DEF Acts, Delete, AddsJournal, Writes, Queries, Stores, Executes,
          Finishes, LockRow, LockAdvisory, ExecuteWrite, InsertJournal,
          ExecuteDelete, AfterFlush
  <1>2. AddDelete(t, r, m) /\ script'[t] = s
      BY <1>1, NextOpIs DEF Deletes, Delete
  <1> QED
      BY <1>2
      DEF AddDelete, Working, After, SameLocks, TypeOK, SessionType, locks, Lock

LEMMA StoreEffect ==
  ASSUME TypeOK, ScriptType, NEW t \in Tx, pc[t] = "open", Acts(t),
         NEW p \in Projects, NEW s \in Seq(Ops), script[t] = Cons(Store(p), s)
  PROVE  /\ After(t, "open", s, pending[t], writes[t], deletes[t],
                  deferred[t], toLock[t])
         /\ SameLocks(t)
  <1>1. Store(p) \in Ops
      BY OpFacts
  <1>2. Stores(t)
      BY <1>1, NextOpIs
      DEF Acts, Store, AddsJournal, Writes, Deletes, Queries, Executes,
          Finishes, LockRow, LockAdvisory, ExecuteWrite, InsertJournal,
          ExecuteDelete, AfterFlush
  <1> QED
      BY <1>1, <1>2, NextOpIs
      DEF Stores, After, SameLocks, vars, session, locks

(* A query flushes the session, unless there is nothing in it. *)
LEMMA QueryEffect ==
  ASSUME TypeOK, ScriptType, NEW t \in Tx, pc[t] = "open", Acts(t),
         NEW p \in Projects, NEW s \in Seq(Ops), script[t] = Cons(Query(p), s)
  PROVE  /\ \/ /\ Clean(t)
               /\ After(t, "open", s, pending[t], writes[t], deletes[t],
                        deferred[t], toLock[t])
            \/ SessionFlushed(t, s)
         /\ SameLocks(t)
  <1>1. Query(p) \in Ops
      BY OpFacts
  <1>2. Queries(t)
      BY <1>1, NextOpIs
      DEF Acts, Query, AddsJournal, Writes, Deletes, Stores, Executes,
          Finishes, LockRow, LockAdvisory, ExecuteWrite, InsertJournal,
          ExecuteDelete, AfterFlush
  <1>3. script'[t] = s
      BY <1>1, <1>2, NextOpIs DEF Queries
  <1>4. CASE BeforeFlush(t)
      BY <1>3, <1>4, FlushEffect
  <1>5. CASE Clean(t) /\ UNCHANGED vars
      BY <1>2, <1>3, <1>5 DEF Queries, After, SameLocks, vars, session, locks
  <1> QED
      BY <1>2, <1>4, <1>5 DEF Queries

LEMMA EndEffect ==
  ASSUME TypeOK, ScriptType, NEW t \in Tx, End(t)
  PROVE  Idle(t)' /\ \A u \in Tx \ {t} : advisory' = u <=> advisory = u
  BY TxAssumption
  DEF TypeOK, SessionType, LockType, End, Idle, Alone, NoLocks, AfterRelease

LEMMA FinishEffect ==
  ASSUME TypeOK, ScriptType, NEW t \in Tx, pc[t] = "open", Acts(t),
         script[t] = <<>>
  PROVE  \/ /\ \/ After(t, "open", <<>>, pending[t], writes[t], deletes[t],
                        deferred[t], toLock[t])
               \/ SessionFlushed(t, <<>>)
            /\ SameLocks(t)
         \/ Clean(t) /\ Idle(t)'
  <1>1. Finishes(t)
      BY DEF Acts, NextOp, AddsJournal, Writes, Deletes, Queries, Stores,
             Executes, LockRow, LockAdvisory, ExecuteWrite, InsertJournal,
             ExecuteDelete, AfterFlush
  <1>2. script'[t] = <<>>
      BY <1>1 DEF Finishes
  <1>3. CASE BeginCommit(t)
      BY <1>2, <1>3 DEF BeginCommit, After, SameLocks, locks
  <1>4. CASE BeforeFlush(t)
      BY <1>2, <1>4, FlushEffect
  <1>5. CASE Commit(t)
      BY <1>5, EndEffect DEF Commit
  <1> QED
      BY <1>1, <1>3, <1>4, <1>5 DEF Finishes

(* A statement of a flush. *)
LEMMA StrengthenTakes ==
  ASSUME TypeOK, NEW t \in Tx, NEW r \in Rows, NEW m \in 1..3,
         Refusers(t, r, m) = {}, held' = Strengthen(t, r, m),
         UNCHANGED advisory
  PROVE  Takes(t, r, m)
  BY DEF TypeOK, LockType, Strengthen, Takes

LEMMA ExecuteEffect ==
  ASSUME TypeOK, ScriptType, NEW t \in Tx, pc[t] = "execute", Acts(t)
  PROVE  \/ /\ writes[t] # <<>>
            /\ After(t, "execute", script[t], pending[t], Tail(writes[t]),
                     deletes[t], deferred[t], toLock[t])
            /\ Takes(t, Head(writes[t]).row, Head(writes[t]).mode)
         \/ /\ writes[t] = <<>> /\ pending[t] # <<>>
            /\ After(t, "execute", script[t], Tail(pending[t]), writes[t],
                     deletes[t], deferred[t], toLock[t])
            /\ Takes(t, Head(pending[t]), NoKeyUpdate)
         \/ /\ writes[t] = <<>> /\ pending[t] = <<>> /\ deletes[t] # <<>>
            /\ After(t, "execute", script[t], pending[t], writes[t],
                     Tail(deletes[t]), deferred[t], toLock[t])
            /\ Takes(t, Head(deletes[t]).row, Head(deletes[t]).mode)
         \/ /\ Clean(t) /\ SameLocks(t)
            /\ After(t, "open", script[t], deferred[t], writes[t],
                     deletes[t], <<>>, toLock[t])
  <1> USE DEF TypeOK, SessionType, LockType
  <1>1. /\ ExecuteWrite(t) \/ InsertJournal(t) \/ ExecuteDelete(t)
           \/ AfterFlush(t)
        /\ script'[t] = script[t]
      BY DEF Acts, AddsJournal, Writes, Deletes, Queries, Stores, Executes,
             Finishes, AddJournal, AddWrite, AddDelete, Working, BeginCommit,
             BeforeFlush, Commit, LockRow, LockAdvisory
  <1>2. CASE ExecuteWrite(t)
    <2>1. Head(writes[t]).row \in Rows /\ Head(writes[t]).mode \in 1..3
      <3>1. Head(writes[t]) \in RowLock
          BY <1>2, HeadTailProperties DEF ExecuteWrite
      <3> QED
          BY <3>1 DEF RowLock
    <2>2. Takes(t, Head(writes[t]).row, Head(writes[t]).mode)
        BY <1>2, <2>1, StrengthenTakes DEF ExecuteWrite
    <2> QED
        BY <1>1, <1>2, <2>2 DEF ExecuteWrite, After
  <1>3. CASE InsertJournal(t)
    <2>1. Head(pending[t]) \in Rows
        BY <1>3, HeadTailProperties, RowsAssumption DEF InsertJournal
    <2>2. /\ Refusers(t, Head(pending[t]), NoKeyUpdate) = {}
          /\ held' = Strengthen(t, Head(pending[t]), NoKeyUpdate)
          /\ UNCHANGED advisory /\ NoKeyUpdate \in 1..3
        BY <1>3 DEF InsertJournal, NoKeyUpdate
    <2>3. Takes(t, Head(pending[t]), NoKeyUpdate)
        BY <2>1, <2>2, StrengthenTakes
    <2> QED
        BY <1>1, <1>3, <2>3 DEF InsertJournal, After
  <1>4. CASE ExecuteDelete(t)
    <2>1. Head(deletes[t]).row \in Rows /\ Head(deletes[t]).mode \in 1..3
      <3>1. Head(deletes[t]) \in RowLock
          BY <1>4, HeadTailProperties DEF ExecuteDelete
      <3> QED
          BY <3>1 DEF RowLock
    <2>2. Takes(t, Head(deletes[t]).row, Head(deletes[t]).mode)
        BY <1>4, <2>1, StrengthenTakes DEF ExecuteDelete
    <2> QED
        BY <1>1, <1>4, <2>2 DEF ExecuteDelete, After
  <1>5. CASE AfterFlush(t)
      BY <1>1, <1>5 DEF AfterFlush, Restored, After, SameLocks, locks
  <1> QED
      BY <1>1, <1>2, <1>3, <1>4, <1>5

LEMMA ExecutesWrite ==
  ASSUME TypeOK, ScriptType, NEW t \in Tx, pc[t] = "execute", Acts(t), writes[t] # <<>>
  PROVE  /\ After(t, "execute", script[t], pending[t], Tail(writes[t]),
                  deletes[t], deferred[t], toLock[t])
         /\ Takes(t, Head(writes[t]).row, Head(writes[t]).mode)
  BY ExecuteEffect DEF Clean

LEMMA ExecutesDelete ==
  ASSUME TypeOK, ScriptType, NEW t \in Tx, pc[t] = "execute", Acts(t),
         writes[t] = <<>>, pending[t] = <<>>, deletes[t] # <<>>
  PROVE  /\ After(t, "execute", script[t], pending[t], writes[t],
                  Tail(deletes[t]), deferred[t], toLock[t])
         /\ Takes(t, Head(deletes[t]).row, Head(deletes[t]).mode)
  BY ExecuteEffect DEF Clean

LEMMA LockRowsEffect ==
  ASSUME TypeOK, ScriptType, NEW t \in Tx, pc[t] = "lockRows", Acts(t)
  PROVE  \/ \E p \in toLock[t] :
               /\ After(t, "lockRows", script[t], pending[t], writes[t],
                        deletes[t], deferred[t], toLock[t] \ {p})
               /\ Takes(t, p, NoKeyUpdate)
         \/ /\ toLock[t] = {}
            /\ After(t, "execute", script[t], pending[t], writes[t],
                     deletes[t], deferred[t], toLock[t])
            /\ held' = held /\ advisory' = t /\ advisory \in {t, NoTx}
  <1> USE DEF TypeOK, SessionType, LockType
  <1>1. /\ LockRow(t) \/ LockAdvisory(t)
        /\ script'[t] = script[t]
      BY DEF Acts, AddsJournal, Writes, Deletes, Queries, Stores, Executes,
             Finishes, AddJournal, AddWrite, AddDelete, Working, BeginCommit,
             BeforeFlush, Commit, ExecuteWrite, InsertJournal, ExecuteDelete,
             AfterFlush
  <1>2. CASE LockRow(t)
    <2>1. PICK p \in toLock[t] :
             /\ Refusers(t, p, NoKeyUpdate) = {}
             /\ held' = Strengthen(t, p, NoKeyUpdate)
             /\ toLock' = [toLock EXCEPT ![t] = @ \ {p}]
        BY <1>2 DEF LockRow
    <2>2. p \in Rows /\ UNCHANGED <<advisory, pc, session>>
        BY <1>2, RowsAssumption DEF LockRow
    <2>3. Takes(t, p, NoKeyUpdate)
        BY <2>1, <2>2, StrengthenTakes DEF NoKeyUpdate
    <2> QED
        BY <1>1, <2>1, <2>2, <2>3 DEF After, session
  <1>3. CASE LockAdvisory(t)
      BY <1>1, <1>3 DEF LockAdvisory, AdvisoryFree, After, session
  <1> QED
      BY <1>1, <1>2, <1>3

(* A worker's step leaves the others as they are. *)

Frame(u) ==
    /\ After(u, pc[u], script[u], pending[u], writes[u], deletes[u],
             deferred[u], toLock[u])
    /\ SameLocks(u)

LEMMA OthersStay ==
  ASSUME TypeOK, ScriptType, NEW t \in Tx, NEW u \in Tx \ {t},
         Acts(t) \/ Start(t) \/ Fails(t)
  PROVE  Frame(u)
  <1> USE DEF TypeOK, SessionType, LockType, ScriptType, Frame, After,
              SameLocks, session, locks
  <1>1. CASE AddsJournal(t)
      BY <1>1 DEF AddsJournal, AddJournal, Working, Advance
  <1>2. CASE Writes(t)
      BY <1>2 DEF Writes, AddWrite, Working, Advance
  <1>3. CASE Deletes(t)
      BY <1>3 DEF Deletes, AddDelete, Working, Advance
  <1>4. ASSUME BeforeFlush(t), script' = script \/ Advance(t) PROVE Frame(u)
      BY <1>4 DEF BeforeFlush, Advance
  <1>5. CASE Queries(t)
      BY <1>4, <1>5 DEF Queries, Advance, vars
  <1>6. CASE Stores(t)
      BY <1>6 DEF Stores, Advance, vars
  <1>7. CASE Executes(t)
    <2>1. CASE LockRow(t)
        BY <1>7, <2>1 DEF Executes, LockRow, Strengthen
    <2>2. CASE LockAdvisory(t)
        BY <1>7, <2>2, TxAssumption DEF Executes, LockAdvisory, AdvisoryFree
    <2>3. CASE ExecuteWrite(t)
        BY <1>7, <2>3 DEF Executes, ExecuteWrite, Strengthen
    <2>4. CASE InsertJournal(t)
        BY <1>7, <2>4 DEF Executes, InsertJournal, Strengthen
    <2>5. CASE ExecuteDelete(t)
        BY <1>7, <2>5 DEF Executes, ExecuteDelete, Strengthen
    <2>6. CASE AfterFlush(t)
        BY <1>7, <2>6 DEF Executes, AfterFlush
    <2> QED
        BY <1>7, <2>1, <2>2, <2>3, <2>4, <2>5, <2>6 DEF Executes
  <1>8. ASSUME End(t), script' = script \/ script' = [script EXCEPT ![t] = <<>>]
        PROVE  Frame(u)
      BY <1>8, EndEffect DEF End
  <1>9. CASE Finishes(t)
    <2>1. CASE BeginCommit(t)
        BY <1>9, <2>1 DEF Finishes, BeginCommit
    <2> QED
        BY <1>4, <1>8, <1>9, <2>1 DEF Finishes, Commit
  <1>10. CASE Fails(t)
      BY <1>8, <1>10 DEF Fails, Rollback
  <1>11. CASE Start(t)
      BY <1>11 DEF Start, Begin
  <1> QED
      BY <1>1, <1>2, <1>3, <1>5, <1>6, <1>7, <1>9, <1>10, <1>11 DEF Acts

LEMMA FrameUpto ==
  ASSUME NEW u \in Tx, Frame(u)
  PROVE  /\ \A k : Upto(u, k)' <=> Upto(u, k)
         /\ \A p : UptoProject(u, p)' <=> UptoProject(u, p)
         /\ \A p : SortedReleases(u, p)' <=> SortedReleases(u, p)
  BY DEF Frame, After, SameLocks, Upto, UptoProject, SortedReleases, Counts

LEMMA FrameStates ==
  ASSUME NEW u \in Tx, Frame(u)
  PROVE  /\ \A s, w, d : Loaded(u, s, w, d)' <=> Loaded(u, s, w, d)
         /\ \A s, w, d : Flushing(u, s, w, d)' <=> Flushing(u, s, w, d)
         /\ pending'[u] = pending[u] /\ deferred'[u] = deferred[u]
         /\ held'[u] = held[u]
  BY DEF Frame, After, SameLocks, Loaded, Flushing

LEMMA FrameKeeps ==
  ASSUME NEW u \in Tx, Frame(u), WorkerInOrder(u)
  PROVE  WorkerInOrder(u)'
  <1> USE FrameUpto, FrameStates
  <1>1. CASE Idle(u)
      BY <1>1 DEF Idle, Alone, Frame, After, SameLocks, WorkerInOrder
  <1>2. ASSUME NEW p \in Projects,
               LocksProject(u, p) \/ Inserts(u, p) \/ Ends(u, p)
        PROVE  (LocksProject(u, p) \/ Inserts(u, p) \/ Ends(u, p))'
    <2>1. CASE LocksProject(u, p)
        BY <2>1 DEF LocksProject, Alone, Frame, After, SameLocks
    <2>2. CASE Inserts(u, p)
        BY <2>2 DEF Inserts, Alone, Frame, After, SameLocks
    <2>3. CASE Ends(u, p)
        BY <2>3 DEF Ends, Frame, After, SameLocks
    <2> QED
        BY <1>2, <2>1, <2>2, <2>3
  <1>3. ASSUME NEW p \in Projects, BeforeJournals(u, p)
        PROVE  BeforeJournals(u, p)'
    <2>1. advisory' # u /\ toLock'[u] = {}
        BY <1>3 DEF BeforeJournals, Frame, After, SameLocks
    <2>2. ASSUME NEW v \in DOMAIN FileRow[p], AddsFile(u, p, v)
          PROVE  AddsFile(u, p, v)'
        BY <2>2 DEF AddsFile, FileReady
    <2>3. ASSUME NEW v \in DOMAIN FileRow[p], AddsEntries(u, p, v)
          PROVE  AddsEntries(u, p, v)'
        BY <2>3 DEF AddsEntries, FileReady
    <2>4. ASSUME NEW v \in DOMAIN FileRow[p], FlushesFile(u, p, v)
          PROVE  FlushesFile(u, p, v)'
        BY <2>4 DEF FlushesFile, FileReady, FileLocked
    <2>5. ASSUME NEW v \in DOMAIN VersionRow[p], AddsRelease(u, p, v)
          PROVE  AddsRelease(u, p, v)'
        BY <2>5 DEF AddsRelease
    <2>6. CASE DeletesRelease(u, p)
        BY <2>1, <2>6 DEF DeletesRelease, BeforeJournals
    <2>7. CASE DeletesFile(u, p)
        BY <2>1, <2>7 DEF DeletesFile, BeforeJournals
    <2>8. CASE Yanks(u, p)
        BY <2>1, <2>8 DEF Yanks, BeforeJournals
    <2>9. CASE Restores(u, p)
        BY <2>1, <2>9 DEF Restores, BeforeJournals
    <2>10. CASE ChecksUrls(u, p)
        BY <2>1, <2>10 DEF ChecksUrls, BeforeJournals
    <2>11. CASE Syncs(u, p)
        BY <2>1, <2>11 DEF Syncs, BeforeJournals
    <2> QED
        BY <1>3, <2>1, <2>2, <2>3, <2>4, <2>5, <2>6, <2>7, <2>8, <2>9, <2>10,
           <2>11
        DEF BeforeJournals
  <1> QED
      BY <1>1, <1>2, <1>3 DEF WorkerInOrder

-----------------------------------------------------------------------------
(* How far a worker's locks go. *)

LEMMA UptoRises ==
  ASSUME NEW t \in Tx, NEW k \in Nat, NEW j \in Nat, k <= j, Upto(t, k)
  PROVE  Upto(t, j)
  <1>1. \A r \in Rows : Rank(r) \in Nat
      BY DEF Rank
  <1> QED
      BY <1>1 DEF Upto

LEMMA SameUpto ==
  ASSUME NEW t \in Tx, SameLocks(t)
  PROVE  /\ \A k : Upto(t, k)' <=> Upto(t, k)
         /\ \A p : UptoProject(t, p)' <=> UptoProject(t, p)
         /\ \A p : SortedReleases(t, p)' <=> SortedReleases(t, p)
         /\ \A p, u : FileReady(t, p, u)' <=> FileReady(t, p, u)
  BY DEF SameLocks, Upto, UptoProject, SortedReleases, Counts, FileReady

LEMMA TakesUpto ==
  ASSUME TypeOK, NEW t \in Tx, NEW r \in Rows, NEW m \in 1..3, Takes(t, r, m),
         NEW k \in Nat, NEW j \in Nat, k <= j, Upto(t, k),
         \/ r = EventsRow
         \/ Rank(r) <= j
         \/ r \in Projects /\ m = KeyShare
  PROVE  Upto(t, j)'
  <1> SUFFICES ASSUME NEW x \in Rows, Counts(t, x)' PROVE Rank(x) <= j
      BY DEF Upto
  <1>1. held[t][x] \in 0..3
      BY DEF TypeOK, LockType
  <1>2. CASE Counts(t, x)
      BY <1>2, UptoRises DEF Upto
  <1>3. CASE ~Counts(t, x)
      BY <1>1, <1>3 DEF Takes, Counts, KeyShare
  <1> QED
      BY <1>2, <1>3

LEMMA TakesProject ==
  ASSUME TypeOK, NEW t \in Tx, NEW p \in Projects, NEW m \in 1..3,
         Takes(t, p, m), UptoProject(t, p) \/ Upto(t, 3)
  PROVE  UptoProject(t, p)'
  <1>1. \A x \in Rows : x # p => Counts(t, x)' = Counts(t, x)
      BY DEF Takes, Counts
  <1> QED
      BY <1>1 DEF Upto, UptoProject

(* A lock on a row below the projects. *)
LEMMA TakesBelow ==
  ASSUME TypeOK, NEW t \in Tx, NEW p \in Projects, NEW r \in Rows,
         NEW m \in 1..3, Takes(t, r, m), Rank(r) <= 3, UptoProject(t, p)
  PROVE  UptoProject(t, p)'
  <1>1. \A x \in Rows : x # r => Counts(t, x)' = Counts(t, x)
      BY DEF Takes, Counts
  <1> QED
      BY <1>1 DEF UptoProject

LEMMA TakesKeeps ==
  ASSUME TypeOK, MildLocks, NEW t \in Tx, NEW p \in Projects,
         NEW r \in Rows, NEW m \in 1..3, Takes(t, r, m)
  PROVE  /\ SortedReleases(t, p) \/ (r = ReleasesRow[p] /\ m = Update)
               => SortedReleases(t, p)'
         /\ held[t][p] = NoKeyUpdate /\ r # p => held'[t][p] = NoKeyUpdate
         /\ r = p /\ m = NoKeyUpdate => held'[t][p] = NoKeyUpdate
  <1>1. /\ p \in Rows /\ ReleasesRow[p] \in Rows
        /\ held[t][p] \in 0..3 /\ held[t][p] <= 2
        /\ held[t][ReleasesRow[p]] \in 0..3
      BY RowFacts DEF TypeOK, LockType, MildLocks
  <1> QED
      BY <1>1 DEF Takes, SortedReleases, Update, NoKeyUpdate

(* A project's journal entries. *)
LEMMA EntryFacts ==
  ASSUME NEW p \in Projects, NEW s \in Seq({p})
  PROVE  /\ Append(s, p) \in Only(p) /\ Append(<<>>, p) \in Only(p)
         /\ <<>> \o s = s
         /\ s # <<>> => s \in Only(p) /\ Head(s) = p /\ Tail(s) \in Seq({p})
                        /\ Range(s) = {p}
  <1>1. /\ Append(s, p) \in Seq({p}) /\ Append(s, p) # <<>>
        /\ Append(<<>>, p) \in Seq({p}) /\ Append(<<>>, p) # <<>>
      BY AppendProperties, EmptySeq
  <1>2. <<>> \o s = s
      BY ConcatEmptySeq
  <1>3. ASSUME s # <<>> PROVE Head(s) = p /\ Tail(s) \in Seq({p})
      BY <1>3, HeadTailProperties
  <1>4. ASSUME s # <<>> PROVE Range(s) = {p}
    <2>1. DOMAIN s = 1..Len(s) /\ Len(s) \in Nat \ {0}
        BY <1>4, EmptySeq, LenProperties
    <2>2. \A i \in DOMAIN s : s[i] = p
        BY <2>1, ElementOfSeq
    <2>3. 1 \in DOMAIN s
        BY <2>1
    <2> QED
        BY <2>2, <2>3 DEF Range
  <1> QED
      BY <1>1, <1>2, <1>3, <1>4 DEF Only

-----------------------------------------------------------------------------
(* An upload's file: from its first object to the flush of its entries. *)

LEMMA AddsFileStep ==
  ASSUME TypeOK, ScriptType, MildLocks, NEW t \in Tx, Acts(t),
         NEW p \in Projects, NEW u \in DOMAIN FileRow[p],
         advisory # t, toLock[t] = {}, AddsFile(t, p, u)
  PROVE  WorkerInOrder(t)'
  <1> DEFINE f == NameLock(p, u)
             l == ReleasesLock(p, KeyShare)
             n == ProjectLock(p)
  <1>1. PICK z \in AfterStore(p) :
          \/ Loaded(t, Named(p, u, z), <<>>, <<>>)
          \/ Loaded(t, Referenced(p, z), <<f>>, <<>>)
          \/ Loaded(t, Sized(p, z), <<f, l>>, <<>>)
          \/ Loaded(t, Stored(p, z), FileLocks(p, u), <<>>)
          \/ Loaded(t, z, FileLocks(p, u), <<>>)
      BY DEF AddsFile
  <1>2. /\ pc[t] = "open" /\ pending[t] = <<>> /\ deferred[t] = <<>>
        /\ deletes[t] = <<>> /\ FileReady(t, p, u)
      BY <1>1 DEF AddsFile, Loaded
  <1>3. /\ z \in Seq(Ops) /\ Stored(p, z) \in Seq(Ops)
        /\ Sized(p, z) \in Seq(Ops) /\ Referenced(p, z) \in Seq(Ops)
      BY UrlFacts, UploadFacts
  <1>4. /\ f \in Mild /\ l \in Mild /\ n \in Mild
        /\ f = Lock(FileRow[p][u], Update) /\ l = Lock(ReleasesRow[p], KeyShare)
        /\ n = Lock(p, NoKeyUpdate) /\ FileLocks(p, u) = <<f, l, n>>
      BY LockFacts
      DEF NameLock, ReleasesLock, ProjectLock, FileLocks, KeyShare
  <1>5. /\ Append(<<>>, f) = <<f>> /\ Append(<<f>>, l) = <<f, l>>
        /\ Append(<<f, l>>, n) = <<f, l, n>>
      BY <1>4, ListFacts, Zenon
  <1> HIDE DEF f, l, n
  <1>6. ASSUME NEW s, NEW w,
               After(t, "open", s, <<>>, w, <<>>, <<>>, {}), SameLocks(t),
               \/ s = Referenced(p, z) /\ w = <<f>>
               \/ s = Sized(p, z) /\ w = <<f, l>>
               \/ s = Stored(p, z) /\ w = FileLocks(p, u)
               \/ s = z /\ w = FileLocks(p, u)
        PROVE  WorkerInOrder(t)'
    <2>1. Loaded(t, s, w, <<>>)' /\ pending'[t] = <<>>
        BY <1>6 DEF After, Loaded
    <2>2. FileReady(t, p, u)'
        BY <1>2, <1>6, SameUpto
    <2>3. AddsFile(t, p, u)'
        BY <1>6, <2>1, <2>2 DEF AddsFile, f, l
    <2>4. advisory' # t /\ toLock'[t] = {}
        BY <1>6 DEF After, SameLocks
    <2> QED
        BY <2>3, <2>4 DEF WorkerInOrder, BeforeJournals
  <1>7. CASE Loaded(t, Named(p, u, z), <<>>, <<>>)
    <2>1. script[t] = Cons(Write(FileRow[p][u], Update), Referenced(p, z))
        BY <1>7 DEF Loaded, Named
    <2>2. Write(FileRow[p][u], Update) \in Ops
        BY OpFacts
    <2>3. /\ After(t, "open", Referenced(p, z), <<>>, Append(<<>>, f), <<>>, <<>>, {})
          /\ SameLocks(t)
        BY <1>2, <1>3, <1>4, <1>7, <2>1, <2>2, WriteEffect DEF Loaded
    <2> QED
        BY <1>4, <1>5, <1>6, <2>3
  <1>8. CASE Loaded(t, Referenced(p, z), <<f>>, <<>>)
    <2>1. script[t] = Cons(Write(ReleasesRow[p], KeyShare), Sized(p, z))
        BY <1>8 DEF Loaded, Referenced
    <2>2. Write(ReleasesRow[p], KeyShare) \in Ops
        BY OpFacts
    <2>3. /\ After(t, "open", Sized(p, z), <<>>, Append(<<f>>, l), <<>>, <<>>, {})
          /\ SameLocks(t)
        BY <1>2, <1>3, <1>4, <1>8, <2>1, <2>2, WriteEffect DEF Loaded
    <2> QED
        BY <1>4, <1>5, <1>6, <2>3
  <1>9. CASE Loaded(t, Sized(p, z), <<f, l>>, <<>>)
    <2>1. script[t] = Cons(Write(p, NoKeyUpdate), Stored(p, z))
        BY <1>9 DEF Loaded, Sized
    <2>2. Write(p, NoKeyUpdate) \in Ops
        BY OpFacts
    <2>3. /\ After(t, "open", Stored(p, z), <<>>, Append(<<f, l>>, n), <<>>, <<>>, {})
          /\ SameLocks(t)
        BY <1>2, <1>3, <1>4, <1>9, <2>1, <2>2, WriteEffect DEF Loaded
    <2> QED
        BY <1>4, <1>5, <1>6, <2>3
  <1>10. CASE Loaded(t, Stored(p, z), FileLocks(p, u), <<>>)
    <2>1. /\ pc[t] = "open" /\ script[t] = Cons(Store(p), z)
          /\ writes[t] = FileLocks(p, u) /\ deletes[t] = <<>>
        BY <1>10 DEF Loaded, Stored
    <2>2. /\ After(t, "open", z, pending[t], writes[t], deletes[t], deferred[t], toLock[t])
          /\ SameLocks(t)
        BY <1>3, <2>1, StoreEffect
    <2> QED
        BY <1>2, <1>6, <2>1, <2>2
  <1>11. CASE /\ Loaded(t, z, FileLocks(p, u), <<>>)
              /\ z \in {OneEntry(p), TwoEntries(p)}
    <2>1. PICK s \in {LastQuery(p), OneEntry(p)} : z = Cons(Journal(p), s)
        BY <1>11 DEF OneEntry, TwoEntries
    <2>2. /\ After(t, "open", s, Append(<<>>, p), FileLocks(p, u), <<>>,
                   <<>>, {})
          /\ SameLocks(t)
        BY <1>2, <1>11, <2>1, EndFacts, JournalEffect DEF Loaded
    <2>3. <<>> \in Seq({p})
        BY EmptySeq
    <2>4. pending'[t] \in Only(p) /\ Loaded(t, s, FileLocks(p, u), <<>>)'
      <3>1. Append(<<>>, p) \in Only(p)
          BY <2>3, EntryFacts
      <3>2. /\ pc'[t] = "open" /\ script'[t] = s
            /\ pending'[t] = Append(<<>>, p) /\ writes'[t] = FileLocks(p, u)
            /\ deletes'[t] = <<>> /\ deferred'[t] = <<>>
          BY <2>2 DEF After
      <3> QED
          BY ONLY <3>1, <3>2 DEF Loaded
    <2>5. AddsEntries(t, p, u)'
        BY <1>2, <2>1, <2>2, <2>4, SameUpto DEF AddsEntries
    <2>6. advisory' # t /\ toLock'[t] = {}
        BY <2>2 DEF After, SameLocks
    <2> QED
        BY <2>5, <2>6 DEF WorkerInOrder, BeforeJournals
  <1>12. CASE /\ Loaded(t, z, FileLocks(p, u), <<>>)
              /\ z \notin {OneEntry(p), TwoEntries(p)}
    <2>1. PICK s \in Urls(p) : z = Cons(Query(p), s)
        BY <1>12 DEF AfterStore, LoadsUrls
    <2>2. s \in Seq(Ops) /\ s # <<>>
        BY UrlFacts, EndFacts DEF Urls
    <2>3. writes[t] = FileLocks(p, u) /\ writes[t] # <<>> /\ ~Clean(t)
        BY <1>4, <1>12 DEF Loaded, Clean
    <2>4. SessionFlushed(t, s) /\ SameLocks(t)
        BY <1>2, <1>12, <2>1, <2>2, <2>3, QueryEffect DEF Loaded
    <2>5. After(t, "execute", s, <<>>, FileLocks(p, u), <<>>, <<>>, {})
        BY <1>2, <2>3, <2>4 DEF SessionFlushed
    <2>6. Flushing(t, s, FileLocks(p, u), <<>>)' /\ deferred'[t] = <<>>
        BY <2>5 DEF After, Flushing
    <2>7. FileReady(t, p, u)'
        BY <1>2, <2>4, SameUpto
    <2>8. FlushesFile(t, p, u)'
        BY <2>2, <2>6, <2>7 DEF FlushesFile
    <2>9. advisory' # t /\ toLock'[t] = {}
        BY <2>4, <2>5 DEF After, SameLocks
    <2> QED
        BY <2>8, <2>9 DEF WorkerInOrder, BeforeJournals
  <1> QED
      BY <1>1, <1>7, <1>8, <1>9, <1>10, <1>11, <1>12

LEMMA AddsEntriesStep ==
  ASSUME TypeOK, ScriptType, MildLocks, NEW t \in Tx, Acts(t),
         NEW p \in Projects, NEW u \in DOMAIN FileRow[p],
         advisory # t, toLock[t] = {}, AddsEntries(t, p, u)
  PROVE  WorkerInOrder(t)'
  <1>1. /\ pc[t] = "open" /\ pending[t] \in Only(p) /\ deferred[t] = <<>>
        /\ writes[t] = FileLocks(p, u) /\ deletes[t] = <<>>
        /\ FileReady(t, p, u)
      BY DEF AddsEntries, Loaded
  <1>2. pending[t] \in Seq({p}) /\ pending[t] # <<>>
      BY <1>1 DEF Only
  <1>3. CASE script[t] = OneEntry(p)
    <2>1. script[t] = Cons(Journal(p), LastQuery(p))
        BY <1>3 DEF OneEntry
    <2>2. /\ After(t, "open", LastQuery(p), Append(pending[t], p),
                   FileLocks(p, u), <<>>, <<>>, {})
          /\ SameLocks(t)
        BY <1>1, <2>1, EndFacts, JournalEffect
    <2>3. Append(pending[t], p) \in Only(p)
        BY <1>2, EntryFacts
    <2>4. /\ pending'[t] \in Only(p)
          /\ Loaded(t, LastQuery(p), FileLocks(p, u), <<>>)'
        BY <2>2, <2>3 DEF After, Loaded
    <2>5. AddsEntries(t, p, u)'
        BY <1>1, <2>2, <2>4, SameUpto DEF AddsEntries
    <2> QED
        BY <2>2, <2>5 DEF WorkerInOrder, BeforeJournals, After, SameLocks
  <1>4. CASE script[t] = LastQuery(p)
    <2>1. script[t] = Cons(Query(p), <<>>)
        BY <1>4 DEF LastQuery
    <2>2. writes[t] # <<>> /\ ~Clean(t)
        BY <1>1, <1>2 DEF FileLocks, Clean
    <2>3. /\ After(t, "execute", <<>>, <<>>, FileLocks(p, u), <<>>,
                   <<>> \o pending[t], {})
          /\ SameLocks(t)
        BY <1>1, <1>2, <2>1, <2>2, EndFacts, QueryEffect DEF SessionFlushed
    <2>4. /\ Flushing(t, <<>>, FileLocks(p, u), <<>>)'
          /\ deferred'[t] \in Only(p)
        BY <1>2, <2>3, EntryFacts DEF After, Flushing
    <2>5. FileReady(t, p, u)'
        BY <1>1, <2>3, SameUpto
    <2>6. FlushesFile(t, p, u)'
        BY <2>4, <2>5 DEF FlushesFile
    <2> QED
        BY <2>3, <2>6 DEF WorkerInOrder, BeforeJournals, After, SameLocks
  <1> QED
      BY <1>3, <1>4 DEF AddsEntries, Loaded

LEMMA FlushesFileStep ==
  ASSUME TypeOK, ScriptType, MildLocks, NEW t \in Tx, Acts(t),
         NEW p \in Projects, NEW u \in DOMAIN FileRow[p],
         advisory # t, toLock[t] = {}, FlushesFile(t, p, u)
  PROVE  WorkerInOrder(t)'
  <1> DEFINE f == NameLock(p, u)
             l == ReleasesLock(p, KeyShare)
             n == ProjectLock(p)
             h == held[t][ReleasesRow[p]]
  <1>1. PICK s \in {<<>>} \cup Urls(p) :
          /\ IF s = <<>> THEN deferred[t] \in Only(p) ELSE deferred[t] = <<>>
          /\ pc[t] = "execute" /\ pending[t] = <<>>
          /\ deletes[t] = <<>> /\ script[t] = s
          /\ \/ writes[t] = <<f, l, n>> /\ FileReady(t, p, u)
             \/ writes[t] = <<l, n>> /\ FileLocked(t, p)
             \/ writes[t] = <<n>> /\ Upto(t, 3) /\ h # 0
      BY DEF FlushesFile, Flushing, FileLocks
  <1>2. /\ f \in Mild /\ l \in Mild /\ n \in Mild
        /\ f.row = FileRow[p][u] /\ f.mode = 3
        /\ l.row = ReleasesRow[p] /\ l.mode = 1 /\ n.row = p /\ n.mode = 2
    <2>1. f \in Mild /\ l \in Mild /\ n \in Mild
        BY LockFacts DEF KeyShare
    <2> QED
        BY <2>1
        DEF NameLock, ReleasesLock, ProjectLock, KeyShare, NoKeyUpdate, Update,
            Lock
  <1>3. /\ FileRow[p][u] \in Rows /\ ReleasesRow[p] \in Rows /\ p \in Rows
        /\ Rank(ReleasesRow[p]) = 2 /\ Rank(p) = 4
      BY RowFacts, FileFacts
  <1> HIDE DEF f, l, n
  <1>4. ASSUME NEW w, After(t, "execute", s, <<>>, w, <<>>, deferred[t], {}),
               advisory' # t,
               \/ w = <<l, n>> /\ FileLocked(t, p)'
               \/ w = <<n>> /\ Upto(t, 3)' /\ held'[t][ReleasesRow[p]] # 0
        PROVE  WorkerInOrder(t)'
    <2>1. Flushing(t, s, w, <<>>)' /\ deferred'[t] = deferred[t]
        BY <1>1, <1>4 DEF After, Flushing
    <2>2. FlushesFile(t, p, u)'
        BY <1>1, <1>4, <2>1 DEF FlushesFile, l, n
    <2> QED
        BY <1>4, <2>2 DEF WorkerInOrder, BeforeJournals, After
  <1>5. CASE writes[t] = <<f, l, n>> /\ FileReady(t, p, u)
    <2>1. /\ writes[t] # <<>> /\ Head(writes[t]) = f
          /\ Tail(writes[t]) = <<l, n>>
        BY <1>2, <1>5, ListFacts
    <2>2. /\ After(t, "execute", s, <<>>, <<l, n>>, <<>>, deferred[t], {})
          /\ Takes(t, FileRow[p][u], 3)
        BY <1>1, <1>2, <2>1, ExecutesWrite
    <2>3. CASE Rank(FileRow[p][u]) = 1 /\ Upto(t, 0)
      <3>1. Upto(t, 1)'
          BY <1>3, <2>2, <2>3, TakesUpto
      <3> QED
          BY <1>4, <2>2, <3>1 DEF FileLocked, Takes
    <2>4. CASE /\ Rank(FileRow[p][u]) = 3 /\ Upto(t, 2)
               /\ SortedReleases(t, p)
      <3>1. Upto(t, 3)' /\ SortedReleases(t, p)'
          BY <1>3, <2>2, <2>4, TakesUpto, TakesKeeps
      <3> QED
          BY <1>4, <2>2, <3>1 DEF FileLocked, Takes
    <2> QED
        BY <1>5, <2>3, <2>4 DEF FileReady
  <1>6. CASE writes[t] = <<l, n>> /\ FileLocked(t, p)
    <2>1. /\ writes[t] # <<>> /\ Head(writes[t]) = l /\ Tail(writes[t]) = <<n>>
        BY <1>2, <1>6, ListFacts
    <2>2. /\ After(t, "execute", s, <<>>, <<n>>, <<>>, deferred[t], {})
          /\ Takes(t, ReleasesRow[p], 1)
        BY <1>1, <1>2, <2>1, ExecutesWrite
    <2>3. Upto(t, 3)
        BY <1>6, UptoRises DEF FileLocked
    <2>4. Upto(t, 3)'
        BY <1>3, <2>2, <2>3, TakesUpto
    <2>5. held[t][ReleasesRow[p]] \in Nat
        BY <1>3 DEF TypeOK, LockType
    <2>6. held'[t][ReleasesRow[p]] # 0
        BY <1>3, <2>2, <2>5 DEF Takes
    <2> QED
        BY <1>4, <2>2, <2>4, <2>6, <1>1 DEF Takes
  <1>7. CASE writes[t] = <<n>> /\ Upto(t, 3) /\ h # 0
    <2>1. /\ writes[t] # <<>> /\ Head(writes[t]) = n /\ Tail(writes[t]) = <<>>
        BY <1>2, <1>7, ListFacts
    <2>2. /\ After(t, "execute", s, <<>>, <<>>, <<>>, deferred[t], {})
          /\ Takes(t, p, 2)
        BY <1>1, <1>2, <2>1, ExecutesWrite
    <2>3. UptoProject(t, p)'
        BY <1>7, <2>2, TakesProject
    <2>4. Flushing(t, s, <<>>, <<>>)' /\ deferred'[t] = deferred[t]
        BY <1>1, <2>2 DEF After, Flushing
    <2>5. advisory' # t /\ toLock'[t] = {}
        BY <2>2 DEF After, Takes
    <2>6. CASE s = <<>>
      <3>1. Restores(t, p)'
          BY <1>1, <2>3, <2>4, <2>6 DEF Restores, Rest
      <3> QED
          BY <2>5, <3>1 DEF WorkerInOrder, BeforeJournals
    <2>7. CASE s # <<>>
      <3>1. held'[t][p] = NoKeyUpdate
          BY <1>3, <2>2, TakesKeeps DEF NoKeyUpdate
      <3>2. held'[t][ReleasesRow[p]] # 0
          BY <1>3, <1>7, <2>2 DEF Takes, TypeOK, LockType
      <3>3. pending'[t] = <<>> /\ deferred'[t] = <<>> /\ s \in Urls(p)
          BY <1>1, <2>2, <2>4, <2>7 DEF After
      <3>4. ChecksUrls(t, p)'
          BY <2>3, <2>4, <3>1, <3>2, <3>3 DEF ChecksUrls
      <3> QED
          BY <2>5, <3>4 DEF WorkerInOrder, BeforeJournals
    <2> QED
        BY <2>6, <2>7
  <1> QED
      BY <1>1, <1>5, <1>6, <1>7

-----------------------------------------------------------------------------
(* The journal entries: restored, flushed under the advisory lock, and     *)
(* what comes after them.                                                  *)

LEMMA RestoresStep ==
  ASSUME TypeOK, ScriptType, MildLocks, NEW t \in Tx, Acts(t),
         NEW p \in Projects, advisory # t, toLock[t] = {}, Restores(t, p)
  PROVE  /\ WorkerInOrder(t)'
         /\ ((BeforeJournals(t, p) /\ Restores(t, p)) \/ LocksProject(t, p))'
  <1>1. PICK s \in Rest(p) :
          \/ deferred[t] \in Only(p) /\ Flushing(t, s, <<>>, <<>>)
          \/ pending[t] \in Only(p) /\ Loaded(t, s, <<>>, <<>>)
      BY DEF Restores
  <1>2. /\ writes[t] = <<>> /\ deletes[t] = <<>> /\ script[t] = s
        /\ UptoProject(t, p)
      BY <1>1 DEF Restores, Loaded, Flushing
  <1>3. ASSUME After(t, "open", s, pending'[t], <<>>, <<>>, <<>>, {}),
               SameLocks(t), pending'[t] \in Only(p)
        PROVE  WorkerInOrder(t)' /\ BeforeJournals(t, p)' /\ Restores(t, p)'
    <2>1. Restores(t, p)'
        BY <1>2, <1>3, SameUpto DEF Restores, Loaded, After
    <2> QED
        BY <1>3, <2>1 DEF WorkerInOrder, BeforeJournals, After, SameLocks
  <1>4. CASE deferred[t] \in Only(p) /\ Flushing(t, s, <<>>, <<>>)
    <2>1. pc[t] = "execute" /\ pending[t] = <<>>
        BY <1>4 DEF Flushing
    <2>2. /\ After(t, "open", s, deferred[t], <<>>, <<>>, <<>>, {})
          /\ SameLocks(t)
        BY <1>2, <2>1, ExecuteEffect
    <2> QED
        BY <1>3, <1>4, <2>2 DEF After
  <1>5. CASE pending[t] \in Only(p) /\ Loaded(t, s, <<>>, <<>>)
    <2>1. /\ pc[t] = "open" /\ deferred[t] = <<>>
          /\ pending[t] \in Seq({p}) /\ pending[t] # <<>> /\ ~Clean(t)
        BY <1>5 DEF Loaded, Only, Clean
    <2>2. ASSUME NEW r \in {<<>>, FileDeletes(p)}, SessionFlushed(t, r),
                 SameLocks(t)
          PROVE  WorkerInOrder(t)' /\ LocksProject(t, p)'
      <3>1. After(t, "lockRows", r, pending[t], <<>>, <<>>, <<>>, {p})
          BY <1>2, <2>1, <2>2, EntryFacts DEF SessionFlushed
      <3>2. UptoProject(t, p)'
          BY <1>2, <2>2, SameUpto
      <3>3. LocksProject(t, p)'
          BY <1>5, <2>2, <3>1, <3>2 DEF LocksProject, After, Alone, SameLocks
      <3> QED
          BY <3>3 DEF WorkerInOrder
    <2>3. CASE s = <<>>
        BY <1>2, <1>3, <1>5, <2>1, <2>2, <2>3, FinishEffect DEF After
    <2>4. CASE s = LastQuery(p)
      <3>1. script[t] = Cons(Query(p), <<>>)
          BY <1>2, <2>4 DEF LastQuery
      <3>2. SessionFlushed(t, <<>>) /\ SameLocks(t)
          BY <2>1, <3>1, EndFacts, QueryEffect
      <3> QED
          BY <2>2, <3>2
    <2>5. CASE s = FileQuery(p)
      <3>1. script[t] = Cons(Query(p), FileDeletes(p))
          BY <1>2, <2>5 DEF FileQuery
      <3>2. SessionFlushed(t, FileDeletes(p)) /\ SameLocks(t)
          BY <2>1, <3>1, RemovalFacts, QueryEffect
      <3> QED
          BY <2>2, <3>2
    <2> QED
        BY <2>3, <2>4, <2>5 DEF Rest
  <1> QED
      BY <1>1, <1>4, <1>5

LEMMA LocksProjectStep ==
  ASSUME TypeOK, ScriptType, MildLocks, NEW t \in Tx, Acts(t),
         NEW p \in Projects, LocksProject(t, p)
  PROVE  WorkerInOrder(t)' /\ (LocksProject(t, p) \/ Inserts(t, p))'
  <1>1. pc[t] = "lockRows" /\ p \in Rows
      BY RowFacts DEF LocksProject
  <1>2. CASE toLock[t] = {p}
    <2>1. /\ After(t, "lockRows", script[t], pending[t], writes[t],
                   deletes[t], deferred[t], {})
          /\ Takes(t, p, NoKeyUpdate)
        BY <1>1, <1>2, LockRowsEffect
    <2>2. UptoProject(t, p)' /\ held'[t][p] = NoKeyUpdate
        BY <1>1, <2>1, TakesProject, TakesKeeps DEF LocksProject, NoKeyUpdate
    <2>3. LocksProject(t, p)'
        BY <2>1, <2>2 DEF LocksProject, After, Alone, Takes
    <2> QED
        BY <2>3 DEF WorkerInOrder
  <1>3. CASE toLock[t] = {} /\ held[t][p] = NoKeyUpdate
    <2>1. /\ After(t, "execute", script[t], pending[t], writes[t],
                   deletes[t], deferred[t], {})
          /\ held' = held /\ advisory' = t
        BY <1>1, <1>3, LockRowsEffect
    <2>2. UptoProject(t, p)'
        BY <2>1 DEF LocksProject, UptoProject, Counts
    <2>3. Inserts(t, p)'
        BY <1>3, <2>1, <2>2 DEF LocksProject, Inserts, After, Alone, Only
    <2> QED
        BY <2>3 DEF WorkerInOrder
  <1> QED
      BY <1>2, <1>3 DEF LocksProject

LEMMA InsertsStep ==
  ASSUME TypeOK, ScriptType, MildLocks, NEW t \in Tx, Acts(t),
         NEW p \in Projects, Inserts(t, p)
  PROVE  WorkerInOrder(t)'
  <1>1. /\ pc[t] = "execute" /\ p \in Rows /\ advisory = t /\ toLock[t] = {}
        /\ writes[t] = <<>> /\ deletes[t] = <<>> /\ deferred[t] = <<>>
        /\ pending[t] \in Seq({p}) /\ UptoProject(t, p)
        /\ held[t][p] = NoKeyUpdate
      BY RowFacts DEF Inserts, Alone
  <1>2. CASE pending[t] # <<>>
    <2>1. Head(pending[t]) = p /\ Tail(pending[t]) \in Seq({p})
        BY <1>1, <1>2, EntryFacts
    <2>2. /\ After(t, "execute", script[t], Tail(pending[t]), <<>>, <<>>,
                   <<>>, {})
          /\ Takes(t, p, NoKeyUpdate)
        BY <1>1, <1>2, <2>1, ExecuteEffect DEF Clean
    <2>3. UptoProject(t, p)' /\ held'[t][p] = NoKeyUpdate
        BY <1>1, <2>2, TakesProject, TakesKeeps DEF NoKeyUpdate
    <2>4. Inserts(t, p)'
        BY <1>1, <2>1, <2>2, <2>3 DEF Inserts, After, Alone, Takes
    <2> QED
        BY <2>4 DEF WorkerInOrder
  <1>3. CASE pending[t] = <<>>
    <2>1. /\ After(t, "open", script[t], <<>>, <<>>, <<>>, <<>>, {})
          /\ SameLocks(t)
        BY <1>1, <1>3, ExecuteEffect
    <2>2. UptoProject(t, p)' /\ held'[t][p] = NoKeyUpdate
        BY <1>1, <2>1, SameUpto DEF SameLocks
    <2>3. Ends(t, p)'
        BY <1>1, <2>1, <2>2 DEF Inserts, Ends, After, SameLocks
    <2> QED
        BY <2>3 DEF WorkerInOrder
  <1> QED
      BY <1>2, <1>3

LEMMA EndsStep ==
  ASSUME TypeOK, ScriptType, MildLocks, NEW t \in Tx, Acts(t),
         NEW p \in Projects, Ends(t, p)
  PROVE  WorkerInOrder(t)'
  <1> DEFINE f == FilesLock(p)
             n == ProjectLock(p)
             d == Delete(p, NoKeyUpdate)
  <1>1. /\ advisory = t /\ toLock[t] = {} /\ pending[t] = <<>>
        /\ writes[t] = <<>> /\ deferred[t] = <<>>
        /\ UptoProject(t, p) /\ held[t][p] = NoKeyUpdate
      BY DEF Ends
  <1>2. /\ f \in Mild /\ n \in Mild /\ d \in Ops
        /\ Delete(FilesRow[p], Update) \in Ops
        /\ f = Lock(FilesRow[p], Update) /\ n = Lock(p, NoKeyUpdate)
        /\ f.row = FilesRow[p] /\ f.mode = 3 /\ n.row = p /\ n.mode = 2
      BY LockFacts, OpFacts
      DEF FilesLock, ProjectLock, NoKeyUpdate, Update, Lock
  <1>3. /\ FilesRow[p] \in Rows /\ p \in Rows /\ FilesRow[p] # p
        /\ Rank(FilesRow[p]) <= 3
        /\ <<>> \in Seq(Ops) /\ Cons(d, <<>>) \in Seq(Ops)
      BY RowFacts, RemovalFacts, EndFacts
  <1>4. /\ Append(<<>>, f) = <<f>> /\ Append(<<f>>, n) = <<f, n>>
        /\ Head(<<f, n>>) = f /\ Tail(<<f, n>>) = <<n>> /\ <<f, n>> # <<>>
        /\ Head(<<n>>) = n /\ Tail(<<n>>) = <<>> /\ <<n>> # <<>>
      BY <1>2, ListFacts, Zenon
  <1> HIDE DEF f, n, d
  <1>5. ASSUME NEW c, NEW s, NEW e,
               After(t, c, s, <<>>, <<>>, e, <<>>, {}), advisory' = t,
               UptoProject(t, p)', held'[t][p] = NoKeyUpdate,
               \/ c = "open" /\ s = FileDeletes(p) /\ e = <<>>
               \/ c = "open" /\ s = Cons(d, <<>>) /\ e = <<f>>
               \/ /\ c \in {"open", "execute"} /\ s = <<>>
                  /\ e \in {<<>>, <<n>>, <<f, n>>}
        PROVE  WorkerInOrder(t)'
    <2>1. Ends(t, p)'
        BY <1>5 DEF Ends, After, f, n, d
    <2> QED
        BY <2>1 DEF WorkerInOrder
  <1>6. SameLocks(t) => /\ advisory' = t /\ UptoProject(t, p)'
                        /\ held'[t][p] = NoKeyUpdate
      BY <1>1, SameUpto DEF SameLocks
  <1>7. CASE /\ pc[t] = "open"
             /\ script[t] = FileDeletes(p) /\ deletes[t] = <<>>
    <2>1. script[t] = Cons(Delete(FilesRow[p], Update), Cons(d, <<>>))
        BY <1>7 DEF FileDeletes, d
    <2>2. /\ After(t, "open", Cons(d, <<>>), <<>>, <<>>, Append(<<>>, f),
                   <<>>, {})
          /\ SameLocks(t)
        BY <1>1, <1>2, <1>3, <1>7, <2>1, DeleteEffect
    <2> QED
        BY <1>4, <1>5, <1>6, <2>2
  <1>8. CASE /\ pc[t] = "open"
             /\ script[t] = Cons(d, <<>>) /\ deletes[t] = <<f>>
    <2>1. script[t] = Cons(Delete(p, NoKeyUpdate), <<>>)
        BY <1>8 DEF d
    <2>2. /\ After(t, "open", <<>>, <<>>, <<>>, Append(<<f>>, n), <<>>, {})
          /\ SameLocks(t)
        BY <1>1, <1>2, <1>3, <1>8, <2>1, DeleteEffect DEF d
    <2> QED
        BY <1>4, <1>5, <1>6, <2>2
  <1>9. CASE /\ pc[t] = "open" /\ script[t] = <<>>
             /\ deletes[t] \in {<<>>, <<n>>, <<f, n>>}
    <2>1. \/ /\ \/ After(t, "open", <<>>, <<>>, <<>>, deletes[t], <<>>, {})
                \/ After(t, "execute", <<>>, <<>>, <<>>, deletes[t], <<>>, {})
             /\ SameLocks(t)
          \/ Idle(t)'
        BY <1>1, <1>9, FinishEffect DEF SessionFlushed
    <2> QED
        BY <1>5, <1>6, <1>9, <2>1 DEF WorkerInOrder
  <1>10. CASE /\ pc[t] = "execute" /\ script[t] = <<>>
              /\ deletes[t] \in {<<>>, <<n>>, <<f, n>>}
    <2>1. CASE deletes[t] = <<>>
      <3>1. After(t, "open", <<>>, <<>>, <<>>, <<>>, <<>>, {}) /\ SameLocks(t)
          BY <1>1, <1>10, <2>1, ExecuteEffect
      <3> QED
          BY <1>5, <1>6, <3>1
    <2>2. CASE deletes[t] = <<n>>
      <3>1. /\ After(t, "execute", <<>>, <<>>, <<>>, <<>>, <<>>, {})
            /\ Takes(t, p, 2)
        <4>1. /\ writes[t] = <<>> /\ pending[t] = <<>> /\ deletes[t] # <<>>
              /\ Tail(deletes[t]) = <<>>
              /\ Head(deletes[t]).row = p /\ Head(deletes[t]).mode = 2
            BY <1>1, <1>2, <1>4, <2>2
        <4>2. /\ After(t, "execute", script[t], pending[t], writes[t],
                       Tail(deletes[t]), deferred[t], toLock[t])
              /\ Takes(t, Head(deletes[t]).row, Head(deletes[t]).mode)
            BY <1>10, <4>1, ExecutesDelete
        <4> QED
            BY ONLY <1>1, <1>10, <4>1, <4>2
      <3>2. UptoProject(t, p)' /\ held'[t][p] = NoKeyUpdate
          BY <1>1, <1>3, <3>1, TakesProject, TakesKeeps DEF NoKeyUpdate
      <3> QED
          BY <1>1, <1>5, <3>1, <3>2 DEF Takes
    <2>3. CASE deletes[t] = <<f, n>>
      <3>1. /\ After(t, "execute", <<>>, <<>>, <<>>, <<n>>, <<>>, {})
            /\ Takes(t, FilesRow[p], 3)
          BY <1>1, <1>2, <1>4, <1>10, <2>3, ExecutesDelete
      <3>2. UptoProject(t, p)' /\ held'[t][p] = NoKeyUpdate
          BY <1>1, <1>3, <3>1, TakesBelow, TakesKeeps
      <3> QED
          BY <1>1, <1>5, <3>1, <3>2 DEF Takes
    <2> QED
        BY <1>10, <2>1, <2>2, <2>3
  <1> QED
      BY <1>7, <1>8, <1>9, <1>10 DEF Ends, f, n, d

(* An upload whose file is in, up to its journal entry. *)
LEMMA ChecksUrlsStep ==
  ASSUME TypeOK, ScriptType, MildLocks, NEW t \in Tx, Acts(t),
         NEW p \in Projects, advisory # t, toLock[t] = {}, ChecksUrls(t, p)
  PROVE  WorkerInOrder(t)'
  <1> DEFINE v == VerifiedLock(p)
             w == Write(ReleasesRow[p], NoKeyUpdate)
  <1>1. /\ UptoProject(t, p) /\ deletes[t] = <<>>
        /\ held[t][p] = NoKeyUpdate /\ held[t][ReleasesRow[p]] # 0
      BY DEF ChecksUrls, Flushing, Loaded
  <1>2. /\ v \in Mild /\ v = Lock(ReleasesRow[p], NoKeyUpdate)
        /\ v.row = ReleasesRow[p] /\ v.mode = 2
      BY LockFacts DEF VerifiedLock, ReleasesLock, NoKeyUpdate, Lock
  <1>3. /\ Append(<<>>, v) = <<v>> /\ Head(<<v>>) = v /\ Tail(<<v>>) = <<>>
        /\ <<v>> # <<>>
      BY <1>2, OneLock
  <1>4. /\ w \in Ops /\ Verifies(p) = Cons(w, OneEntry(p))
        /\ OneEntry(p) = Cons(Journal(p), LastQuery(p))
        /\ LastQuery(p) = Cons(Query(p), <<>>)
        /\ OneEntry(p) \in Seq(Ops) /\ LastQuery(p) \in Seq(Ops)
        /\ <<>> \in Seq(Ops)
      BY EndFacts, OpFacts DEF Verifies, OneEntry, LastQuery
  <1>5. /\ ReleasesRow[p] \in Rows /\ ReleasesRow[p] # p
        /\ Rank(ReleasesRow[p]) <= 3
      BY RowFacts
  <1> HIDE DEF v, w
  <1>6. SameLocks(t) =>
           /\ UptoProject(t, p)' /\ held'[t][p] = NoKeyUpdate
           /\ held'[t][ReleasesRow[p]] # 0 /\ advisory' # t
      BY <1>1, SameUpto DEF SameLocks
  <1>7. ASSUME ChecksUrls(t, p)', advisory' # t, toLock'[t] = {}
        PROVE  WorkerInOrder(t)'
      BY <1>7 DEF WorkerInOrder, BeforeJournals
  <1>8. ASSUME NEW s \in Urls(p), pending[t] = <<>>, deferred[t] = <<>>,
               Flushing(t, s, <<>>, <<>>)
        PROVE  WorkerInOrder(t)'
    <2>1. /\ After(t, "open", s, <<>>, <<>>, <<>>, <<>>, {})
          /\ SameLocks(t)
        BY <1>1, <1>8, ExecuteEffect DEF Flushing
    <2>2. Loaded(t, s, <<>>, <<>>)' /\ pending'[t] = <<>> /\ deferred'[t] = <<>>
        BY <2>1 DEF After, Loaded
    <2>3. ChecksUrls(t, p)'
        BY <1>6, <2>1, <2>2 DEF ChecksUrls
    <2> QED
        BY <1>6, <1>7, <2>1, <2>3 DEF After
  <1>9. ASSUME NEW e \in {<<>>, <<v>>}, pending[t] = <<>>, deferred[t] = <<>>,
               Loaded(t, OneEntry(p), e, <<>>)
        PROVE  WorkerInOrder(t)'
    <2>1. /\ After(t, "open", LastQuery(p), Append(<<>>, p), e, <<>>, <<>>, {})
          /\ SameLocks(t)
        BY <1>4, <1>9, JournalEffect DEF Loaded
    <2>2. Append(<<>>, p) \in Only(p)
        BY EntryFacts, EmptySeq
    <2>3. pending'[t] \in Only(p) /\ Loaded(t, LastQuery(p), e, <<>>)'
        BY <2>1, <2>2 DEF After, Loaded
    <2>4. CASE e = <<v>>
      <3>1. ChecksUrls(t, p)'
          BY <1>6, <2>1, <2>3, <2>4 DEF ChecksUrls, v
      <3> QED
          BY <1>6, <1>7, <2>1, <3>1 DEF After
    <2>5. CASE e = <<>>
      <3>1. Restores(t, p)'
          BY <1>6, <2>1, <2>3, <2>5 DEF Restores, Rest
      <3> QED
          BY <1>6, <2>1, <3>1 DEF WorkerInOrder, BeforeJournals, After
    <2> QED
        BY <2>4, <2>5
  <1>10. ASSUME pending[t] = <<>>, deferred[t] = <<>>,
                Loaded(t, Verifies(p), <<>>, <<>>)
         PROVE  WorkerInOrder(t)'
    <2>1. /\ After(t, "open", OneEntry(p), <<>>, Append(<<>>, v), <<>>, <<>>, {})
          /\ SameLocks(t)
        BY <1>2, <1>4, <1>10, WriteEffect DEF Loaded, w
    <2>2. /\ Loaded(t, OneEntry(p), <<v>>, <<>>)' /\ pending'[t] = <<>>
          /\ deferred'[t] = <<>>
        BY <1>3, <2>1 DEF After, Loaded
    <2>3. ChecksUrls(t, p)'
        BY <1>6, <2>1, <2>2 DEF ChecksUrls, v
    <2> QED
        BY <1>6, <1>7, <2>1, <2>3 DEF After
  <1>11. CASE pending[t] \in Only(p) /\ Loaded(t, LastQuery(p), <<v>>, <<>>)
    <2>1. /\ pc[t] = "open" /\ pending[t] \in Seq({p}) /\ pending[t] # <<>>
          /\ ~Clean(t) /\ writes[t] = <<v>> /\ deferred[t] = <<>>
        BY <1>11 DEF Loaded, Only, Clean
    <2>2. /\ After(t, "execute", <<>>, <<>>, <<v>>, <<>>, <<>> \o pending[t], {})
          /\ SameLocks(t)
        BY <1>1, <1>3, <1>4, <1>11, <2>1, QueryEffect
        DEF Loaded, SessionFlushed
    <2>3. <<>> \o pending[t] \in Only(p)
        BY <2>1, EntryFacts
    <2>4. deferred'[t] \in Only(p) /\ Flushing(t, <<>>, <<v>>, <<>>)'
        BY <2>2, <2>3 DEF After, Flushing
    <2>5. ChecksUrls(t, p)'
        BY <1>6, <2>2, <2>4 DEF ChecksUrls, v
    <2> QED
        BY <1>6, <1>7, <2>2, <2>5 DEF After
  <1>12. CASE deferred[t] \in Only(p) /\ Flushing(t, <<>>, <<v>>, <<>>)
    <2>1. /\ After(t, "execute", <<>>, <<>>, <<>>, <<>>, deferred[t], {})
          /\ Takes(t, ReleasesRow[p], 2)
        BY <1>2, <1>3, <1>12, ExecutesWrite DEF Flushing
    <2>2. UptoProject(t, p)'
        BY <1>1, <1>5, <2>1, TakesBelow
    <2>3. Restores(t, p)'
        BY <1>12, <2>1, <2>2 DEF Restores, Rest, Flushing, After
    <2> QED
        BY <2>1, <2>3 DEF WorkerInOrder, BeforeJournals, After, Takes
  <1> QED
      BY <1>8, <1>9, <1>10, <1>11, <1>12 DEF ChecksUrls, Urls, v

(* The task that marks a file as cached. *)
LEMMA SyncsStep ==
  ASSUME TypeOK, ScriptType, MildLocks, NEW t \in Tx, Acts(t),
         NEW p \in Projects, advisory # t, toLock[t] = {}, Syncs(t, p)
  PROVE  WorkerInOrder(t)'
  <1> DEFINE c == CachedLock(p)
             n == ProjectLock(p)
  <1>1. /\ pending[t] = <<>> /\ deferred[t] = <<>> /\ deletes[t] = <<>>
      BY DEF Syncs, Flushing, Loaded
  <1>2. /\ c \in Mild /\ c = Lock(FilesRow[p], NoKeyUpdate)
        /\ c.row = FilesRow[p] /\ c.mode = 2
        /\ n \in Mild /\ n = Lock(p, NoKeyUpdate) /\ n.row = p /\ n.mode = 2
      BY LockFacts DEF CachedLock, ProjectLock, NoKeyUpdate, Lock
  <1>3. /\ Append(<<>>, c) = <<c>> /\ Append(<<c>>, n) = <<c, n>>
        /\ Head(<<c, n>>) = c /\ Tail(<<c, n>>) = <<n>> /\ <<c, n>> # <<>>
        /\ Head(<<n>>) = n /\ Tail(<<n>>) = <<>> /\ <<n>> # <<>>
      BY <1>2, OneLock, TwoLocks
  <1>4. /\ Write(FilesRow[p], NoKeyUpdate) \in Ops /\ <<>> \in Seq(Ops)
        /\ Write(p, NoKeyUpdate) \in Ops /\ CachedSized(p) \in Seq(Ops)
        /\ Cached(p) = Cons(Write(FilesRow[p], NoKeyUpdate), CachedSized(p))
        /\ CachedSized(p) = Cons(Write(p, NoKeyUpdate), <<>>)
        /\ FilesRow[p] \in Rows /\ p \in Rows /\ Rank(FilesRow[p]) = 3
      BY EndFacts, OpFacts, RowFacts, UrlFacts DEF Cached, CachedSized
  <1> HIDE DEF c, n
  <1>5. ASSUME NEW s, NEW w, NEW e,
               After(t, e, s, <<>>, w, <<>>, <<>>, {}), advisory' # t,
               \/ Upto(t, 0)' /\ e = "open" /\ s = CachedSized(p) /\ w = <<c>>
               \/ /\ Upto(t, 0)' /\ e \in {"open", "execute"}
                  /\ s = <<>> /\ w = <<c, n>>
               \/ Upto(t, 3)' /\ e = "execute" /\ s = <<>> /\ w = <<n>>
               \/ /\ UptoProject(t, p)' /\ e \in {"open", "execute"}
                  /\ s = <<>> /\ w = <<>>
        PROVE  WorkerInOrder(t)'
    <2>1. Syncs(t, p)'
        BY <1>5 DEF Syncs, After, Loaded, Flushing, c, n
    <2> QED
        BY <1>5, <2>1 DEF WorkerInOrder, BeforeJournals, After
  <1>6. CASE Upto(t, 0) /\ Loaded(t, Cached(p), <<>>, <<>>)
    <2>1. /\ After(t, "open", CachedSized(p), <<>>, Append(<<>>, c), <<>>, <<>>, {})
          /\ SameLocks(t)
        BY <1>1, <1>2, <1>4, <1>6, WriteEffect DEF Loaded
    <2> QED
        BY <1>3, <1>5, <1>6, <2>1, SameUpto DEF SameLocks
  <1>11. CASE Upto(t, 0) /\ Loaded(t, CachedSized(p), <<c>>, <<>>)
    <2>1. /\ After(t, "open", <<>>, <<>>, Append(<<c>>, n), <<>>, <<>>, {})
          /\ SameLocks(t)
        BY <1>1, <1>2, <1>4, <1>11, WriteEffect DEF Loaded
    <2> QED
        BY <1>3, <1>5, <1>11, <2>1, SameUpto DEF SameLocks
  <1>7. CASE Upto(t, 0) /\ Loaded(t, <<>>, <<c, n>>, <<>>)
    <2>1. /\ ~Clean(t) /\ pc[t] = "open" /\ script[t] = <<>>
          /\ writes[t] = <<c, n>>
        BY <1>3, <1>7 DEF Loaded, Clean
    <2>2. /\ \/ After(t, "open", <<>>, <<>>, <<c, n>>, <<>>, <<>>, {})
             \/ After(t, "execute", <<>>, <<>>, <<c, n>>, <<>>, <<>>, {})
          /\ SameLocks(t)
        BY <1>1, <2>1, FinishEffect DEF SessionFlushed
    <2> QED
        BY <1>5, <1>7, <2>2, SameUpto DEF SameLocks
  <1>8. CASE Upto(t, 0) /\ Flushing(t, <<>>, <<c, n>>, <<>>)
    <2>1. /\ After(t, "execute", <<>>, <<>>, <<n>>, <<>>, <<>>, {})
          /\ Takes(t, FilesRow[p], 2)
        BY <1>1, <1>2, <1>3, <1>8, ExecutesWrite DEF Flushing
    <2>2. Upto(t, 3)'
        BY <1>4, <1>8, <2>1, TakesUpto
    <2> QED
        BY <1>5, <2>1, <2>2 DEF Takes
  <1>12. CASE Upto(t, 3) /\ Flushing(t, <<>>, <<n>>, <<>>)
    <2>1. /\ After(t, "execute", <<>>, <<>>, <<>>, <<>>, <<>>, {})
          /\ Takes(t, p, 2)
        BY <1>1, <1>2, <1>3, <1>12, ExecutesWrite DEF Flushing
    <2>2. UptoProject(t, p)'
        BY <1>4, <1>12, <2>1, TakesProject
    <2> QED
        BY <1>5, <2>1, <2>2 DEF Takes
  <1>9. CASE UptoProject(t, p) /\ Flushing(t, <<>>, <<>>, <<>>)
    <2>1. /\ After(t, "open", <<>>, <<>>, <<>>, <<>>, <<>>, {})
          /\ SameLocks(t)
        BY <1>1, <1>9, ExecuteEffect DEF Flushing
    <2> QED
        BY <1>5, <1>9, <2>1, SameUpto DEF SameLocks
  <1>10. CASE UptoProject(t, p) /\ Loaded(t, <<>>, <<>>, <<>>)
    <2>1. \/ /\ After(t, "open", <<>>, <<>>, <<>>, <<>>, <<>>, {})
             /\ SameLocks(t)
          \/ Idle(t)'
        BY <1>1, <1>10, FinishEffect DEF Loaded, SessionFlushed, Clean
    <2> QED
        BY <1>5, <1>10, <2>1, SameUpto DEF SameLocks, WorkerInOrder
  <1> QED
      BY <1>6, <1>7, <1>8, <1>9, <1>10, <1>11, <1>12 DEF Syncs, c, n

-----------------------------------------------------------------------------
(* The requests, up to the flush that defers their journal entries. *)

LEMMA AddsReleaseStep ==
  ASSUME TypeOK, ScriptType, MildLocks, NEW t \in Tx, Acts(t),
         NEW p \in Projects, NEW u \in DOMAIN VersionRow[p],
         advisory # t, toLock[t] = {}, AddsRelease(t, p, u)
  PROVE  WorkerInOrder(t)'
  <1> DEFINE v == VersionLock(p, u)
             k == ReferenceLock(p)
             l == ReleasesLock(p, Update)
  <1>1. pending[t] = <<>> /\ deferred[t] = <<>> /\ deletes[t] = <<>>
      BY DEF AddsRelease, Loaded, Flushing
  <1>2. v \in Mild /\ k \in Mild /\ l \in Mild
      BY LockFacts DEF Update
  <1>3. /\ v = Lock(VersionRow[p][u], Update) /\ k = Lock(p, KeyShare)
        /\ l = Lock(ReleasesRow[p], Update)
        /\ v.row = VersionRow[p][u] /\ v.mode = 3 /\ k.row = p /\ k.mode = 1
        /\ l.row = ReleasesRow[p] /\ l.mode = 3
      BY DEF VersionLock, ReferenceLock, ReleasesLock, KeyShare, Update, Lock
  <1>4. /\ VersionRow[p][u] \in Rows /\ p \in Rows /\ ReleasesRow[p] \in Rows
        /\ Rank(VersionRow[p][u]) = 1 /\ Rank(ReleasesRow[p]) = 2
      BY RowFacts, VersionFacts
  <1>5. /\ Append(<<>>, v) = <<v>> /\ Append(<<v>>, k) = <<v, k>>
        /\ Append(<<>>, l) = <<l>>
        /\ Head(<<v, k>>) = v /\ Tail(<<v, k>>) = <<k>> /\ <<v, k>> # <<>>
        /\ Head(<<k>>) = k /\ Tail(<<k>>) = <<>> /\ <<k>> # <<>>
        /\ Head(<<l>>) = l /\ Tail(<<l>>) = <<>> /\ <<l>> # <<>>
      BY <1>2, ListFacts, Zenon
  <1> HIDE DEF v, k, l
  <1>6. ASSUME NEW c, NEW s, NEW w,
               After(t, c, s, <<>>, w, <<>>, <<>>, {}), advisory' # t,
               \/ /\ Upto(t, 0)'
                  /\ \/ c = "open" /\ s = Owned(p, u) /\ w = <<v>>
                     \/ c = "open" /\ s = Flushed(p, u) /\ w = <<v, k>>
                     \/ c = "execute" /\ s = Sorts(p, u) /\ w = <<v, k>>
               \/ /\ Upto(t, 1)'
                  /\ \/ c = "execute" /\ s = Sorts(p, u) /\ w \in {<<k>>, <<>>}
                     \/ c = "open" /\ s = Sorts(p, u) /\ w = <<>>
                     \/ c = "open" /\ s = Sorted(p, u) /\ w = <<l>>
                     \/ c = "execute" /\ s = Filed(p, u) /\ w = <<l>>
               \/ /\ Upto(t, 2)' /\ SortedReleases(t, p)'
                  /\ c = "execute" /\ s = Filed(p, u) /\ w = <<>>
        PROVE  WorkerInOrder(t)'
    <2>1. /\ c = "open" => Loaded(t, s, w, <<>>)'
          /\ c = "execute" => Flushing(t, s, w, <<>>)'
          /\ pending'[t] = <<>> /\ deferred'[t] = <<>> /\ toLock'[t] = {}
        BY <1>6 DEF After, Loaded, Flushing
    <2>2. AddsRelease(t, p, u)'
        BY <1>6, <2>1 DEF AddsRelease, v, k, l
    <2> QED
        BY <1>6, <2>1, <2>2 DEF WorkerInOrder, BeforeJournals
  <1>7. CASE Upto(t, 0) /\ Loaded(t, Versioned(p, u), <<>>, <<>>)
    <2>1. script[t] = Cons(Write(VersionRow[p][u], Update), Owned(p, u))
        BY <1>7 DEF Loaded, Versioned
    <2>2. Write(VersionRow[p][u], Update) \in Ops /\ Owned(p, u) \in Seq(Ops)
        BY OpFacts, ReleaseFacts
    <2>3. /\ After(t, "open", Owned(p, u), <<>>, Append(<<>>, v), <<>>, <<>>, {})
          /\ SameLocks(t)
        BY <1>1, <1>3, <1>7, <2>1, <2>2, WriteEffect DEF Loaded
    <2> QED
        BY <1>5, <1>6, <1>7, <2>3, SameUpto DEF SameLocks
  <1>8. CASE Upto(t, 0) /\ Loaded(t, Owned(p, u), <<v>>, <<>>)
    <2>1. script[t] = Cons(Write(p, KeyShare), Flushed(p, u))
        BY <1>8 DEF Loaded, Owned
    <2>2. Write(p, KeyShare) \in Ops /\ Flushed(p, u) \in Seq(Ops)
        BY OpFacts, ReleaseFacts
    <2>3. /\ After(t, "open", Flushed(p, u), <<>>, Append(<<v>>, k), <<>>,
                   <<>>, {})
          /\ SameLocks(t)
        BY <1>1, <1>3, <1>8, <2>1, <2>2, WriteEffect DEF Loaded
    <2> QED
        BY <1>5, <1>6, <1>8, <2>3, SameUpto DEF SameLocks
  <1>9. CASE Upto(t, 0) /\ Loaded(t, Flushed(p, u), <<v, k>>, <<>>)
    <2>1. script[t] = Cons(Query(p), Sorts(p, u)) /\ Sorts(p, u) \in Seq(Ops)
        BY <1>9, ReleaseFacts DEF Loaded, Flushed
    <2>2. writes[t] = <<v, k>> /\ ~Clean(t) /\ pc[t] = "open"
        BY <1>5, <1>9 DEF Loaded, Clean
    <2>3. /\ After(t, "execute", Sorts(p, u), <<>>, <<v, k>>, <<>>, <<>>, {})
          /\ SameLocks(t)
        BY <1>1, <2>1, <2>2, QueryEffect DEF SessionFlushed
    <2> QED
        BY <1>6, <1>9, <2>3, SameUpto DEF SameLocks
  <1>10. CASE Upto(t, 0) /\ Flushing(t, Sorts(p, u), <<v, k>>, <<>>)
    <2>1. writes[t] = <<v, k>> /\ pc[t] = "execute" /\ script[t] = Sorts(p, u)
        BY <1>10 DEF Flushing
    <2>2. /\ After(t, "execute", Sorts(p, u), <<>>, <<k>>, <<>>, <<>>, {})
          /\ Takes(t, VersionRow[p][u], 3)
        BY <1>1, <1>3, <1>5, <2>1, ExecutesWrite
    <2>3. Upto(t, 1)'
        BY <1>4, <1>10, <2>2, TakesUpto
    <2> QED
        BY <1>6, <2>2, <2>3 DEF Takes
  <1>11. CASE Upto(t, 1) /\ Flushing(t, Sorts(p, u), <<k>>, <<>>)
    <2>1. writes[t] = <<k>> /\ pc[t] = "execute" /\ script[t] = Sorts(p, u)
        BY <1>11 DEF Flushing
    <2>2. /\ After(t, "execute", Sorts(p, u), <<>>, <<>>, <<>>, <<>>, {})
          /\ Takes(t, p, 1)
        BY <1>1, <1>3, <1>5, <2>1, ExecutesWrite
    <2>3. Upto(t, 1)'
        BY <1>4, <1>11, <2>2, TakesUpto DEF KeyShare
    <2> QED
        BY <1>6, <2>2, <2>3 DEF Takes
  <1>12. CASE Upto(t, 1) /\ Flushing(t, Sorts(p, u), <<>>, <<>>)
    <2>1. writes[t] = <<>> /\ pc[t] = "execute" /\ script[t] = Sorts(p, u)
        BY <1>12 DEF Flushing
    <2>2. /\ After(t, "open", Sorts(p, u), <<>>, <<>>, <<>>, <<>>, {})
          /\ SameLocks(t)
        BY <1>1, <2>1, ExecuteEffect
    <2> QED
        BY <1>6, <1>12, <2>2, SameUpto DEF SameLocks
  <1>13. CASE Upto(t, 1) /\ Loaded(t, Sorts(p, u), <<>>, <<>>)
    <2>1. script[t] = Cons(Write(ReleasesRow[p], Update), Sorted(p, u))
        BY <1>13 DEF Loaded, Sorts
    <2>2. Write(ReleasesRow[p], Update) \in Ops /\ Sorted(p, u) \in Seq(Ops)
        BY OpFacts, ReleaseFacts
    <2>3. /\ After(t, "open", Sorted(p, u), <<>>, Append(<<>>, l), <<>>,
                   <<>>, {})
          /\ SameLocks(t)
        BY <1>1, <1>3, <1>13, <2>1, <2>2, WriteEffect DEF Loaded
    <2> QED
        BY <1>5, <1>6, <1>13, <2>3, SameUpto DEF SameLocks
  <1>14. CASE Upto(t, 1) /\ Loaded(t, Sorted(p, u), <<l>>, <<>>)
    <2>1. script[t] = Cons(Query(p), Filed(p, u)) /\ Filed(p, u) \in Seq(Ops)
        BY <1>14, ReleaseFacts DEF Loaded, Sorted
    <2>2. writes[t] = <<l>> /\ ~Clean(t) /\ pc[t] = "open"
        BY <1>5, <1>14 DEF Loaded, Clean
    <2>3. /\ After(t, "execute", Filed(p, u), <<>>, <<l>>, <<>>, <<>>, {})
          /\ SameLocks(t)
        BY <1>1, <2>1, <2>2, QueryEffect DEF SessionFlushed
    <2> QED
        BY <1>6, <1>14, <2>3, SameUpto DEF SameLocks
  <1>15. CASE Upto(t, 1) /\ Flushing(t, Filed(p, u), <<l>>, <<>>)
    <2>1. writes[t] = <<l>> /\ pc[t] = "execute" /\ script[t] = Filed(p, u)
        BY <1>15 DEF Flushing
    <2>2. /\ After(t, "execute", Filed(p, u), <<>>, <<>>, <<>>, <<>>, {})
          /\ Takes(t, ReleasesRow[p], 3)
        BY <1>1, <1>3, <1>5, <2>1, ExecutesWrite
    <2>3. Upto(t, 2)' /\ SortedReleases(t, p)'
        BY <1>4, <1>15, <2>2, TakesUpto, TakesKeeps DEF Update
    <2> QED
        BY <1>6, <2>2, <2>3 DEF Takes
  <1>16. CASE /\ Upto(t, 2) /\ SortedReleases(t, p)
              /\ Flushing(t, Filed(p, u), <<>>, <<>>)
    <2>1. writes[t] = <<>> /\ pc[t] = "execute" /\ script[t] = Filed(p, u)
        BY <1>16 DEF Flushing
    <2>2. /\ After(t, "open", Filed(p, u), <<>>, <<>>, <<>>, <<>>, {})
          /\ SameLocks(t)
        BY <1>1, <2>1, ExecuteEffect
    <2>3. Upto(t, 2)' /\ SortedReleases(t, p)'
        BY <1>16, <2>2, SameUpto
    <2>4. FileReady(t, p, u)'
        BY <2>3, VersionFacts DEF FileReady
    <2>5. Loaded(t, Named(p, u, TwoEntries(p)), <<>>, <<>>)'
        BY <2>2 DEF After, Loaded, Filed
    <2>6. AddsFile(t, p, u)'
        BY <2>2, <2>4, <2>5 DEF AddsFile, AfterStore, After
    <2>7. u \in DOMAIN FileRow[p]
        BY VersionFacts
    <2> QED
        BY <2>2, <2>6, <2>7 DEF WorkerInOrder, BeforeJournals, After, SameLocks
  <1> QED
      BY <1>7, <1>8, <1>9, <1>10, <1>11, <1>12, <1>13, <1>14, <1>15, <1>16
      DEF AddsRelease, v, k, l

LEMMA DeletesReleaseStep ==
  ASSUME TypeOK, ScriptType, MildLocks, NEW t \in Tx, Acts(t),
         NEW p \in Projects, advisory # t, toLock[t] = {}, DeletesRelease(t, p)
  PROVE  WorkerInOrder(t)'
  <1> DEFINE e == EventLock
             l == ReleasesLock(p, Update)
             f == FilesLock(p)
             n == ProjectLock(p)
  <1>1. e \in Mild /\ l \in Mild /\ f \in Mild /\ n \in Mild
      BY LockFacts DEF Update
  <1>2. /\ e = Lock(EventsRow, KeyShare) /\ l = Lock(ReleasesRow[p], Update)
        /\ f = Lock(FilesRow[p], Update) /\ n = Lock(p, NoKeyUpdate)
        /\ e.row = EventsRow /\ e.mode = 1 /\ l.row = ReleasesRow[p] /\ l.mode = 3
        /\ f.row = FilesRow[p] /\ f.mode = 3 /\ n.row = p /\ n.mode = 2
        /\ DropLocks(p) = <<l, f, n>>
      BY DEF EventLock, ReleasesLock, FilesLock, ProjectLock, KeyShare,
             NoKeyUpdate, Update, Lock, DropLocks
  <1>3. /\ EventsRow \in Rows /\ p \in Rows /\ ReleasesRow[p] \in Rows
        /\ FilesRow[p] \in Rows
        /\ Rank(ReleasesRow[p]) = 2 /\ Rank(FilesRow[p]) = 3
      BY RowFacts
  <1> HIDE DEF e, l, f, n
  <1>4. /\ Append(<<>>, e) = <<e>> /\ Append(<<>>, l) = <<l>>
        /\ Append(<<l>>, f) = <<l, f>> /\ Append(<<l, f>>, n) = <<l, f, n>>
    <2>1. Append(<<>>, e) = <<e>> /\ Append(<<>>, l) = <<l>>
        BY ONLY <1>1, OneLock
    <2>2. Append(<<l>>, f) = <<l, f>>
        BY ONLY <1>1, TwoLocks
    <2>3. Append(<<l, f>>, n) = <<l, f, n>>
        BY ONLY <1>1, ThreeLocks
    <2> QED
        BY ONLY <2>1, <2>2, <2>3
  <1>5. /\ Head(<<e>>) = e /\ Tail(<<e>>) = <<>> /\ <<e>> # <<>>
        /\ Head(<<l, f, n>>) = l /\ Tail(<<l, f, n>>) = <<f, n>>
        /\ <<l, f, n>> # <<>>
        /\ Head(<<f, n>>) = f /\ Tail(<<f, n>>) = <<n>> /\ <<f, n>> # <<>>
        /\ Head(<<n>>) = n /\ Tail(<<n>>) = <<>> /\ <<n>> # <<>>
    <2>1. /\ Head(<<e>>) = e /\ Tail(<<e>>) = <<>> /\ <<e>> # <<>>
          /\ Head(<<n>>) = n /\ Tail(<<n>>) = <<>> /\ <<n>> # <<>>
        BY ONLY <1>1, OneLock
    <2>2. Head(<<f, n>>) = f /\ Tail(<<f, n>>) = <<n>> /\ <<f, n>> # <<>>
        BY ONLY <1>1, TwoLocks
    <2>3. /\ Head(<<l, f, n>>) = l /\ Tail(<<l, f, n>>) = <<f, n>>
          /\ <<l, f, n>> # <<>>
        BY ONLY <1>1, ThreeLocks
    <2> QED
        BY ONLY <2>1, <2>2, <2>3
  <1>6. ASSUME NEW s, NEW w, NEW d,
               After(t, "open", s, pending'[t], w, d, <<>>, {}), SameLocks(t),
               Upto(t, 0), pending'[t] \in Only(p),
               \/ s = DropNoted(p) /\ w = <<>> /\ d = <<>>
               \/ s = Dropped(p) /\ w = <<e>> /\ d = <<>>
               \/ s = Emptied(p) /\ w = <<e>> /\ d = <<l>>
               \/ s = Unsized(p) /\ w = <<e>> /\ d = <<l, f>>
               \/ s = TwoQueries(p) /\ w = <<e>> /\ d = <<l, f, n>>
        PROVE  WorkerInOrder(t)'
    <2>1. Loaded(t, s, w, d)' /\ advisory' # t /\ toLock'[t] = {}
        BY <1>6 DEF After, Loaded, SameLocks
    <2>2. Upto(t, 0)'
        BY <1>6, SameUpto
    <2>3. DeletesRelease(t, p)'
        BY <1>2, <1>6, <2>1, <2>2 DEF DeletesRelease, e, l, f
    <2> QED
        BY <2>1, <2>3 DEF WorkerInOrder, BeforeJournals
  <1>7. ASSUME NEW w, NEW d,
               After(t, "execute", LastQuery(p), <<>>, w, d, deferred'[t], {}),
               advisory' # t, deferred'[t] \in Only(p),
               \/ Upto(t, 0)' /\ w \in {<<e>>, <<>>} /\ d = <<l, f, n>>
               \/ Upto(t, 2)' /\ w = <<>> /\ d = <<f, n>>
               \/ Upto(t, 3)' /\ w = <<>> /\ d = <<n>>
        PROVE  WorkerInOrder(t)'
    <2>1. Flushing(t, LastQuery(p), w, d)' /\ toLock'[t] = {}
        BY <1>7 DEF After, Flushing
    <2>2. DeletesRelease(t, p)'
        BY <1>2, <1>7, <2>1 DEF DeletesRelease, e, f, n
    <2> QED
        BY <1>7, <2>1, <2>2 DEF WorkerInOrder, BeforeJournals
  <1>8. CASE /\ pending[t] = <<>> /\ Upto(t, 0)
             /\ Loaded(t, Cons(Journal(p), DropNoted(p)), <<>>, <<>>)
    <2>1. /\ After(t, "open", DropNoted(p), Append(<<>>, p), <<>>, <<>>,
                   <<>>, {})
          /\ SameLocks(t)
        BY <1>8, RemovalFacts, JournalEffect DEF Loaded
    <2>2. Append(<<>>, p) \in Only(p)
        BY EntryFacts, EmptySeq
    <2> QED
        BY <1>6, <1>8, <2>1, <2>2 DEF After
  <1>9. ASSUME pending[t] \in Only(p), Upto(t, 0),
               \/ Loaded(t, DropNoted(p), <<>>, <<>>)
               \/ Loaded(t, Dropped(p), <<e>>, <<>>)
               \/ Loaded(t, Emptied(p), <<e>>, <<l>>)
               \/ Loaded(t, Unsized(p), <<e>>, <<l, f>>)
               \/ Loaded(t, TwoQueries(p), <<e>>, <<l, f, n>>)
        PROVE  WorkerInOrder(t)'
    <2>1. /\ pc[t] = "open" /\ deferred[t] = <<>>
          /\ pending[t] \in Seq({p}) /\ pending[t] # <<>>
        BY <1>9 DEF Loaded, Only
    <2>2. CASE Loaded(t, DropNoted(p), <<>>, <<>>)
      <3>1. /\ script[t] = Cons(Write(EventsRow, KeyShare), Dropped(p))
            /\ Write(EventsRow, KeyShare) \in Ops /\ Dropped(p) \in Seq(Ops)
          BY <2>2, RemovalFacts, OpFacts DEF Loaded, DropNoted, RecordEvent
      <3>2. /\ After(t, "open", Dropped(p), pending[t], Append(<<>>, e), <<>>,
                     <<>>, {})
            /\ SameLocks(t)
          BY <1>2, <2>1, <2>2, <3>1, WriteEffect DEF Loaded
      <3> QED
          BY <1>4, <1>6, <1>9, <3>2 DEF After
    <2>3. CASE Loaded(t, Dropped(p), <<e>>, <<>>)
      <3>1. /\ script[t] = Cons(Delete(ReleasesRow[p], Update), Emptied(p))
            /\ Delete(ReleasesRow[p], Update) \in Ops /\ Emptied(p) \in Seq(Ops)
          BY <2>3, RemovalFacts, OpFacts DEF Loaded, Dropped
      <3>2. /\ After(t, "open", Emptied(p), pending[t], <<e>>, Append(<<>>, l),
                     <<>>, {})
            /\ SameLocks(t)
          BY <1>2, <2>1, <2>3, <3>1, DeleteEffect DEF Loaded
      <3> QED
          BY <1>4, <1>6, <1>9, <3>2 DEF After
    <2>4. CASE Loaded(t, Emptied(p), <<e>>, <<l>>)
      <3>1. /\ script[t] = Cons(Delete(FilesRow[p], Update), Unsized(p))
            /\ Delete(FilesRow[p], Update) \in Ops /\ Unsized(p) \in Seq(Ops)
          BY <2>4, RemovalFacts, OpFacts DEF Loaded, Emptied
      <3>2. /\ After(t, "open", Unsized(p), pending[t], <<e>>,
                     Append(<<l>>, f), <<>>, {})
            /\ SameLocks(t)
          BY <1>2, <2>1, <2>4, <3>1, DeleteEffect DEF Loaded
      <3> QED
          BY <1>4, <1>6, <1>9, <3>2 DEF After
    <2>5. CASE Loaded(t, Unsized(p), <<e>>, <<l, f>>)
      <3>1. /\ script[t] = Cons(Delete(p, NoKeyUpdate), TwoQueries(p))
            /\ Delete(p, NoKeyUpdate) \in Ops /\ TwoQueries(p) \in Seq(Ops)
          BY <2>5, EndFacts, OpFacts DEF Loaded, Unsized
      <3>2. /\ After(t, "open", TwoQueries(p), pending[t], <<e>>,
                     Append(<<l, f>>, n), <<>>, {})
            /\ SameLocks(t)
          BY <1>2, <2>1, <2>5, <3>1, DeleteEffect DEF Loaded
      <3> QED
          BY <1>4, <1>6, <1>9, <3>2 DEF After
    <2>6. CASE Loaded(t, TwoQueries(p), <<e>>, <<l, f, n>>)
      <3>1. script[t] = Cons(Query(p), LastQuery(p)) /\ ~Clean(t)
          BY <2>1, <2>6 DEF Loaded, TwoQueries, Clean
      <3>2. /\ After(t, "execute", LastQuery(p), <<>>, <<e>>, <<l, f, n>>,
                     <<>> \o pending[t], {})
            /\ SameLocks(t)
          BY <1>5, <2>1, <2>6, <3>1, EndFacts, QueryEffect
          DEF SessionFlushed, Loaded
      <3>3. <<>> \o pending[t] \in Only(p)
          BY <1>9, <2>1, EntryFacts
      <3>4. Upto(t, 0)' /\ advisory' # t
          BY <1>9, <3>2, SameUpto DEF SameLocks
      <3> QED
          BY <1>7, <3>2, <3>3, <3>4 DEF After
    <2> QED
        BY <1>9, <2>2, <2>3, <2>4, <2>5, <2>6
  <1>10. ASSUME deferred[t] \in Only(p),
                \/ /\ Upto(t, 0)
                   /\ \E w \in {<<e>>, <<>>} :
                         Flushing(t, LastQuery(p), w, <<l, f, n>>)
                \/ Upto(t, 2) /\ Flushing(t, LastQuery(p), <<>>, <<f, n>>)
                \/ Upto(t, 3) /\ Flushing(t, LastQuery(p), <<>>, <<n>>)
         PROVE  WorkerInOrder(t)'
    <2>1. /\ pc[t] = "execute" /\ pending[t] = <<>>
          /\ script[t] = LastQuery(p)
        BY <1>10 DEF Flushing
    <2>2. CASE Upto(t, 0) /\ Flushing(t, LastQuery(p), <<e>>, <<l, f, n>>)
      <3>1. /\ After(t, "execute", LastQuery(p), <<>>, <<>>, <<l, f, n>>,
                     deferred[t], {})
            /\ Takes(t, EventsRow, 1)
          BY <1>2, <1>5, <2>1, <2>2, ExecutesWrite DEF Flushing
      <3>2. Upto(t, 0)'
          BY <1>3, <2>2, <3>1, TakesUpto
      <3> QED
          BY <1>7, <1>10, <3>1, <3>2 DEF Takes, After
    <2>3. CASE Upto(t, 0) /\ Flushing(t, LastQuery(p), <<>>, <<l, f, n>>)
      <3>1. /\ After(t, "execute", LastQuery(p), <<>>, <<>>, <<f, n>>,
                     deferred[t], {})
            /\ Takes(t, ReleasesRow[p], 3)
          BY <1>2, <1>5, <2>1, <2>3, ExecutesDelete DEF Flushing
      <3>2. Upto(t, 2)'
          BY <1>3, <2>3, <3>1, TakesUpto
      <3> QED
          BY <1>7, <1>10, <3>1, <3>2 DEF Takes, After
    <2>4. CASE Upto(t, 2) /\ Flushing(t, LastQuery(p), <<>>, <<f, n>>)
      <3>1. /\ After(t, "execute", LastQuery(p), <<>>, <<>>, <<n>>,
                     deferred[t], {})
            /\ Takes(t, FilesRow[p], 3)
          BY <1>2, <1>5, <2>1, <2>4, ExecutesDelete DEF Flushing
      <3>2. Upto(t, 3)'
          BY <1>3, <2>4, <3>1, TakesUpto
      <3> QED
          BY <1>7, <1>10, <3>1, <3>2 DEF Takes, After
    <2>5. CASE Upto(t, 3) /\ Flushing(t, LastQuery(p), <<>>, <<n>>)
      <3>1. /\ After(t, "execute", LastQuery(p), <<>>, <<>>, <<>>,
                     deferred[t], {})
            /\ Takes(t, p, 2)
          BY <1>2, <1>5, <2>1, <2>5, ExecutesDelete DEF Flushing
      <3>2. UptoProject(t, p)'
          BY <2>5, <3>1, TakesProject
      <3>3. Restores(t, p)'
          BY <1>10, <3>1, <3>2 DEF Restores, Rest, Flushing, After
      <3> QED
          BY <3>1, <3>3 DEF WorkerInOrder, BeforeJournals, After, Takes
    <2> QED
        BY <1>10, <2>2, <2>3, <2>4, <2>5
  <1> QED
      BY <1>2, <1>8, <1>9, <1>10 DEF DeletesRelease, e, l, f, n

LEMMA DeletesFileStep ==
  ASSUME TypeOK, ScriptType, MildLocks, NEW t \in Tx, Acts(t),
         NEW p \in Projects, advisory # t, toLock[t] = {}, DeletesFile(t, p)
  PROVE  WorkerInOrder(t)'
  <1> DEFINE e == EventLock
             q == Cons(Query(p), FileQuery(p))
  <1>1. /\ e \in Mild /\ e = Lock(EventsRow, KeyShare)
        /\ e.row = EventsRow /\ e.mode = 1
      BY LockFacts DEF EventLock, KeyShare, Lock
  <1>2. /\ Append(<<>>, e) = <<e>> /\ Head(<<e>>) = e /\ Tail(<<e>>) = <<>>
        /\ <<e>> # <<>>
      BY <1>1, ListFacts, Zenon
  <1>3. /\ EventsRow \in Rows /\ FileNoted(p) = Cons(RecordEvent, q)
        /\ q \in Seq(Ops) /\ FileQuery(p) \in Seq(Ops)
        /\ FileNoted(p) \in Seq(Ops)
      BY RowFacts, RemovalFacts DEF FileNoted
  <1> HIDE DEF e, q
  <1>4. ASSUME NEW s, NEW w,
               After(t, "open", s, pending'[t], w, <<>>, <<>>, {}),
               SameLocks(t), pending'[t] \in Only(p),
               \/ s = FileNoted(p) /\ w = <<>>
               \/ s = q /\ w = <<e>>
        PROVE  WorkerInOrder(t)'
    <2>1. Loaded(t, s, w, <<>>)' /\ advisory' # t /\ toLock'[t] = {}
        BY <1>4 DEF After, Loaded, SameLocks
    <2>2. Upto(t, 0)'
        BY <1>4, SameUpto DEF DeletesFile
    <2>3. DeletesFile(t, p)'
        BY <1>4, <2>1, <2>2 DEF DeletesFile, e, q
    <2> QED
        BY <2>1, <2>3 DEF WorkerInOrder, BeforeJournals
  <1>5. CASE /\ pending[t] = <<>>
             /\ Loaded(t, Cons(Journal(p), FileNoted(p)), <<>>, <<>>)
    <2>1. /\ After(t, "open", FileNoted(p), Append(<<>>, p), <<>>, <<>>,
                   <<>>, {})
          /\ SameLocks(t)
        BY <1>3, <1>5, JournalEffect DEF Loaded
    <2>2. Append(<<>>, p) \in Only(p)
        BY EntryFacts, EmptySeq
    <2> QED
        BY <1>4, <2>1, <2>2 DEF After
  <1>6. CASE pending[t] \in Only(p) /\ Loaded(t, FileNoted(p), <<>>, <<>>)
    <2>1. /\ script[t] = Cons(Write(EventsRow, KeyShare), q)
          /\ Write(EventsRow, KeyShare) \in Ops
        BY <1>3, <1>6, OpFacts DEF Loaded, RecordEvent
    <2>2. /\ After(t, "open", q, pending[t], Append(<<>>, e), <<>>, <<>>, {})
          /\ SameLocks(t)
        BY <1>1, <1>3, <1>6, <2>1, WriteEffect DEF Loaded
    <2> QED
        BY <1>2, <1>4, <1>6, <2>2 DEF After
  <1>7. CASE pending[t] \in Only(p) /\ Loaded(t, q, <<e>>, <<>>)
    <2>1. /\ script[t] = Cons(Query(p), FileQuery(p)) /\ pc[t] = "open"
          /\ pending[t] \in Seq({p}) /\ pending[t] # <<>> /\ ~Clean(t)
          /\ writes[t] = <<e>> /\ deletes[t] = <<>> /\ deferred[t] = <<>>
        BY <1>7 DEF Loaded, Only, Clean, q
    <2>2. /\ After(t, "execute", FileQuery(p), <<>>, <<e>>, <<>>,
                   <<>> \o pending[t], {})
          /\ SameLocks(t)
        BY <1>2, <1>3, <2>1, QueryEffect DEF SessionFlushed
    <2>3. <<>> \o pending[t] \in Only(p)
        BY <2>1, EntryFacts
    <2>4. Upto(t, 0)'
        BY <2>2, SameUpto DEF DeletesFile
    <2>5. DeletesFile(t, p)'
        BY <2>2, <2>3, <2>4 DEF DeletesFile, After, Flushing, e
    <2> QED
        BY <2>2, <2>5 DEF WorkerInOrder, BeforeJournals, After, SameLocks
  <1>8. CASE deferred[t] \in Only(p) /\ Flushing(t, FileQuery(p), <<e>>, <<>>)
    <2>1. /\ After(t, "execute", FileQuery(p), <<>>, <<>>, <<>>,
                   deferred[t], {})
          /\ Takes(t, EventsRow, 1)
        BY <1>1, <1>2, <1>8, ExecutesWrite DEF Flushing
    <2>2. Upto(t, 0)'
        BY <1>3, <2>1, TakesUpto DEF DeletesFile
    <2>3. UptoProject(t, p)'
        BY <2>2 DEF Upto, UptoProject, Rank
    <2>4. Restores(t, p)'
        BY <1>8, <2>1, <2>3 DEF Restores, Rest, Flushing, After
    <2> QED
        BY <2>1, <2>4 DEF WorkerInOrder, BeforeJournals, After, Takes
  <1> QED
      BY <1>5, <1>6, <1>7, <1>8 DEF DeletesFile, e, q

LEMMA YankedStep ==
  ASSUME TypeOK, ScriptType, MildLocks, NEW t \in Tx, Acts(t),
         NEW p \in Projects, advisory # t, toLock[t] = {}, Upto(t, 0),
         deferred[t] \in Only(p),
         Flushing(t, LastQuery(p), <<ReleasesLock(p, NoKeyUpdate)>>, <<>>)
  PROVE  Restores(t, p)' /\ advisory' # t /\ toLock'[t] = {}
  <1> DEFINE l == ReleasesLock(p, NoKeyUpdate)
  <1>1. l \in Mild /\ l.row = ReleasesRow[p] /\ l.mode = 2
    <2>1. l \in Mild
        BY LockFacts DEF NoKeyUpdate
    <2> QED
        BY <2>1, RowLocks DEF ReleasesLock, NoKeyUpdate
  <1>2. Head(<<l>>) = l /\ Tail(<<l>>) = <<>> /\ <<l>> # <<>>
      BY <1>1, OneLock
  <1>3. /\ pc[t] = "execute" /\ pending[t] = <<>> /\ deletes[t] = <<>>
        /\ writes[t] = <<l>> /\ script[t] = LastQuery(p)
      BY DEF Flushing
  <1> HIDE DEF l
  <1>4. /\ After(t, "execute", LastQuery(p), <<>>, <<>>, <<>>, deferred[t], {})
        /\ Takes(t, ReleasesRow[p], 2)
      BY <1>1, <1>2, <1>3, ExecutesWrite
  <1>5. Upto(t, 2)'
      BY <1>4, RowFacts, TakesUpto
  <1>6. UptoProject(t, p)'
      BY <1>5 DEF Upto, UptoProject, Rank
  <1> QED
      BY <1>4, <1>6 DEF Restores, Rest, Flushing, After, Takes

LEMMA YanksStep ==
  ASSUME TypeOK, ScriptType, MildLocks, NEW t \in Tx, Acts(t),
         NEW p \in Projects, advisory # t, toLock[t] = {}, Yanks(t, p)
  PROVE  WorkerInOrder(t)'
  <1> DEFINE e == EventLock
             l == ReleasesLock(p, NoKeyUpdate)
  <1>1. e \in Mild /\ l \in Mild
      BY LockFacts DEF NoKeyUpdate
  <1>2. /\ e = Lock(EventsRow, KeyShare) /\ l = Lock(ReleasesRow[p], NoKeyUpdate)
        /\ e.row = EventsRow /\ e.mode = 1
        /\ l.row = ReleasesRow[p] /\ l.mode = 2
      BY DEF EventLock, ReleasesLock, KeyShare, NoKeyUpdate, Lock
  <1>3. /\ Append(<<>>, e) = <<e>> /\ Append(<<e>>, l) = <<e, l>>
        /\ Head(<<e, l>>) = e /\ Tail(<<e, l>>) = <<l>> /\ <<e, l>> # <<>>
        /\ Head(<<l>>) = l /\ Tail(<<l>>) = <<>> /\ <<l>> # <<>>
      BY <1>1, ListFacts, Zenon
  <1>4. /\ EventsRow \in Rows /\ ReleasesRow[p] \in Rows
        /\ Rank(ReleasesRow[p]) = 2
        /\ YankNoted(p) \in Seq(Ops) /\ YankWrites(p) \in Seq(Ops)
        /\ TwoQueries(p) \in Seq(Ops) /\ LastQuery(p) \in Seq(Ops)
      BY RowFacts, RemovalFacts, EndFacts
  <1> HIDE DEF e, l
  <1>5. ASSUME NEW s, NEW w,
               After(t, "open", s, pending'[t], w, <<>>, <<>>, {}),
               SameLocks(t), pending'[t] \in Only(p),
               \/ s = YankNoted(p) /\ w = <<>>
               \/ s = YankWrites(p) /\ w = <<e>>
               \/ s = TwoQueries(p) /\ w = <<e, l>>
        PROVE  WorkerInOrder(t)'
    <2>1. Loaded(t, s, w, <<>>)' /\ advisory' # t /\ toLock'[t] = {}
        BY <1>5 DEF After, Loaded, SameLocks
    <2>2. Upto(t, 0)'
        BY <1>5, SameUpto DEF Yanks
    <2>3. Yanks(t, p)'
        BY <1>5, <2>1, <2>2 DEF Yanks, e, l
    <2> QED
        BY <2>1, <2>3 DEF WorkerInOrder, BeforeJournals
  <1>6. ASSUME NEW w \in {<<e, l>>, <<l>>}, Upto(t, 0)', advisory' # t,
               After(t, "execute", LastQuery(p), <<>>, w, <<>>,
                     deferred'[t], {}),
               deferred'[t] \in Only(p)
        PROVE  WorkerInOrder(t)'
    <2>1. Flushing(t, LastQuery(p), w, <<>>)'
        BY <1>6 DEF After, Flushing
    <2>2. Yanks(t, p)'
        BY <1>6, <2>1 DEF Yanks, e, l
    <2> QED
        BY <1>6, <2>2 DEF WorkerInOrder, BeforeJournals, After
  <1>7. CASE /\ pending[t] = <<>>
             /\ Loaded(t, Cons(Journal(p), YankNoted(p)), <<>>, <<>>)
    <2>1. /\ After(t, "open", YankNoted(p), Append(<<>>, p), <<>>, <<>>,
                   <<>>, {})
          /\ SameLocks(t)
        BY <1>4, <1>7, JournalEffect DEF Loaded
    <2>2. Append(<<>>, p) \in Only(p)
        BY EntryFacts, EmptySeq
    <2> QED
        BY <1>5, <2>1, <2>2 DEF After
  <1>8. CASE pending[t] \in Only(p) /\ Loaded(t, YankNoted(p), <<>>, <<>>)
    <2>1. /\ script[t] = Cons(Write(EventsRow, KeyShare), YankWrites(p))
          /\ Write(EventsRow, KeyShare) \in Ops
        BY <1>8, OpFacts DEF Loaded, RecordEvent, YankNoted
    <2>2. /\ After(t, "open", YankWrites(p), pending[t], Append(<<>>, e),
                   <<>>, <<>>, {})
          /\ SameLocks(t)
        BY <1>2, <1>4, <1>8, <2>1, WriteEffect DEF Loaded
    <2> QED
        BY <1>3, <1>5, <1>8, <2>2 DEF After
  <1>9. CASE pending[t] \in Only(p) /\ Loaded(t, YankWrites(p), <<e>>, <<>>)
    <2>1. /\ script[t] = Cons(Write(ReleasesRow[p], NoKeyUpdate), TwoQueries(p))
          /\ Write(ReleasesRow[p], NoKeyUpdate) \in Ops
        BY <1>9, OpFacts DEF Loaded, YankWrites
    <2>2. /\ After(t, "open", TwoQueries(p), pending[t], Append(<<e>>, l),
                   <<>>, <<>>, {})
          /\ SameLocks(t)
        BY <1>2, <1>4, <1>9, <2>1, WriteEffect DEF Loaded
    <2> QED
        BY <1>3, <1>5, <1>9, <2>2 DEF After
  <1>10. CASE pending[t] \in Only(p) /\ Loaded(t, TwoQueries(p), <<e, l>>, <<>>)
    <2>1. /\ script[t] = Cons(Query(p), LastQuery(p)) /\ pc[t] = "open"
          /\ pending[t] \in Seq({p}) /\ pending[t] # <<>> /\ ~Clean(t)
          /\ writes[t] = <<e, l>> /\ deletes[t] = <<>> /\ deferred[t] = <<>>
        BY <1>10 DEF Loaded, Only, Clean, TwoQueries
    <2>2. /\ After(t, "execute", LastQuery(p), <<>>, <<e, l>>, <<>>,
                   <<>> \o pending[t], {})
          /\ SameLocks(t)
        BY <1>3, <1>4, <2>1, QueryEffect DEF SessionFlushed
    <2>3. <<>> \o pending[t] \in Only(p)
        BY <2>1, EntryFacts
    <2>4. Upto(t, 0)' /\ advisory' # t
        BY <2>2, SameUpto DEF Yanks, SameLocks
    <2> QED
        BY <1>6, <2>2, <2>3, <2>4 DEF After
  <1>11. CASE /\ deferred[t] \in Only(p)
              /\ Flushing(t, LastQuery(p), <<e, l>>, <<>>)
    <2>1. /\ After(t, "execute", LastQuery(p), <<>>, <<l>>, <<>>,
                   deferred[t], {})
          /\ Takes(t, EventsRow, 1)
        BY <1>2, <1>3, <1>11, ExecutesWrite DEF Flushing
    <2>2. Upto(t, 0)'
        BY <1>4, <2>1, TakesUpto DEF Yanks
    <2> QED
        BY <1>6, <1>11, <2>1, <2>2 DEF Takes, After
  <1>12. CASE deferred[t] \in Only(p) /\ Flushing(t, LastQuery(p), <<l>>, <<>>)
    <2>1. Restores(t, p)' /\ advisory' # t /\ toLock'[t] = {}
        BY <1>12, YankedStep DEF Yanks, l
    <2> QED
        BY <2>1 DEF WorkerInOrder, BeforeJournals
  <1> QED
      BY <1>7, <1>8, <1>9, <1>10, <1>11, <1>12 DEF Yanks, e, l

-----------------------------------------------------------------------------
(* Where no request runs, nothing is left of one. *)
LEMMA NothingLeft ==
  ASSUME NEW t \in Tx, WorkerInOrder(t), pc[t] = "idle"
  PROVE  Idle(t)
  <1>1. \A s, w, d : ~Loaded(t, s, w, d) /\ ~Flushing(t, s, w, d)
      BY DEF Loaded, Flushing
  <1>2. \A p, u : ~AddsFile(t, p, u) /\ ~AddsEntries(t, p, u) /\ ~FlushesFile(t, p, u)
    <2>1. \A p, u : ~AddsFile(t, p, u)
        BY ONLY <1>1 DEF AddsFile
    <2>2. \A p, u : ~AddsEntries(t, p, u)
        BY ONLY <1>1 DEF AddsEntries
    <2>3. \A p, u : ~FlushesFile(t, p, u)
        BY ONLY pc[t] = "idle", <1>1 DEF FlushesFile
    <2> QED
        BY ONLY <2>1, <2>2, <2>3
  <1>3. \A p, u : ~AddsRelease(t, p, u)
      BY ONLY <1>1 DEF AddsRelease
  <1>4. \A p : ~DeletesRelease(t, p)
      BY ONLY pc[t] = "idle", <1>1 DEF DeletesRelease
  <1>5. \A p : ~DeletesFile(t, p)
      BY ONLY pc[t] = "idle", <1>1 DEF DeletesFile
  <1>6. \A p : ~Yanks(t, p)
      BY ONLY pc[t] = "idle", <1>1 DEF Yanks
  <1>7. \A p : ~Restores(t, p)
      BY ONLY <1>1 DEF Restores
  <1>12. \A p : ~ChecksUrls(t, p) /\ ~Syncs(t, p)
      BY ONLY <1>1 DEF ChecksUrls, Syncs
  <1>8. \A p : ~BeforeJournals(t, p)
      BY ONLY <1>2, <1>3, <1>4, <1>5, <1>6, <1>7, <1>12 DEF BeforeJournals
  <1>9. \A p : ~LocksProject(t, p)
      BY DEF LocksProject, Flushing
  <1>10. \A p : ~Inserts(t, p)
      BY DEF Inserts
  <1>11. \A p : ~Ends(t, p)
      BY DEF Ends
  <1> QED
      BY ONLY WorkerInOrder(t), <1>8, <1>9, <1>10, <1>11 DEF WorkerInOrder

(* Every step keeps every worker in order. *)
LEMMA StartStep ==
  ASSUME TypeOK, ScriptType, NEW t \in Tx, WorkerInOrder(t), Start(t)
  PROVE  WorkerInOrder(t)' /\ script'[t] \in Seq(Ops)
  <1>1. Idle(t)
      BY NothingLeft DEF Start, Begin
  <1>2. PICK s \in Requests : script' = [script EXCEPT ![t] = s]
      BY DEF Start
  <1>3. /\ After(t, "open", s, <<>>, <<>>, <<>>, <<>>, {})
        /\ advisory' # t
      BY <1>1, <1>2
      DEF Start, Begin, Idle, Alone, After, TypeOK, SessionType, ScriptType,
          session, locks
  <1>4. Upto(t, 0)'
      BY <1>1 DEF Start, Begin, Idle, Upto, Counts, locks
  <1>5. Loaded(t, s, <<>>, <<>>)' /\ pending'[t] = <<>> /\ toLock'[t] = {}
        /\ deferred'[t] = <<>> /\ script'[t] = s
      BY <1>3 DEF After, Loaded
  <1>6. PICK p \in Projects :
          \/ s \in {DeleteFile(p), DeleteRelease(p), YankRelease(p), SyncFile(p)}
          \/ \E u \in DOMAIN VersionRow[p] : s = UploadRelease(p, u)
          \/ \E u \in DOMAIN FileRow[p] \ DOMAIN VersionRow[p] :
                s \in {UploadFile(p, u), UploadWithUrls(p, u, NoneVerified),
                       UploadWithUrls(p, u, OneVerified(p))}
      BY RequestsAssumption
  <1>7. ASSUME \/ DeletesFile(t, p)' \/ DeletesRelease(t, p)' \/ Yanks(t, p)'
               \/ Syncs(t, p)'
               \/ \E u \in DOMAIN VersionRow[p] : AddsRelease(t, p, u)'
               \/ \E u \in DOMAIN FileRow[p] : AddsFile(t, p, u)'
        PROVE  WorkerInOrder(t)'
      BY <1>3, <1>5, <1>7 DEF WorkerInOrder, BeforeJournals
  <1>8. CASE s = DeleteFile(p)
    <2>1. s = Cons(Journal(p), FileNoted(p)) /\ s \in Seq(Ops)
        BY <1>8, RequestScripts, RemovalFacts, OpFacts, ConsFacts
    <2>2. DeletesFile(t, p)'
        BY <1>4, <1>5, <2>1 DEF DeletesFile
    <2> QED
        BY <1>5, <1>7, <2>1, <2>2
  <1>9. CASE s = DeleteRelease(p)
    <2>1. s = Cons(Journal(p), DropNoted(p)) /\ s \in Seq(Ops)
        BY <1>9, RequestScripts, RemovalFacts, OpFacts, ConsFacts
    <2>2. DeletesRelease(t, p)'
        BY <1>4, <1>5, <2>1 DEF DeletesRelease
    <2> QED
        BY <1>5, <1>7, <2>1, <2>2
  <1>10. CASE s = YankRelease(p)
    <2>1. s = Cons(Journal(p), YankNoted(p)) /\ s \in Seq(Ops)
        BY <1>10, RequestScripts, RemovalFacts, OpFacts, ConsFacts
    <2>2. Yanks(t, p)'
        BY <1>4, <1>5, <2>1 DEF Yanks
    <2> QED
        BY <1>5, <1>7, <2>1, <2>2
  <1>11. ASSUME NEW u \in DOMAIN VersionRow[p], s = UploadRelease(p, u)
         PROVE  WorkerInOrder(t)' /\ script'[t] \in Seq(Ops)
    <2>1. s = Versioned(p, u) /\ s \in Seq(Ops)
        BY <1>11, RequestScripts, ReleaseFacts
    <2>2. AddsRelease(t, p, u)'
        BY <1>4, <1>5, <2>1 DEF AddsRelease
    <2> QED
        BY <1>5, <1>7, <2>1, <2>2
  <1>12. ASSUME NEW u \in DOMAIN FileRow[p] \ DOMAIN VersionRow[p],
                s \in {UploadFile(p, u), UploadWithUrls(p, u, NoneVerified),
                       UploadWithUrls(p, u, OneVerified(p))}
         PROVE  WorkerInOrder(t)' /\ script'[t] \in Seq(Ops)
    <2>1. \E z \in AfterStore(p) : s = Named(p, u, z) /\ s \in Seq(Ops)
      <3>1. \E z \in AfterStore(p) : s = Named(p, u, z)
          BY <1>12, RequestScripts DEF AfterStore, Urls
      <3> QED
          BY <3>1, UrlFacts, UploadFacts
    <2>2. Rank(FileRow[p][u]) = 1
        BY FileFacts
    <2>3. FileReady(t, p, u)'
        BY <1>4, <2>2 DEF FileReady
    <2>4. AddsFile(t, p, u)'
        BY <1>5, <2>1, <2>3 DEF AddsFile
    <2> QED
        BY <1>5, <1>7, <2>1, <2>4
  <1>13. CASE s = SyncFile(p)
    <2>1. s = Cached(p) /\ s \in Seq(Ops)
        BY <1>13, RequestScripts, UrlFacts
    <2>2. Syncs(t, p)'
        BY <1>4, <1>5, <2>1 DEF Syncs
    <2> QED
        BY <1>5, <1>7, <2>1, <2>2
  <1> QED
      BY <1>6, <1>8, <1>9, <1>10, <1>11, <1>12, <1>13

LEMMA ActStep ==
  ASSUME TypeOK, ScriptType, MildLocks, NEW t \in Tx, WorkerInOrder(t), Acts(t)
  PROVE  WorkerInOrder(t)'
  <1>1. ~Idle(t)
      BY DEF Acts, Idle, AddsJournal, Writes, Deletes, Queries, Stores,
             Executes, Finishes, AddJournal, AddWrite, AddDelete, Working,
             BeginCommit, BeforeFlush, Commit, LockRow, LockAdvisory,
             ExecuteWrite, InsertJournal, ExecuteDelete, AfterFlush
  <1>2. PICK p \in Projects :
           BeforeJournals(t, p) \/ LocksProject(t, p) \/ Inserts(t, p)
           \/ Ends(t, p)
      BY <1>1 DEF WorkerInOrder
  <1>3. CASE BeforeJournals(t, p)
      BY <1>3, AddsFileStep, AddsEntriesStep, FlushesFileStep, AddsReleaseStep,
         DeletesReleaseStep, DeletesFileStep, YanksStep, ChecksUrlsStep,
         SyncsStep, RestoresStep
      DEF BeforeJournals
  <1> QED
      BY <1>2, <1>3, LocksProjectStep, InsertsStep, EndsStep

LEMMA WorkersStep ==
  ASSUME TypeOK, ScriptType, MildLocks, InOrder, LockNext
  PROVE  InOrder'
  <1>1. PICK t \in Tx : Acts(t) \/ Start(t) \/ Fails(t)
      BY DEF LockNext, Acts
  <1>2. WorkerInOrder(t)'
    <2>1. CASE Fails(t)
        BY <2>1, EndEffect DEF Fails, Rollback, WorkerInOrder
    <2> QED
        BY <1>1, <2>1, StartStep, ActStep DEF InOrder
  <1>3. ASSUME NEW u \in Tx \ {t} PROVE WorkerInOrder(u)'
      BY <1>1, OthersStay, FrameKeeps DEF InOrder
  <1> QED
      BY <1>2, <1>3 DEF InOrder

-----------------------------------------------------------------------------
(* The handlers run within what Journals lets a request do, and keep the   *)
(* order of their locks.                                                   *)

LEMMA HeadIsOp ==
  ASSUME ScriptType, NEW t \in Tx, script[t] # <<>>
  PROVE  /\ Head(script[t]) \in Ops /\ Tail(script[t]) \in Seq(Ops)
         /\ script[t] \in Seq(Ops)
  BY HeadTailProperties DEF ScriptType

(* What a worker of RequestLocks does is a step of Journals, or none. *)
LEMMA WorkersSteps ==
  ASSUME ScriptType, NEW t \in Tx, Acts(t) \/ Start(t) \/ Fails(t)
  PROVE  \/ Request(t) \/ Flush(t) \/ Commit(t) \/ Rollback(t)
         \/ UNCHANGED vars
  <1>1. CASE AddsJournal(t)
    <2>1. Head(script[t]).row \in Projects
        BY <1>1, HeadIsOp DEF AddsJournal, NextOp, Ops
    <2> QED
        BY <1>1, <2>1 DEF AddsJournal, Request
  <1>2. CASE Writes(t)
    <2>1. Head(script[t]).row \in Rows /\ Head(script[t]).mode \in Modes
      <3>1. Head(script[t]) \in Ops /\ Head(script[t]).do = "write"
          BY <1>2, HeadIsOp DEF Writes, NextOp
      <3> QED
          BY <3>1, HandlersAssumption
          DEF Ops, Strongest, KeyShare, NoKeyUpdate, Update
    <2> QED
        BY <1>2, <2>1 DEF Writes, Request
  <1>3. CASE Deletes(t)
    <2>1. /\ Head(script[t]).row \in Deletable
          /\ Head(script[t]).mode \in {NoKeyUpdate, Update}
      <3>1. Head(script[t]) \in Ops /\ Head(script[t]).do = "delete"
          BY <1>3, HeadIsOp DEF Deletes, NextOp
      <3> QED
          BY <3>1 DEF Ops, Strongest, KeyShare, NoKeyUpdate, Update
    <2> QED
        BY <1>3, <2>1 DEF Deletes, Request
  <1>4. CASE Queries(t) \/ Stores(t)
      BY <1>4 DEF Queries, Stores, Flush
  <1>5. CASE Executes(t)
      BY <1>5 DEF Executes, Flush
  <1>6. CASE Finishes(t)
      BY <1>6 DEF Finishes, Flush, Request
  <1>7. CASE Start(t) \/ Fails(t)
      BY <1>7 DEF Start, Fails, Request
  <1> QED
      BY <1>1, <1>2, <1>3, <1>4, <1>5, <1>6, <1>7 DEF Acts

LEMMA LockStepIsStep ==
  ASSUME ScriptType, LockNext
  PROVE  [Next]_vars
  <1>1. PICK t \in Tx : Acts(t) \/ Start(t) \/ Fails(t)
      BY DEF LockNext, Acts
  <1> QED
      BY <1>1, WorkersSteps DEF Next

LEMMA ScriptStep ==
  ASSUME TypeOK, ScriptType, InOrder, LockNext
  PROVE  ScriptType'
  <1>1. PICK t \in Tx : Acts(t) \/ Start(t) \/ Fails(t)
      BY DEF LockNext, Acts
  <1>2. CASE Start(t)
    <2>1. script'[t] \in Seq(Ops)
        BY <1>2, StartStep DEF InOrder
    <2>2. \E s \in Requests : script' = [script EXCEPT ![t] = s]
        BY <1>2 DEF Start
    <2> QED
        BY <2>1, <2>2 DEF ScriptType
  <1>3. CASE Fails(t)
    <2>1. <<>> \in Seq(Ops)
        BY EmptySeq
    <2> QED
        BY <1>3, <2>1 DEF Fails, ScriptType
  <1>4. ASSUME script[t] # <<>>, Advance(t) PROVE ScriptType'
    <2>1. Tail(script[t]) \in Seq(Ops)
        BY <1>4, HeadIsOp
    <2> QED
        BY <1>4, <2>1 DEF Advance, ScriptType
  <1>5. CASE Acts(t)
      BY <1>4, <1>5
      DEF Acts, AddsJournal, Writes, Deletes, Queries, Stores, Executes,
          Finishes, NextOp, ScriptType
  <1> QED
      BY <1>1, <1>2, <1>3, <1>5

LEMMA StrengthenMild ==
  ASSUME TypeOK, MildLocks, NEW t \in Tx, NEW r \in Rows, NEW m \in 1..3,
         m <= Strongest(r), held' = Strengthen(t, r, m)
  PROVE  \A u \in Tx, x \in Rows : held'[u][x] <= Strongest(x)
  <1>1. \A u \in Tx, x \in Rows :
           held'[u][x] = IF u = t /\ x = r /\ held[u][x] < m THEN m
                         ELSE held[u][x]
      BY DEF TypeOK, LockType, Strengthen
  <1> QED
      BY <1>1 DEF MildLocks

LEMMA MildStep ==
  ASSUME TypeOK, ScriptType, MildLocks, LockNext
  PROVE  MildLocks'
  <1>1. PICK t \in Tx : Acts(t) \/ Start(t) \/ Fails(t)
      BY DEF LockNext, Acts
  <1>2. ASSUME held' = held, writes' = writes, deletes' = deletes
        PROVE  MildLocks'
      BY <1>2 DEF MildLocks
  <1>3. CASE Writes(t)
    <2> DEFINE l == [row |-> Head(script[t]).row, mode |-> Head(script[t]).mode]
    <2>1. l \in Mild
      <3>1. Head(script[t]) \in Ops /\ Head(script[t]).do = "write"
          BY <1>3, HeadIsOp DEF Writes, NextOp
      <3> QED
          BY <3>1
          DEF Ops, Mild, RowLock, Strongest, KeyShare, NoKeyUpdate, Update
    <2>2. Append(writes[t], l) \in Seq(Mild)
        BY <2>1, AppendProperties DEF MildLocks
    <2>3. writes' = [writes EXCEPT ![t] = Append(@, l)]
          /\ held' = held /\ deletes' = deletes
        BY <1>3 DEF Writes, AddWrite, locks
    <2> QED
        BY <2>2, <2>3 DEF MildLocks
  <1>4. CASE Deletes(t)
    <2> DEFINE l == [row |-> Head(script[t]).row, mode |-> Head(script[t]).mode]
    <2>1. l \in Mild
      <3>1. Head(script[t]) \in Ops /\ Head(script[t]).do = "delete"
          BY <1>4, HeadIsOp DEF Deletes, NextOp
      <3> QED
          BY <3>1
          DEF Ops, Mild, RowLock, Strongest, KeyShare, NoKeyUpdate, Update
    <2>2. Append(deletes[t], l) \in Seq(Mild)
        BY <2>1, AppendProperties DEF MildLocks
    <2>3. deletes' = [deletes EXCEPT ![t] = Append(@, l)]
          /\ held' = held /\ writes' = writes
        BY <1>4 DEF Deletes, AddDelete, locks
    <2> QED
        BY <2>2, <2>3 DEF MildLocks
  <1>5. ASSUME NEW p \in Projects, held' = Strengthen(t, p, NoKeyUpdate),
               writes' = writes, deletes' = deletes
        PROVE  MildLocks'
    <2>1. p \in Rows /\ NoKeyUpdate \in 1..3 /\ NoKeyUpdate <= Strongest(p)
        BY RowFacts DEF NoKeyUpdate
    <2> QED
        BY <1>5, <2>1, StrengthenMild DEF MildLocks
  <1>6. CASE LockRow(t)
      BY <1>5, <1>6 DEF LockRow, session, TypeOK, LockType
  <1>7. CASE InsertJournal(t)
    <2>1. Head(pending[t]) \in Projects
        BY <1>7, HeadTailProperties DEF InsertJournal, TypeOK, SessionType
    <2> QED
        BY <1>5, <1>7, <2>1 DEF InsertJournal
  <1>8. CASE ExecuteWrite(t)
    <2>1. Head(writes[t]) \in Mild /\ Tail(writes[t]) \in Seq(Mild)
        BY <1>8, HeadTailProperties DEF ExecuteWrite, MildLocks
    <2>2. /\ Head(writes[t]).row \in Rows /\ Head(writes[t]).mode \in 1..3
          /\ Head(writes[t]).mode <= Strongest(Head(writes[t]).row)
        BY <2>1 DEF Mild, RowLock
    <2>3. \A u \in Tx, x \in Rows : held'[u][x] <= Strongest(x)
        BY <1>8, <2>2, StrengthenMild DEF ExecuteWrite
    <2> QED
        BY <1>8, <2>1, <2>3 DEF ExecuteWrite, MildLocks
  <1>9. CASE ExecuteDelete(t)
    <2>1. Head(deletes[t]) \in Mild /\ Tail(deletes[t]) \in Seq(Mild)
        BY <1>9, HeadTailProperties DEF ExecuteDelete, MildLocks
    <2>2. /\ Head(deletes[t]).row \in Rows /\ Head(deletes[t]).mode \in 1..3
          /\ Head(deletes[t]).mode <= Strongest(Head(deletes[t]).row)
        BY <2>1 DEF Mild, RowLock
    <2>3. \A u \in Tx, x \in Rows : held'[u][x] <= Strongest(x)
        BY <1>9, <2>2, StrengthenMild DEF ExecuteDelete
    <2> QED
        BY <1>9, <2>1, <2>3 DEF ExecuteDelete, MildLocks
  <1>10. ASSUME End(t) PROVE MildLocks'
    <2>1. <<>> \in Seq(Mild)
        BY EmptySeq
    <2>2. \A r \in Rows : 0 <= Strongest(r)
        BY DEF Strongest, KeyShare, NoKeyUpdate, Update
    <2>3. \A u \in Tx, x \in Rows :
             held'[u][x] = IF u = t THEN 0 ELSE held[u][x]
        BY <1>10 DEF End, NoLocks, TypeOK, LockType
    <2> QED
        BY <1>10, <2>1, <2>2, <2>3 DEF End, MildLocks
  <1>11. CASE AddsJournal(t) \/ Stores(t) \/ Start(t)
      BY <1>2, <1>11
      DEF AddsJournal, AddJournal, Stores, Start, Begin, vars, session, locks
  <1>12. CASE Queries(t)
      BY <1>2, <1>12 DEF Queries, BeforeFlush, vars, session, locks
  <1>13. CASE Executes(t)
      BY <1>2, <1>6, <1>7, <1>8, <1>9, <1>13
      DEF Executes, LockAdvisory, AfterFlush, session, locks
  <1>14. CASE Finishes(t)
      BY <1>2, <1>10, <1>14 DEF Finishes, BeginCommit, BeforeFlush, Commit, locks
  <1>15. CASE Fails(t)
      BY <1>10, <1>15 DEF Fails, Rollback
  <1> QED
      BY <1>1, <1>3, <1>4, <1>11, <1>12, <1>13, <1>14, <1>15 DEF Acts

LEMMA StrengthenCompatible ==
  ASSUME TypeOK, Compatible, NEW t \in Tx, NEW r \in Rows, NEW m \in 1..3,
         Refusers(t, r, m) = {}, held' = Strengthen(t, r, m)
  PROVE  Compatible'
  <1>1. \A u \in Tx, x \in Rows :
           held'[u][x] = IF u = t /\ x = r /\ held[u][x] < m THEN m
                         ELSE held[u][x]
      BY DEF TypeOK, LockType, Strengthen
  <1>2. \A u \in Tx \ {t} : held[u][r] # 0 => ~Conflicts(held[u][r], m)
      BY DEF Refusers
  <1>3. \A u \in Tx, x \in Rows : held[u][x] \in 0..3
      BY DEF TypeOK, LockType
  <1> QED
      BY <1>1, <1>2, <1>3 DEF Compatible, Conflicts

LEMMA CompatibleStep ==
  ASSUME TypeOK, Compatible, LockNext
  PROVE  Compatible'
  <1>1. PICK t \in Tx : Acts(t) \/ Start(t) \/ Fails(t)
      BY DEF LockNext, Acts
  <1>2. ASSUME held' = held PROVE Compatible'
      BY <1>2 DEF Compatible
  <1>3. CASE LockRow(t)
    <2>1. PICK p \in toLock[t] : /\ Refusers(t, p, NoKeyUpdate) = {}
                                 /\ held' = Strengthen(t, p, NoKeyUpdate)
        BY <1>3 DEF LockRow
    <2>2. p \in Rows
        BY RowsAssumption DEF TypeOK, LockType
    <2> QED
        BY <2>1, <2>2, StrengthenCompatible DEF NoKeyUpdate
  <1>4. CASE InsertJournal(t)
    <2>1. Head(pending[t]) \in Rows
        BY <1>4, HeadTailProperties, RowsAssumption
        DEF InsertJournal, TypeOK, SessionType
    <2> QED
        BY <1>4, <2>1, StrengthenCompatible DEF InsertJournal, NoKeyUpdate
  <1>5. CASE ExecuteWrite(t)
    <2>1. Head(writes[t]) \in RowLock
        BY <1>5, HeadTailProperties DEF ExecuteWrite, TypeOK, SessionType
    <2>2. Head(writes[t]).row \in Rows /\ Head(writes[t]).mode \in 1..3
        BY <2>1 DEF RowLock
    <2> QED
        BY <1>5, <2>2, StrengthenCompatible DEF ExecuteWrite
  <1>6. CASE ExecuteDelete(t)
    <2>1. Head(deletes[t]) \in RowLock
        BY <1>6, HeadTailProperties DEF ExecuteDelete, TypeOK, SessionType
    <2>2. Head(deletes[t]).row \in Rows /\ Head(deletes[t]).mode \in 1..3
        BY <2>1 DEF RowLock
    <2> QED
        BY <1>6, <2>2, StrengthenCompatible DEF ExecuteDelete
  <1>7. ASSUME End(t) PROVE Compatible'
    <2>1. \A u \in Tx, x \in Rows :
             held'[u][x] = IF u = t THEN 0 ELSE held[u][x]
        BY <1>7 DEF End, NoLocks, TypeOK, LockType
    <2> QED
        BY <2>1 DEF Compatible
  <1>8. CASE AddsJournal(t) \/ Writes(t) \/ Deletes(t) \/ Stores(t) \/ Start(t)
      BY <1>2, <1>8
      DEF AddsJournal, AddJournal, Writes, AddWrite, Deletes, AddDelete,
          Stores, Start, Begin, vars, locks
  <1>9. CASE Queries(t)
      BY <1>2, <1>9 DEF Queries, BeforeFlush, vars, locks
  <1>10. CASE Executes(t)
      BY <1>2, <1>3, <1>4, <1>5, <1>6, <1>10
      DEF Executes, LockAdvisory, AfterFlush, locks
  <1>11. CASE Finishes(t)
      BY <1>2, <1>7, <1>11 DEF Finishes, BeginCommit, BeforeFlush, Commit, locks
  <1>12. CASE Fails(t)
      BY <1>7, <1>12 DEF Fails, Rollback
  <1> QED
      BY <1>1, <1>8, <1>9, <1>10, <1>11, <1>12 DEF Acts

LEMMA LockStep ==
  ASSUME TypeOK, LockInv, [LockNext]_lockVars
  PROVE  LockInv'
  <1>1. CASE LockNext
      BY <1>1, ScriptStep, MildStep, CompatibleStep, WorkersStep DEF LockInv
  <1>2. CASE UNCHANGED lockVars
    <2>1. ScriptType' /\ MildLocks' /\ Compatible'
        BY <1>2
        DEF lockVars, vars, session, locks, LockInv, ScriptType, MildLocks,
            Compatible
    <2>2. \A t \in Tx : Frame(t)
        BY <1>2 DEF lockVars, vars, session, locks, Frame, After, SameLocks
    <2>3. InOrder'
        BY <2>2, FrameKeeps DEF LockInv, InOrder
    <2> QED
        BY <2>1, <2>3 DEF LockInv
  <1> QED
      BY <1>1, <1>2

LEMMA LockInitInOrder ==
  ASSUME LockInit
  PROVE  LockInv
  <1>1. <<>> \in Seq(Ops) /\ <<>> \in Seq(Mild)
      BY EmptySeq
  <1>2. ScriptType
      BY <1>1 DEF LockInit, ScriptType
  <1>3. \A t \in Tx, r \in Rows : held[t][r] = 0
      BY DEF LockInit, Init, NoLocks
  <1>4. MildLocks
      BY <1>1, <1>3
      DEF LockInit, Init, MildLocks, Strongest, KeyShare, NoKeyUpdate, Update
  <1>5. Compatible
      BY <1>3 DEF Compatible
  <1>6. \A t \in Tx : Idle(t)
      BY <1>3, TxAssumption DEF LockInit, Init, Idle, Alone
  <1> QED
      BY <1>2, <1>4, <1>5, <1>6 DEF LockInv, InOrder, WorkerInOrder

(* The requests that forklift, manage and packaging.utils make are within  *)
(* what Journals lets a session do, so all that is proved of Journals      *)
(* holds of them.                                                          *)
THEOREM HandlersImplementJournals == LockSpec => Spec
  <1>1. LockInit => Init /\ TypeOK /\ SerialOrder /\ LockInv
      BY TypeInit, OrderInit, LockInitInOrder DEF LockInit
  <1>2. ASSUME TypeOK, SerialOrder, LockInv, [LockNext]_lockVars
        PROVE  /\ [Next]_vars
               /\ TypeOK' /\ SerialOrder' /\ LockInv'
    <2>1. [Next]_vars
        BY <1>2, LockStepIsStep DEF lockVars, LockInv
    <2> QED
        BY <1>2, <2>1, TypeStep, OrderStep, LockStep DEF SerialOrder
  <1> QED
      BY <1>1, <1>2, PTL DEF LockSpec, Spec

(* What a request locks below a project. *)
LEMMA RowsApart ==
  ASSUME NEW p \in Projects, NEW q \in Projects
  PROVE  /\ FilesRow[q] # ReleasesRow[p]
         /\ FilesRow[p] = FilesRow[q] \/ ReleasesRow[p] = ReleasesRow[q]
               => p = q
         /\ \A u \in DOMAIN FileRow[p] :
               FileRow[p][u] \notin {FilesRow[q], ReleasesRow[q]}
         /\ \A u \in DOMAIN VersionRow[p] :
               VersionRow[p][u] \notin {FilesRow[q], ReleasesRow[q]}
  <1>1. /\ FilesRow[q] \in FilesRows /\ ReleasesRow[p] \in ReleasesRows
        /\ ReleasesRow[q] \in ReleasesRows
      BY DEF FilesRows, ReleasesRows
  <1>2. \A u \in DOMAIN FileRow[p] :
           FileRow[p][u] \in NewFileRows \cup OldFileRows
      BY DEF NewFileRows, OldFileRows
  <1>3. \A u \in DOMAIN VersionRow[p] : VersionRow[p][u] \in VersionRows
      BY DEF VersionRows
  <1> QED
      BY <1>1, <1>2, <1>3, DistinctKindsAssumption DEF Disjoint

(* Only the task that caches a file writes to one, and only yanking a      *)
(* release or verifying a URL updates one.                                 *)
LEMMA WritesBelow ==
  ASSUME TypeOK, NEW t \in Tx, WorkerInOrder(t), pc[t] = "execute",
         writes[t] # <<>>, NEW q \in Projects
  PROVE  /\ Head(writes[t]).row = FilesRow[q] =>
               /\ writes[t] = <<CachedLock(q), ProjectLock(q)>>
               /\ script[t] = <<>> /\ pending[t] = <<>> /\ deletes[t] = <<>>
               /\ deferred[t] = <<>> /\ toLock[t] = {}
         /\ Head(writes[t]).row = ReleasesRow[q] =>
               \/ Head(writes[t]).mode # NoKeyUpdate /\ held[t][q] # NoKeyUpdate
               \/ Head(writes[t]).mode = NoKeyUpdate /\ ChecksUrls(t, q)
               \/ /\ Head(writes[t]).mode = NoKeyUpdate
                  /\ held[t][q] # NoKeyUpdate
                  /\ Yanks(t, q) /\ advisory # t /\ toLock[t] = {}
                  /\ Flushing(t, LastQuery(q),
                              <<ReleasesLock(q, NoKeyUpdate)>>, <<>>)
  <1> DEFINE h == Head(writes[t])
             Apart == /\ h.row # FilesRow[q]
                      /\ h.row # ReleasesRow[q]
  <1>1. PICK p \in Projects : BeforeJournals(t, p)
      BY DEF WorkerInOrder, Idle, LocksProject, Inserts, Ends, Alone
  <1>2. /\ advisory # t /\ toLock[t] = {}
      BY <1>1 DEF BeforeJournals
  <1>3. /\ q \in Rows /\ Rank(q) = 4 /\ q # EventsRow
        /\ FilesRow[q] \notin Projects \cup {EventsRow}
        /\ ReleasesRow[q] \notin Projects \cup {EventsRow}
      BY RowFacts
  <1>4. \A k \in 0..3 : Upto(t, k) => held[t][q] # NoKeyUpdate
      BY <1>3 DEF Upto, Counts, NoKeyUpdate, KeyShare
  <1>5. /\ EventLock.row = EventsRow /\ ProjectLock(p).row = p
        /\ ReferenceLock(p).row = p
        /\ \A m : ReleasesLock(p, m).row = ReleasesRow[p]
                  /\ ReleasesLock(p, m).mode = m
        /\ CachedLock(p).row = FilesRow[p]
        /\ VerifiedLock(p) = ReleasesLock(p, NoKeyUpdate)
        /\ \A u : NameLock(p, u).row = FileRow[p][u]
                  /\ VersionLock(p, u).row = VersionRow[p][u]
      BY DEF EventLock, ProjectLock, ReferenceLock, ReleasesLock, CachedLock,
             VerifiedLock, NameLock, VersionLock, Lock
  <1>6. /\ EventLock \in Mild /\ ProjectLock(p) \in Mild
        /\ ReferenceLock(p) \in Mild /\ CachedLock(p) \in Mild
        /\ VerifiedLock(p) \in Mild
        /\ \A m \in 1..3 : ReleasesLock(p, m) \in Mild
        /\ \A u \in DOMAIN VersionRow[p] : VersionLock(p, u) \in Mild
        /\ \A u \in DOMAIN FileRow[p] : NameLock(p, u) \in Mild
      BY LockFacts
  <1>7. KeyShare \in 1..3 /\ NoKeyUpdate \in 1..3 /\ Update \in 1..3
        /\ KeyShare # NoKeyUpdate /\ Update # NoKeyUpdate
      BY DEF KeyShare, NoKeyUpdate, Update
  <1>8. /\ FilesRow[q] # ReleasesRow[p] /\ FilesRow[p] # ReleasesRow[q]
        /\ FilesRow[p] = FilesRow[q] \/ ReleasesRow[p] = ReleasesRow[q]
              => p = q
        /\ \A u \in DOMAIN FileRow[p] :
              FileRow[p][u] \notin {FilesRow[q], ReleasesRow[q]}
        /\ \A u \in DOMAIN VersionRow[p] :
              VersionRow[p][u] \notin {FilesRow[q], ReleasesRow[q]}
      BY RowsApart
  <1>10. ASSUME NEW u \in DOMAIN FileRow[p], FlushesFile(t, p, u)
         PROVE  \/ Apart
                \/ /\ h.row # FilesRow[q] /\ h.mode # NoKeyUpdate
                   /\ held[t][q] # NoKeyUpdate
    <2> DEFINE f == NameLock(p, u)
               l == ReleasesLock(p, KeyShare)
               n == ProjectLock(p)
    <2>1. f \in Mild /\ l \in Mild /\ n \in Mild
        BY <1>6, <1>7
    <2>2. \/ writes[t] = <<f, l, n>>
          \/ writes[t] = <<l, n>> /\ FileLocked(t, p)
          \/ writes[t] = <<n>>
        BY <1>10 DEF FlushesFile, Flushing, FileLocks
    <2>3. /\ f.row = FileRow[p][u] /\ n.row = p
          /\ l.row = ReleasesRow[p] /\ l.mode = KeyShare
        BY <1>5
    <2> HIDE DEF f, l, n
    <2>4. h = f \/ h = n \/ (h = l /\ FileLocked(t, p))
        BY <2>1, <2>2, ListFacts
    <2>5. CASE h = f
        BY <1>8, <2>3, <2>5
    <2>6. CASE h = n
        BY <1>3, <2>3, <2>6
    <2>7. CASE h = l /\ FileLocked(t, p)
        BY <1>4, <1>7, <1>8, <2>3, <2>7 DEF FileLocked
    <2> QED
        BY <2>4, <2>5, <2>6, <2>7
  <1>11. ASSUME NEW u \in DOMAIN VersionRow[p], AddsRelease(t, p, u)
         PROVE  \/ Apart
                \/ /\ h.row # FilesRow[q] /\ h.mode # NoKeyUpdate
                   /\ held[t][q] # NoKeyUpdate
    <2> DEFINE v == VersionLock(p, u)
               k == ReferenceLock(p)
               l == ReleasesLock(p, Update)
    <2>1. v \in Mild /\ k \in Mild /\ l \in Mild
        BY <1>6, <1>7
    <2>2. \/ writes[t] = <<v, k>> \/ writes[t] = <<k>>
          \/ writes[t] = <<l>> /\ Upto(t, 1)
        BY <1>11 DEF AddsRelease, Flushing, Loaded
    <2>3. /\ v.row = VersionRow[p][u] /\ k.row = p
          /\ l.row = ReleasesRow[p] /\ l.mode = Update
        BY <1>5
    <2> HIDE DEF v, k, l
    <2>4. h = v \/ h = k \/ (h = l /\ Upto(t, 1))
        BY <2>1, <2>2, ListFacts
    <2>5. CASE h = v
        BY <1>8, <2>3, <2>5
    <2>6. CASE h = k
        BY <1>3, <2>3, <2>6
    <2>7. CASE h = l /\ Upto(t, 1)
        BY <1>4, <1>7, <1>8, <2>3, <2>7
    <2> QED
        BY <2>4, <2>5, <2>6, <2>7
  <1>12. ASSUME h = EventLock PROVE Apart
      BY <1>3, <1>5, <1>12
  <1>13. Head(<<EventLock>>) = EventLock
      BY <1>6, OneLock
  <1>14. CASE DeletesRelease(t, p) \/ DeletesFile(t, p)
    <2>1. writes[t] = <<EventLock>>
        BY <1>14 DEF DeletesRelease, DeletesFile, Flushing, Loaded
    <2>2. Apart
        BY <1>12, <1>13, <2>1
    <2> QED
        BY <2>2
  <1>15. CASE Yanks(t, p)
    <2> DEFINE e == EventLock
               l == ReleasesLock(p, NoKeyUpdate)
    <2>1. e \in Mild /\ l \in Mild
        BY <1>6, <1>7
    <2>2. \/ writes[t] = <<e, l>>
          \/ writes[t] = <<l>> /\ Flushing(t, LastQuery(p), <<l>>, <<>>)
        BY <1>15 DEF Yanks, Flushing, Loaded
    <2>3. l.row = ReleasesRow[p] /\ l.mode = NoKeyUpdate
        BY <1>5
    <2>4. Upto(t, 0)
        BY <1>15 DEF Yanks
    <2> HIDE DEF e, l
    <2>5. CASE writes[t] = <<e, l>>
      <3>1. h = EventLock
          BY <2>1, <2>5, TwoLocks DEF e
      <3> QED
          BY <1>12, <3>1
    <2>6. CASE writes[t] = <<l>> /\ Flushing(t, LastQuery(p), <<l>>, <<>>)
      <3>1. h = l
          BY <2>1, <2>6, OneLock
      <3>2. h.row # FilesRow[q] /\ h.mode = NoKeyUpdate
          BY <1>8, <2>3, <3>1
      <3>3. h.row = ReleasesRow[q] => p = q
          BY <1>8, <2>3, <3>1
      <3>4. held[t][q] # NoKeyUpdate
          BY <1>4, <2>4
      <3> QED
          BY <1>2, <1>15, <2>6, <3>2, <3>3, <3>4 DEF l
    <2> QED
        BY <2>2, <2>5, <2>6
  <1>16. CASE ChecksUrls(t, p)
    <2> DEFINE v == VerifiedLock(p)
    <2>1. writes[t] = <<v>> /\ v \in Mild
        BY <1>6, <1>16 DEF ChecksUrls, Flushing, Loaded
    <2>2. v.row = ReleasesRow[p] /\ v.mode = NoKeyUpdate
        BY <1>5
    <2> HIDE DEF v
    <2>3. h = v
        BY <2>1, OneLock
    <2>4. h.row # FilesRow[q] /\ h.mode = NoKeyUpdate
        BY <1>8, <2>2, <2>3
    <2>5. h.row = ReleasesRow[q] => p = q
        BY <1>8, <2>2, <2>3
    <2> QED
        BY <1>16, <2>4, <2>5
  <1>17. CASE Syncs(t, p)
    <2> DEFINE c == CachedLock(p)
               n == ProjectLock(p)
    <2>1. /\ writes[t] \in {<<c, n>>, <<n>>} /\ c \in Mild /\ n \in Mild
          /\ script[t] = <<>>
          /\ pending[t] = <<>> /\ deletes[t] = <<>> /\ deferred[t] = <<>>
        BY <1>6, <1>17 DEF Syncs, Flushing, Loaded
    <2>2. c.row = FilesRow[p] /\ n.row = p
        BY <1>5
    <2> HIDE DEF c, n
    <2>3. CASE writes[t] = <<c, n>>
      <3>1. h = c
          BY <2>1, <2>3, TwoLocks
      <3>2. h.row # ReleasesRow[q] /\ (h.row = FilesRow[q] => p = q)
          BY <1>8, <2>2, <3>1
      <3> QED
          BY <1>2, <2>1, <2>3, <3>2 DEF c, n
    <2>4. CASE writes[t] = <<n>>
      <3>1. h = n
          BY <2>1, <2>4, OneLock
      <3> QED
          BY <1>3, <2>2, <3>1
    <2> QED
        BY <2>1, <2>3, <2>4
  <1>18. ~Restores(t, p)
      BY DEF Restores, Flushing, Loaded
  <1>19. \A u : ~AddsFile(t, p, u) /\ ~AddsEntries(t, p, u)
      BY DEF AddsFile, AddsEntries, Loaded
  <1> QED
      BY <1>1, <1>10, <1>11, <1>14, <1>15, <1>16, <1>17, <1>18, <1>19
      DEF BeforeJournals

(* Releases and files are deleted in order, a file on its own under its    *)
(* project's lock.                                                         *)
LEMMA DeletesBelow ==
  ASSUME TypeOK, NEW t \in Tx, WorkerInOrder(t), pc[t] = "execute",
         writes[t] = <<>>, pending[t] = <<>>, deletes[t] # <<>>,
         NEW q \in Projects
  PROVE  /\ Head(deletes[t]).row = FilesRow[q] =>
               \/ held[t][q] = NoKeyUpdate
               \/ /\ script[t] = LastQuery(q)
                  /\ Tail(deletes[t]) = <<ProjectLock(q)>>
         /\ Head(deletes[t]).row = ReleasesRow[q] =>
               Head(deletes[t]).mode = Update
  <1> DEFINE h == Head(deletes[t])
  <1>1. PICK p \in Projects : DeletesRelease(t, p) \/ Ends(t, p)
    <2>1. PICK p \in Projects :
             BeforeJournals(t, p) \/ LocksProject(t, p) \/ Inserts(t, p)
             \/ Ends(t, p)
        BY DEF WorkerInOrder, Idle
    <2>2. ~LocksProject(t, p) /\ ~Inserts(t, p)
        BY DEF LocksProject, Inserts, Alone
    <2>3. \A u : ~AddsFile(t, p, u) /\ ~AddsEntries(t, p, u) /\ ~FlushesFile(t, p, u)
        BY DEF AddsFile, AddsEntries, FlushesFile, Loaded, Flushing
    <2>4. \A u : ~AddsRelease(t, p, u)
        BY DEF AddsRelease, Loaded, Flushing
    <2>5. ~DeletesFile(t, p) /\ ~Yanks(t, p) /\ ~Restores(t, p)
        BY DEF DeletesFile, Yanks, Restores, Loaded, Flushing
    <2>6. ~ChecksUrls(t, p) /\ ~Syncs(t, p)
        BY DEF ChecksUrls, Syncs, Loaded, Flushing
    <2> QED
        BY <2>1, <2>2, <2>3, <2>4, <2>5, <2>6 DEF BeforeJournals
  <1> DEFINE l == ReleasesLock(p, Update)
             f == FilesLock(p)
             n == ProjectLock(p)
  <1>2. l \in Mild /\ f \in Mild /\ n \in Mild
      BY LockFacts DEF Update
  <1>3. /\ l.row = ReleasesRow[p] /\ l.mode = Update
        /\ f.row = FilesRow[p] /\ n.row = p
      BY RowLocks DEF ReleasesLock, FilesLock, ProjectLock
  <1>4. /\ FilesRow[q] # ReleasesRow[p] /\ FilesRow[p] # ReleasesRow[q]
        /\ FilesRow[p] = FilesRow[q] => p = q
        /\ p # FilesRow[q] /\ p # ReleasesRow[q]
      BY RowsApart, RowFacts
  <1> HIDE DEF l, f, n
  <1>5. \/ deletes[t] = <<l, f, n>> \/ deletes[t] = <<n>>
        \/ /\ deletes[t] = <<f, n>>
           /\ script[t] = LastQuery(p) \/ held[t][p] = NoKeyUpdate
      BY <1>1 DEF DeletesRelease, DropLocks, Ends, Loaded, Flushing, l, f, n
  <1>6. CASE deletes[t] = <<l, f, n>>
    <2>1. h = l
        BY <1>2, <1>6, ThreeLocks
    <2> QED
        BY <1>3, <1>4, <2>1
  <1>7. CASE deletes[t] = <<n>>
    <2>1. h = n
        BY <1>2, <1>7, OneLock
    <2> QED
        BY <1>3, <1>4, <2>1
  <1>8. CASE /\ deletes[t] = <<f, n>>
             /\ script[t] = LastQuery(p) \/ held[t][p] = NoKeyUpdate
    <2>1. h = f /\ Tail(deletes[t]) = <<n>>
        BY <1>2, <1>8, TwoLocks
    <2> QED
        BY <1>3, <1>4, <1>8, <2>1 DEF n
  <1> QED
      BY <1>5, <1>6, <1>7, <1>8

(* Where a step of a worker can change what it has locked. *)
LEMMA LocksChange ==
  ASSUME TypeOK, ScriptType, NEW t \in Tx, pc[t] # "idle", Acts(t)
  PROVE  \/ Idle(t)'
         \/ held'[t] = held[t]
         \/ \E p \in Projects : Takes(t, p, NoKeyUpdate)
         \/ /\ pc[t] = "execute" /\ writes[t] # <<>>
            /\ Takes(t, Head(writes[t]).row, Head(writes[t]).mode)
         \/ /\ pc[t] = "execute" /\ writes[t] = <<>> /\ pending[t] = <<>>
            /\ deletes[t] # <<>>
            /\ Takes(t, Head(deletes[t]).row, Head(deletes[t]).mode)
  <1>1. CASE pc[t] = "open"
      BY <1>1, EndEffect
      DEF Acts, AddsJournal, AddJournal, Writes, AddWrite, Deletes, AddDelete,
          Queries, BeforeFlush, Stores, Executes, Finishes, BeginCommit, Commit,
          LockRow, LockAdvisory, ExecuteWrite, InsertJournal, ExecuteDelete,
          AfterFlush, vars, locks
  <1>2. CASE pc[t] = "lockRows"
    <2>1. toLock[t] \subseteq Projects
        BY DEF TypeOK, LockType
    <2> QED
        BY <1>2, <2>1, LockRowsEffect
  <1>3. CASE pc[t] = "execute"
    <2>1. pending[t] # <<>> => Head(pending[t]) \in Projects
        BY HeadTailProperties DEF TypeOK, SessionType
    <2> QED
        BY <1>3, <2>1, ExecuteEffect DEF SameLocks
  <1> QED
      BY <1>1, <1>2, <1>3 DEF TypeOK, SessionType

LEMMA TypedHeads ==
  ASSUME TypeOK, NEW t \in Tx
  PROVE  /\ writes[t] # <<>> =>
               Head(writes[t]).row \in Rows /\ Head(writes[t]).mode \in 1..3
         /\ deletes[t] # <<>> =>
               Head(deletes[t]).row \in Rows /\ Head(deletes[t]).mode \in 1..3
  <1>1. /\ writes[t] # <<>> => Head(writes[t]) \in RowLock
        /\ deletes[t] # <<>> => Head(deletes[t]) \in RowLock
      BY HeadTailProperties DEF TypeOK, SessionType
  <1> QED
      BY <1>1 DEF RowLock

(* A worker that steps keeps its project's lock with what is below it.     *)
LEMMA OwnBelowStep ==
  ASSUME TypeOK, ScriptType, MildLocks, NEW t \in Tx, WorkerInOrder(t),
         pc[t] # "idle", Acts(t), NEW q \in Projects,
         FilesGoWithProject(t, q), ReleasesGoWithProject(t, q)
  PROVE  FilesGoWithProject(t, q)' /\ ReleasesGoWithProject(t, q)'
  <1> DEFINE f == FilesRow[q]
             l == ReleasesRow[q]
  <1>1. /\ q \in Rows /\ f \in Rows /\ l \in Rows /\ f \notin Projects
        /\ l \notin Projects /\ f # l /\ q # f /\ q # l
      BY RowFacts, RowsApart
  <1>2. \A r \in Rows : held[t][r] \in 0..3
      BY DEF TypeOK, LockType
  <1>3. held[t][q] <= 2
      BY <1>1, RowFacts DEF MildLocks
  <1>4. CASE Idle(t)'
      BY <1>1, <1>4
      DEF Idle, FilesGoWithProject, ReleasesGoWithProject, NoKeyUpdate
  <1>5. ASSUME held[t][q] = NoKeyUpdate, ~Idle(t)'
        PROVE  held'[t][q] = NoKeyUpdate
    <2>1. ASSUME NEW r \in Rows, NEW m \in 1..3, Takes(t, r, m),
                 r \in Projects => m = NoKeyUpdate
          PROVE  held'[t][q] = NoKeyUpdate
        BY <1>1, <1>5, <2>1 DEF Takes, NoKeyUpdate
    <2>2. ASSUME writes[t] # <<>>, Head(writes[t]).row = q
          PROVE  Head(writes[t]).mode <= 2
      <3>1. Head(writes[t]) \in Mild
          BY <2>2, HeadTailProperties DEF MildLocks
      <3> QED
          BY <2>2, <3>1, RowFacts DEF Mild
    <2>3. ASSUME deletes[t] # <<>>, Head(deletes[t]).row = q
          PROVE  Head(deletes[t]).mode <= 2
      <3>1. Head(deletes[t]) \in Mild
          BY <2>3, HeadTailProperties DEF MildLocks
      <3> QED
          BY <2>3, <3>1, RowFacts DEF Mild
    <2>4. \A r, m : Takes(t, r, m) /\ (r = q => m <= 2) /\ m \in Nat
                       => held'[t][q] = NoKeyUpdate
        BY <1>1, <1>5 DEF Takes, NoKeyUpdate
    <2> QED
        BY <1>5, <2>2, <2>3, <2>4, LocksChange, TypedHeads DEF NoKeyUpdate
  <1>6. FilesGoWithProject(t, q)'
    <2> SUFFICES ASSUME ~Idle(t)', held'[t][f] # 0, held'[t][q] # NoKeyUpdate,
                        held[t][q] # NoKeyUpdate
                 PROVE  \/ Flushing(t, LastQuery(q), <<>>, <<ProjectLock(q)>>)'
                        \/ Flushing(t, <<>>, <<ProjectLock(q)>>, <<>>)'
        BY <1>4, <1>5 DEF FilesGoWithProject
    <2>1. CASE Flushing(t, <<>>, <<ProjectLock(q)>>, <<>>)
      <3>1. /\ ProjectLock(q) \in Mild
            /\ ProjectLock(q).row = q /\ ProjectLock(q).mode = NoKeyUpdate
          BY LockFacts, RowLocks DEF ProjectLock
      <3>2. /\ writes[t] # <<>> /\ Head(writes[t]) = ProjectLock(q)
            /\ pc[t] = "execute"
          BY <2>1, <3>1, OneLock DEF Flushing
      <3>3. Takes(t, q, NoKeyUpdate)
          BY <3>1, <3>2, ExecutesWrite
      <3>4. held'[t][q] = NoKeyUpdate
          BY <1>1, <1>2, <1>3, <3>3 DEF Takes, NoKeyUpdate
      <3> QED
          BY <3>4
    <2>2. CASE Flushing(t, LastQuery(q), <<>>, <<ProjectLock(q)>>)
      <3>1. /\ ProjectLock(q) \in Mild
            /\ ProjectLock(q).row = q /\ ProjectLock(q).mode = NoKeyUpdate
          BY LockFacts, RowLocks DEF ProjectLock
      <3>2. /\ deletes[t] # <<>> /\ Head(deletes[t]) = ProjectLock(q)
            /\ pc[t] = "execute" /\ writes[t] = <<>> /\ pending[t] = <<>>
          BY <2>2, <3>1, OneLock DEF Flushing
      <3>3. Takes(t, q, NoKeyUpdate)
          BY <3>1, <3>2, ExecutesDelete
      <3>4. held'[t][q] = NoKeyUpdate
          BY <1>1, <1>2, <1>3, <3>3 DEF Takes, NoKeyUpdate
      <3> QED
          BY <3>4
    <2>3. CASE held[t][f] = 0
      <3>1. ASSUME pc[t] = "execute", writes[t] # <<>>,
                   Head(writes[t]).row = f
            PROVE  Flushing(t, <<>>, <<ProjectLock(q)>>, <<>>)'
        <4>1. /\ writes[t] = <<CachedLock(q), ProjectLock(q)>>
              /\ script[t] = <<>> /\ pending[t] = <<>> /\ deletes[t] = <<>>
              /\ deferred[t] = <<>> /\ toLock[t] = {}
            BY <3>1, WritesBelow
        <4>2. Tail(writes[t]) = <<ProjectLock(q)>>
            BY <4>1, LockFacts, TwoLocks
        <4>3. After(t, "execute", <<>>, <<>>, <<ProjectLock(q)>>, <<>>, <<>>, {})
            BY <3>1, <4>1, <4>2, ExecutesWrite
        <4> QED
            BY <4>3 DEF After, Flushing
      <3>2. ASSUME pc[t] = "execute", writes[t] = <<>>, pending[t] = <<>>,
                   deletes[t] # <<>>, Head(deletes[t]).row = f
            PROVE  Flushing(t, LastQuery(q), <<>>, <<ProjectLock(q)>>)'
        <4>1. /\ script[t] = LastQuery(q)
              /\ Tail(deletes[t]) = <<ProjectLock(q)>>
            BY <3>2, DeletesBelow
        <4>2. After(t, "execute", LastQuery(q), <<>>, <<>>,
                    <<ProjectLock(q)>>, deferred[t], toLock[t])
            BY <3>2, <4>1, ExecutesDelete
        <4> QED
            BY <4>2 DEF After, Flushing
      <3>3. \A r, m : Takes(t, r, m) /\ r # f => held'[t][f] = 0
          BY <1>1, <2>3 DEF Takes
      <3> QED
          BY <1>1, <2>3, <3>1, <3>2, <3>3, LocksChange
    <2> QED
        BY <2>1, <2>2, <2>3 DEF FilesGoWithProject
  <1>7. ReleasesGoWithProject(t, q)'
    <2> SUFFICES ASSUME ~Idle(t)', held'[t][l] = NoKeyUpdate,
                        held'[t][q] # NoKeyUpdate, held[t][q] # NoKeyUpdate
                 PROVE  \/ BeforeJournals(t, q)' /\ Restores(t, q)'
                        \/ LocksProject(t, q)'
        BY <1>4, <1>5 DEF ReleasesGoWithProject
    <2>1. CASE BeforeJournals(t, q) /\ Restores(t, q)
        BY <2>1, RestoresStep DEF BeforeJournals
    <2>2. CASE LocksProject(t, q)
      <3>1. Inserts(t, q)' => held'[t][q] = NoKeyUpdate
          BY DEF Inserts
      <3> QED
          BY <2>2, <3>1, LocksProjectStep
    <2>3. CASE held[t][l] # NoKeyUpdate
      <3>1. ASSUME pc[t] = "execute", writes[t] # <<>>,
                   Head(writes[t]).row = l, Head(writes[t]).mode = NoKeyUpdate
            PROVE  BeforeJournals(t, q)' /\ Restores(t, q)'
        <4>1. /\ Yanks(t, q) /\ advisory # t /\ toLock[t] = {}
              /\ Flushing(t, LastQuery(q),
                          <<ReleasesLock(q, NoKeyUpdate)>>, <<>>)
            BY <3>1, WritesBelow DEF ChecksUrls
        <4>2. Upto(t, 0) /\ deferred[t] \in Only(q)
            BY <3>1, <4>1 DEF Yanks, Loaded, Flushing
        <4> QED
            BY <4>1, <4>2, YankedStep DEF BeforeJournals
      <3>2. ASSUME pc[t] = "execute", writes[t] = <<>>, pending[t] = <<>>,
                   deletes[t] # <<>>, Head(deletes[t]).row = l
            PROVE  Head(deletes[t]).mode # NoKeyUpdate
          BY <3>2, DeletesBelow DEF NoKeyUpdate, Update
      <3>3. \A r, m : Takes(t, r, m) => r = l /\ m = NoKeyUpdate
          BY <1>1, <2>3 DEF Takes
      <3>4. held'[t] # held[t]
          BY <2>3
      <3> QED
          BY <1>1, <3>1, <3>2, <3>3, <3>4, LocksChange
    <2> QED
        BY <2>1, <2>2, <2>3 DEF ReleasesGoWithProject
  <1> QED
      BY <1>6, <1>7

LEMMA FrameKeepsBelow ==
  ASSUME NEW u \in Tx, Frame(u), NEW q \in Projects,
         FilesGoWithProject(u, q), ReleasesGoWithProject(u, q)
  PROVE  FilesGoWithProject(u, q)' /\ ReleasesGoWithProject(u, q)'
  <1> USE FrameUpto, FrameStates
  <1>1. FilesGoWithProject(u, q)'
      BY DEF FilesGoWithProject, Frame, After
  <1>2. BeforeJournals(u, q) /\ Restores(u, q)
           => BeforeJournals(u, q)' /\ Restores(u, q)'
    <2>1. Restores(u, q) => Restores(u, q)'
        BY DEF Restores
    <2> QED
        BY <2>1 DEF BeforeJournals, Frame, After, SameLocks
  <1>3. LocksProject(u, q) => LocksProject(u, q)'
      BY DEF LocksProject, Alone, Frame, After, SameLocks
  <1> QED
      BY <1>1, <1>2, <1>3 DEF ReleasesGoWithProject

LEMMA BelowStep ==
  ASSUME TypeOK, LockInv, BelowProject, [LockNext]_lockVars
  PROVE  BelowProject'
  <1> SUFFICES ASSUME NEW u \in Tx, NEW q \in Projects
               PROVE  FilesGoWithProject(u, q)' /\ ReleasesGoWithProject(u, q)'
      BY DEF BelowProject
  <1>1. FilesGoWithProject(u, q) /\ ReleasesGoWithProject(u, q)
      BY DEF BelowProject
  <1>2. CASE UNCHANGED lockVars
    <2>1. Frame(u)
        BY <1>2 DEF lockVars, vars, session, locks, Frame, After, SameLocks
    <2> QED
        BY <1>1, <2>1, FrameKeepsBelow
  <1>3. CASE LockNext
    <2>1. PICK t \in Tx : Acts(t) \/ Start(t) \/ Fails(t)
        BY <1>3 DEF LockNext, Acts
    <2>2. CASE u # t
        BY <1>1, <2>1, <2>2, OthersStay, FrameKeepsBelow DEF LockInv
    <2>3. CASE u = t
      <3>1. FilesRow[q] \in Rows /\ ReleasesRow[q] \in Rows
          BY RowFacts
      <3>2. ASSUME \A r \in Rows : held'[t][r] = 0
            PROVE  FilesGoWithProject(t, q)' /\ ReleasesGoWithProject(t, q)'
          BY <3>1, <3>2
          DEF FilesGoWithProject, ReleasesGoWithProject, NoKeyUpdate
      <3>3. CASE Fails(t)
        <4>1. Idle(t)'
            BY <3>3, EndEffect DEF Fails, Rollback, LockInv
        <4> QED
            BY <2>3, <3>2, <4>1 DEF Idle
      <3>4. CASE Start(t)
        <4>1. Idle(t) /\ held' = held
            BY <3>4, NothingLeft
            DEF Start, Begin, locks, LockInv, InOrder
        <4> QED
            BY <2>3, <3>2, <4>1 DEF Idle
      <3>5. CASE Acts(t)
        <4>1. pc[t] # "idle"
            BY <3>5
            DEF Acts, AddsJournal, Writes, Deletes, Queries, Stores, Executes,
                Finishes, AddJournal, AddWrite, AddDelete, Working,
                BeginCommit, BeforeFlush, Commit, LockRow, LockAdvisory,
                ExecuteWrite, InsertJournal, ExecuteDelete, AfterFlush
        <4> QED
            BY <1>1, <2>3, <3>5, <4>1, OwnBelowStep DEF LockInv, InOrder
      <3> QED
          BY <2>1, <3>3, <3>4, <3>5
    <2> QED
        BY <2>2, <2>3
  <1> QED
      BY <1>2, <1>3

LEMMA LockInitBelow ==
  ASSUME LockInit
  PROVE  BelowProject
  <1>1. \A t \in Tx, r \in Rows : held[t][r] = 0
      BY DEF LockInit, Init, NoLocks
  <1>2. \A p \in Projects : FilesRow[p] \in Rows /\ ReleasesRow[p] \in Rows
      BY RowFacts
  <1> QED
      BY <1>1, <1>2
      DEF BelowProject, FilesGoWithProject, ReleasesGoWithProject, NoKeyUpdate

(* Every request of LockSpec keeps the order of its locks, up to the late  *)
(* statements of a file's deletion and of an upload that verifies a URL,   *)
(* and who has locked files or updated releases has their project's lock   *)
(* or goes for it next.                                                    *)
THEOREM RequestsInOrder == LockSpec => [](TypeOK /\ LockInv /\ BelowProject)
  <1>1. LockSpec => []TypeOK
      BY HandlersImplementJournals, Invariance, PTL DEF IInv
  <1>2. /\ TypeOK /\ LockInv /\ [LockNext]_lockVars => LockInv'
        /\ TypeOK /\ LockInv /\ BelowProject /\ [LockNext]_lockVars
              => BelowProject'
      BY LockStep, BelowStep
  <1>3. LockInit => LockInv /\ BelowProject
      BY LockInitInOrder, LockInitBelow
  <1> QED
      BY <1>1, <1>2, <1>3, PTL DEF LockSpec

-----------------------------------------------------------------------------
(* What a worker waits for.  WaitsAt(t, k): for a lock of rank k, when the *)
(* locks that t has are below it.                                          *)

WaitsAt(t, k) ==
    /\ advisory # t
    /\ Upto(t, k - 1)
    /\ \A u \in Blockers(t) :
          \/ k = 5 /\ advisory = u
          \/ \E r \in Rows : Counts(u, r) /\ Rank(r) = k

Placed(t) == Blockers(t) = {} \/ \E k \in 1..5 : WaitsAt(t, k)

LEMMA BlockersAre ==
  ASSUME TypeOK, NEW t \in Tx
  PROVE  /\ pc[t] \in {"idle", "open"} => Blockers(t) = {}
         /\ pc[t] = "lockRows" /\ toLock[t] # {} =>
               Blockers(t) = Refusers(t, Min(toLock[t]), NoKeyUpdate)
         /\ pc[t] = "lockRows" /\ toLock[t] = {} =>
               Blockers(t) = {advisory} \ {t, NoTx}
         /\ pc[t] = "execute" =>
               /\ writes[t] # <<>> => Blockers(t) =
                     Refusers(t, Head(writes[t]).row, Head(writes[t]).mode)
               /\ writes[t] = <<>> /\ pending[t] # <<>> =>
                     Blockers(t) = Refusers(t, Head(pending[t]), NoKeyUpdate)
               /\ writes[t] = <<>> /\ pending[t] = <<>> /\ deletes[t] # <<>>
                  => Blockers(t) =
                     Refusers(t, Head(deletes[t]).row, Head(deletes[t]).mode)
               /\ Clean(t) => Blockers(t) = {}
  BY DEF Blockers, Clean

(* A lock that a worker has already is free to it. *)
LEMMA NoRefusers ==
  ASSUME TypeOK, MildLocks, Compatible, NEW t \in Tx, NEW r \in Rows
  PROVE  /\ \A m \in 1..3 : m <= held[t][r] => Refusers(t, r, m) = {}
         /\ r = EventsRow => Refusers(t, r, KeyShare) = {}
         /\ r \in Projects => Refusers(t, r, KeyShare) = {}
  <1>1. \A u \in Tx : held[u][r] \in 0..3 /\ held[u][r] <= Strongest(r)
      BY DEF TypeOK, LockType, MildLocks
  <1>2. ASSUME NEW m \in 1..3, m <= held[t][r], NEW u \in Refusers(t, r, m)
        PROVE  FALSE
    <2>1. u \in Tx \ {t} /\ held[u][r] # 0 /\ Conflicts(held[u][r], m)
        BY DEF Refusers
    <2>2. ~Conflicts(held[u][r], held[t][r])
        BY <1>1, <1>2, <2>1 DEF Compatible, Conflicts
    <2> QED
        BY <1>1, <1>2, <2>1, <2>2 DEF Conflicts
  <1>3. ASSUME r = EventsRow \/ r \in Projects, NEW u \in Refusers(t, r, KeyShare)
        PROVE  FALSE
      BY <1>1, <1>3
      DEF Refusers, Conflicts, Strongest, KeyShare, NoKeyUpdate
  <1> QED
      BY <1>2, <1>3

(* A worker that waits for a row waits for others that have it locked. *)
LEMMA WaitsForRow ==
  ASSUME TypeOK, NEW t \in Tx, advisory # t, NEW r \in Rows, NEW m \in 1..3,
         Blockers(t) = Refusers(t, r, m), r # EventsRow,
         r \in Projects => m = NoKeyUpdate,
         NEW k \in 1..5, Rank(r) = k, NEW j \in Nat, j < k, Upto(t, j)
  PROVE  Placed(t)
  <1>1. \A u \in Blockers(t) : Counts(u, r)
    <2> SUFFICES ASSUME NEW u \in Refusers(t, r, m) PROVE Counts(u, r)
        OBVIOUS
    <2>1. held[u][r] # 0 /\ Conflicts(held[u][r], m) /\ held[u][r] \in 0..3
        BY DEF Refusers, TypeOK, LockType
    <2> QED
        BY <2>1 DEF Counts, Conflicts, NoKeyUpdate, KeyShare
  <1>2. Upto(t, k - 1)
      BY UptoRises
  <1> QED
      BY <1>1, <1>2 DEF WaitsAt, Placed

(* The uploads. *)
LEMMA FlushesFilePlaced ==
  ASSUME TypeOK, MildLocks, Compatible, NEW t \in Tx, advisory # t,
         NEW p \in Projects, NEW u \in DOMAIN FileRow[p], FlushesFile(t, p, u)
  PROVE  Placed(t)
  <1> DEFINE f == NameLock(p, u)
             l == ReleasesLock(p, KeyShare)
             n == ProjectLock(p)
  <1>1. pc[t] = "execute"
      BY DEF FlushesFile, Flushing
  <1>2. f \in Mild /\ l \in Mild /\ n \in Mild
    <2>1. f \in Mild /\ n \in Mild
        BY LockFacts
    <2>2. l \in Mild
        BY LockFacts DEF KeyShare
    <2> QED
        BY <2>1, <2>2
  <1>3. /\ f.row = FileRow[p][u] /\ f.mode = 3 /\ l.row = ReleasesRow[p]
        /\ l.mode = 1 /\ n.row = p /\ n.mode = 2
      BY RowLocks
      DEF NameLock, ReleasesLock, ProjectLock, KeyShare, NoKeyUpdate, Update
  <1>4. /\ FileRow[p][u] \in Rows /\ FileRow[p][u] \notin Projects \cup {EventsRow}
        /\ ReleasesRow[p] \in Rows /\ ReleasesRow[p] \notin Projects
        /\ ReleasesRow[p] # EventsRow /\ Rank(ReleasesRow[p]) = 2
        /\ p \in Rows /\ p # EventsRow /\ Rank(p) = 4
      BY FileFacts, RowFacts
  <1>5. FileLocks(p, u) = <<f, l, n>>
      BY DEF FileLocks
  <1> HIDE DEF f, l, n
  <1>6. CASE /\ \E s : Flushing(t, s, FileLocks(p, u), <<>>)
             /\ FileReady(t, p, u)
    <2>1. writes[t] # <<>> /\ Head(writes[t]) = f
        BY <1>2, <1>5, <1>6, ListFacts DEF Flushing
    <2>2. Blockers(t) = Refusers(t, FileRow[p][u], 3)
        BY <1>1, <1>3, <2>1, BlockersAre
    <2>3. \/ Rank(FileRow[p][u]) = 1 /\ Upto(t, 0)
          \/ Rank(FileRow[p][u]) = 3 /\ Upto(t, 2)
        BY <1>6 DEF FileReady
    <2> QED
        BY <1>4, <2>2, <2>3, WaitsForRow
  <1>7. CASE /\ \E s : Flushing(t, s, <<l, n>>, <<>>)
             /\ FileLocked(t, p)
    <2>1. writes[t] # <<>> /\ Head(writes[t]) = l
        BY <1>2, <1>7, ListFacts DEF Flushing
    <2>2. Blockers(t) = Refusers(t, ReleasesRow[p], 1)
        BY <1>1, <1>3, <2>1, BlockersAre
    <2>3. CASE Upto(t, 1)
        BY <1>4, <2>2, <2>3, WaitsForRow
    <2>4. CASE SortedReleases(t, p)
      <3>1. Refusers(t, ReleasesRow[p], 1) = {}
          BY <1>4, <2>4, NoRefusers DEF SortedReleases, Update
      <3> QED
          BY <2>2, <3>1 DEF Placed
    <2> QED
        BY <1>7, <2>3, <2>4 DEF FileLocked
  <1>8. CASE (\E s : Flushing(t, s, <<n>>, <<>>)) /\ Upto(t, 3)
    <2>1. writes[t] # <<>> /\ Head(writes[t]) = n
        BY <1>2, <1>8, ListFacts DEF Flushing
    <2>2. Blockers(t) = Refusers(t, p, 2)
        BY <1>1, <1>3, <2>1, BlockersAre
    <2> QED
        BY <1>4, <1>8, <2>2, WaitsForRow DEF NoKeyUpdate
  <1> QED
      BY <1>6, <1>7, <1>8 DEF FlushesFile, l, n

LEMMA AddsReleasePlaced ==
  ASSUME TypeOK, MildLocks, Compatible, NEW t \in Tx, advisory # t,
         NEW p \in Projects, NEW u \in DOMAIN VersionRow[p],
         AddsRelease(t, p, u)
  PROVE  Placed(t)
  <1> DEFINE v == VersionLock(p, u)
             k == ReferenceLock(p)
             l == ReleasesLock(p, Update)
  <1>1. v \in Mild /\ k \in Mild /\ l \in Mild
    <2>1. v \in Mild /\ k \in Mild
        BY LockFacts
    <2>2. l \in Mild
        BY LockFacts DEF Update
    <2> QED
        BY <2>1, <2>2
  <1>2. /\ v.row = VersionRow[p][u] /\ v.mode = 3 /\ k.row = p /\ k.mode = 1
        /\ l.row = ReleasesRow[p] /\ l.mode = 3
      BY RowLocks
      DEF VersionLock, ReferenceLock, ReleasesLock, KeyShare, Update
  <1>3. /\ VersionRow[p][u] \in Rows /\ Rank(VersionRow[p][u]) = 1
        /\ VersionRow[p][u] \notin Projects \cup {EventsRow}
        /\ ReleasesRow[p] \in Rows /\ ReleasesRow[p] \notin Projects
        /\ ReleasesRow[p] # EventsRow /\ Rank(ReleasesRow[p]) = 2
        /\ p \in Rows
      BY VersionFacts, RowFacts
  <1> HIDE DEF v, k, l
  <1>4. CASE pc[t] = "open"
      BY <1>4, BlockersAre DEF Placed
  <1>5. CASE Flushing(t, Sorts(p, u), <<v, k>>, <<>>) /\ Upto(t, 0)
    <2>1. pc[t] = "execute" /\ writes[t] # <<>> /\ Head(writes[t]) = v
        BY <1>1, <1>5, ListFacts DEF Flushing
    <2>2. Blockers(t) = Refusers(t, VersionRow[p][u], 3)
        BY <1>2, <2>1, BlockersAre
    <2> QED
        BY <1>3, <1>5, <2>2, WaitsForRow
  <1>6. CASE Flushing(t, Sorts(p, u), <<k>>, <<>>)
    <2>1. pc[t] = "execute" /\ writes[t] # <<>> /\ Head(writes[t]) = k
        BY <1>1, <1>6, ListFacts DEF Flushing
    <2>2. Blockers(t) = Refusers(t, p, KeyShare)
        BY <1>2, <2>1, BlockersAre DEF KeyShare
    <2> QED
        BY <1>3, <2>2, NoRefusers DEF Placed
  <1>7. CASE Flushing(t, Filed(p, u), <<l>>, <<>>) /\ Upto(t, 1)
    <2>1. pc[t] = "execute" /\ writes[t] # <<>> /\ Head(writes[t]) = l
        BY <1>1, <1>7, ListFacts DEF Flushing
    <2>2. Blockers(t) = Refusers(t, ReleasesRow[p], 3)
        BY <1>2, <2>1, BlockersAre
    <2> QED
        BY <1>3, <1>7, <2>2, WaitsForRow
  <1>8. ASSUME NEW s, Flushing(t, s, <<>>, <<>>) PROVE Placed(t)
      BY <1>8, BlockersAre DEF Flushing, Clean, Placed
  <1> QED
      BY <1>4, <1>5, <1>6, <1>7, <1>8 DEF AddsRelease, Loaded, v, k, l

(* The removals. *)
LEMMA RemovalPlaced ==
  ASSUME TypeOK, MildLocks, Compatible, NEW t \in Tx, advisory # t,
         NEW p \in Projects,
         DeletesRelease(t, p) \/ DeletesFile(t, p) \/ Yanks(t, p)
  PROVE  Placed(t)
  <1> DEFINE e == EventLock
             l == ReleasesLock(p, Update)
             y == ReleasesLock(p, NoKeyUpdate)
             f == FilesLock(p)
             n == ProjectLock(p)
  <1>1. e \in Mild /\ l \in Mild /\ y \in Mild /\ f \in Mild /\ n \in Mild
    <2>1. e \in Mild /\ f \in Mild /\ n \in Mild
        BY LockFacts
    <2>2. l \in Mild /\ y \in Mild
        BY LockFacts DEF NoKeyUpdate, Update
    <2> QED
        BY <2>1, <2>2
  <1>2. /\ e.row = EventsRow /\ e.mode = KeyShare
        /\ l.row = ReleasesRow[p] /\ l.mode = 3
        /\ y.row = ReleasesRow[p] /\ y.mode = 2
        /\ f.row = FilesRow[p] /\ f.mode = 3 /\ n.row = p /\ n.mode = 2
      BY RowLocks
      DEF EventLock, ReleasesLock, FilesLock, ProjectLock, NoKeyUpdate, Update
  <1>3. /\ EventsRow \in Rows
        /\ ReleasesRow[p] \in Rows /\ ReleasesRow[p] \notin Projects
        /\ ReleasesRow[p] # EventsRow /\ Rank(ReleasesRow[p]) = 2
        /\ FilesRow[p] \in Rows /\ FilesRow[p] \notin Projects
        /\ FilesRow[p] # EventsRow /\ Rank(FilesRow[p]) = 3
        /\ p \in Rows /\ p # EventsRow /\ Rank(p) = 4
      BY RowFacts
  <1>4. DropLocks(p) = <<l, f, n>>
      BY DEF DropLocks
  <1> HIDE DEF e, l, y, f, n
  <1>5. CASE pc[t] = "open"
      BY <1>5, BlockersAre DEF Placed
  <1>6. ASSUME pc[t] = "execute", writes[t] # <<>>, Head(writes[t]) = e
        PROVE  Placed(t)
    <2>1. Blockers(t) = Refusers(t, EventsRow, KeyShare)
        BY <1>2, <1>6, BlockersAre
    <2> QED
        BY <1>3, <2>1, NoRefusers DEF Placed
  <1>7. CASE DeletesRelease(t, p) /\ pc[t] = "execute"
    <2>1. ASSUME NEW s, NEW d, Flushing(t, s, <<e>>, d) PROVE Placed(t)
        BY <1>1, <1>6, <2>1, ListFacts DEF Flushing
    <2>2. ASSUME NEW s, Upto(t, 0), Flushing(t, s, <<>>, DropLocks(p))
          PROVE  Placed(t)
      <3>1. /\ writes[t] = <<>> /\ pending[t] = <<>> /\ deletes[t] # <<>>
            /\ Head(deletes[t]) = l
          BY <1>1, <1>4, <2>2, ListFacts DEF Flushing
      <3>2. Blockers(t) = Refusers(t, ReleasesRow[p], 3)
          BY <1>2, <1>7, <3>1, BlockersAre
      <3> QED
          BY <1>3, <2>2, <3>2, WaitsForRow
    <2>3. ASSUME NEW s, Upto(t, 2), Flushing(t, s, <<>>, <<f, n>>)
          PROVE  Placed(t)
      <3>1. /\ writes[t] = <<>> /\ pending[t] = <<>> /\ deletes[t] # <<>>
            /\ Head(deletes[t]) = f
          BY <1>1, <2>3, ListFacts DEF Flushing
      <3>2. Blockers(t) = Refusers(t, FilesRow[p], 3)
          BY <1>2, <1>7, <3>1, BlockersAre
      <3> QED
          BY <1>3, <2>3, <3>2, WaitsForRow
    <2>4. ASSUME NEW s, Upto(t, 3), Flushing(t, s, <<>>, <<n>>)
          PROVE  Placed(t)
      <3>1. /\ writes[t] = <<>> /\ pending[t] = <<>> /\ deletes[t] # <<>>
            /\ Head(deletes[t]) = n
          BY <1>1, <2>4, ListFacts DEF Flushing
      <3>2. Blockers(t) = Refusers(t, p, 2)
          BY <1>2, <1>7, <3>1, BlockersAre
      <3> QED
          BY <1>3, <2>4, <3>2, WaitsForRow DEF NoKeyUpdate
    <2> QED
        BY <1>7, <2>1, <2>2, <2>3, <2>4 DEF DeletesRelease, Loaded, e, f, n
  <1>8. CASE DeletesFile(t, p) /\ pc[t] = "execute"
    <2>1. Flushing(t, FileQuery(p), <<e>>, <<>>)
        BY <1>8 DEF DeletesFile, Loaded, e
    <2> QED
        BY <1>1, <1>6, <2>1, ListFacts DEF Flushing
  <1>9. CASE Yanks(t, p) /\ pc[t] = "execute"
    <2>1. CASE Flushing(t, LastQuery(p), <<e, y>>, <<>>)
        BY <1>1, <1>6, <2>1, ListFacts DEF Flushing
    <2>2. CASE Flushing(t, LastQuery(p), <<y>>, <<>>)
      <3>1. writes[t] # <<>> /\ Head(writes[t]) = y
          BY <1>1, <2>2, ListFacts DEF Flushing
      <3>2. Blockers(t) = Refusers(t, ReleasesRow[p], 2)
          BY <1>2, <1>9, <3>1, BlockersAre
      <3> QED
          BY <1>3, <1>9, <3>2, WaitsForRow DEF Yanks
    <2> QED
        BY <1>9, <2>1, <2>2 DEF Yanks, Loaded, e, y
  <1> QED
      BY <1>5, <1>7, <1>8, <1>9
      DEF DeletesRelease, DeletesFile, Yanks, Loaded, Flushing

(* The flush of the journal entries. *)
LEMMA LocksProjectPlaced ==
  ASSUME TypeOK, MildLocks, Compatible, NEW t \in Tx, NEW p \in Projects,
         LocksProject(t, p)
  PROVE  Placed(t)
  <1>1. /\ pc[t] = "lockRows" /\ advisory # t
        /\ \/ toLock[t] = {p}
           \/ toLock[t] = {} /\ held[t][p] = NoKeyUpdate
      BY DEF LocksProject
  <1>2. \A r \in Rows : Counts(t, r) => Rank(r) <= 3 \/ r = p
      BY DEF LocksProject, UptoProject
  <1>3. p \in Rows /\ p # EventsRow /\ Rank(p) = 4 /\ p \in Nat
      BY RowFacts, RowsAssumption
  <1>4. CASE toLock[t] = {p}
    <2>1. Min({p}) = p
      <3>1. \E x \in {p} : \A y \in {p} : x <= y
          BY <1>3
      <3> QED
          BY <3>1 DEF Min
    <2>2. Blockers(t) = Refusers(t, p, 2)
        BY <1>1, <1>4, <2>1, BlockersAre DEF NoKeyUpdate
    <2>3. CASE Counts(t, p)
      <3>1. 2 <= held[t][p]
          BY <1>3, <2>3 DEF Counts, KeyShare, TypeOK, LockType
      <3> QED
          BY <1>3, <2>2, <3>1, NoRefusers DEF Placed
    <2>4. CASE ~Counts(t, p)
      <3>1. Upto(t, 3)
          BY <1>2, <2>4 DEF Upto
      <3> QED
          BY <1>1, <1>3, <2>2, <3>1, WaitsForRow DEF NoKeyUpdate
    <2> QED
        BY <2>3, <2>4
  <1>5. CASE toLock[t] = {}
    <2>1. Upto(t, 5 - 1)
      <3>1. \A r \in Rows : Rank(r) <= 3 => Rank(r) <= 4
          BY DEF Rank
      <3> QED
          BY <1>2, <1>3, <3>1 DEF Upto
    <2>2. \A u \in Blockers(t) : advisory = u
        BY <1>1, <1>5, BlockersAre
    <2>3. WaitsAt(t, 5)
        BY <1>1, <2>1, <2>2 DEF WaitsAt
    <2> QED
        BY <2>3 DEF Placed
  <1> QED
      BY <1>1, <1>4, <1>5

(* The task that caches a file. *)
LEMMA SyncsPlaced ==
  ASSUME TypeOK, MildLocks, Compatible, NEW t \in Tx, advisory # t,
         NEW p \in Projects, Syncs(t, p)
  PROVE  Placed(t)
  <1> DEFINE c == CachedLock(p)
             n == ProjectLock(p)
  <1>1. /\ c \in Mild /\ c.row = FilesRow[p] /\ c.mode = 2
        /\ n \in Mild /\ n.row = p /\ n.mode = 2
      BY LockFacts, RowLocks DEF CachedLock, ProjectLock, NoKeyUpdate
  <1>2. /\ FilesRow[p] \in Rows /\ FilesRow[p] \notin Projects
        /\ FilesRow[p] # EventsRow /\ Rank(FilesRow[p]) = 3
        /\ p \in Rows /\ p # EventsRow /\ Rank(p) = 4
      BY RowFacts
  <1> HIDE DEF c, n
  <1>3. CASE pc[t] = "open"
      BY <1>3, BlockersAre DEF Placed
  <1>4. CASE Upto(t, 0) /\ Flushing(t, <<>>, <<c, n>>, <<>>)
    <2>1. /\ pc[t] = "execute" /\ writes[t] # <<>> /\ Head(writes[t]) = c
        BY <1>1, <1>4, TwoLocks DEF Flushing
    <2>2. Blockers(t) = Refusers(t, FilesRow[p], 2)
        BY <1>1, <2>1, BlockersAre
    <2> QED
        BY <1>2, <1>4, <2>2, WaitsForRow
  <1>6. CASE Upto(t, 3) /\ Flushing(t, <<>>, <<n>>, <<>>)
    <2>1. /\ pc[t] = "execute" /\ writes[t] # <<>> /\ Head(writes[t]) = n
        BY <1>1, <1>6, OneLock DEF Flushing
    <2>2. Blockers(t) = Refusers(t, p, 2)
        BY <1>1, <2>1, BlockersAre
    <2> QED
        BY <1>2, <1>6, <2>2, WaitsForRow DEF NoKeyUpdate
  <1>5. CASE Flushing(t, <<>>, <<>>, <<>>)
      BY <1>5, BlockersAre DEF Flushing, Clean, Placed
  <1> QED
      BY <1>3, <1>4, <1>5, <1>6 DEF Syncs, Loaded, c, n

(* An upload that has its file waits with a late statement only.           *)
LEMMA ChecksUrlsLate ==
  ASSUME TypeOK, NEW t \in Tx, NEW p \in Projects, ChecksUrls(t, p)
  PROVE  Blockers(t) = {} \/ Late(t, p)
  <1> DEFINE v == VerifiedLock(p)
  <1>1. v \in Mild /\ v.row = ReleasesRow[p]
      BY LockFacts, RowLocks DEF VerifiedLock, ReleasesLock
  <1> HIDE DEF v
  <1>2. CASE pc[t] = "open"
      BY <1>2, BlockersAre
  <1>3. CASE Flushing(t, <<>>, <<v>>, <<>>)
    <2>1. writes[t] # <<>> /\ Head(writes[t]) = v /\ pc[t] = "execute"
        BY <1>1, <1>3, OneLock DEF Flushing
    <2> QED
        BY <1>1, <2>1 DEF ChecksUrls, Late, VerifiesLate
  <1>4. ASSUME NEW s, Flushing(t, s, <<>>, <<>>) PROVE Blockers(t) = {}
      BY <1>4, BlockersAre DEF Flushing, Clean
  <1> QED
      BY <1>2, <1>3, <1>4 DEF ChecksUrls, Loaded, v

(* Who has the advisory lock waits with a late statement only. *)
LEMMA AdvisoryHolderRuns ==
  ASSUME TypeOK, LockInv, NEW t \in Tx, NEW p \in Projects,
         Inserts(t, p) \/ Ends(t, p)
  PROVE  Blockers(t) = {} \/ (Late(t, p) /\ DeletesLate(t, p))
  <1> USE DEF LockInv
  <1>1. /\ advisory = t /\ held[t][p] = NoKeyUpdate
        /\ writes[t] = <<>>
      BY DEF Inserts, Ends, Alone
  <1>2. p \in Rows /\ Refusers(t, p, NoKeyUpdate) = {}
    <2>1. p \in Rows
        BY RowFacts
    <2> QED
        BY <1>1, <2>1, NoRefusers DEF NoKeyUpdate
  <1>3. CASE pc[t] = "open"
      BY <1>3, BlockersAre
  <1>4. CASE Inserts(t, p)
    <2>1. pc[t] = "execute" /\ deletes[t] = <<>> /\ pending[t] \in Seq({p})
        BY <1>4 DEF Inserts, Alone
    <2>2. CASE pending[t] = <<>>
        BY <1>1, <2>1, <2>2, BlockersAre DEF Clean
    <2>3. CASE pending[t] # <<>>
      <3>1. Head(pending[t]) = p
          BY <2>1, <2>3, EntryFacts
      <3> QED
          BY <1>1, <1>2, <2>1, <2>3, <3>1, BlockersAre
    <2> QED
        BY <2>2, <2>3
  <1>5. CASE Ends(t, p) /\ pc[t] = "execute"
    <2> DEFINE f == FilesLock(p)
               n == ProjectLock(p)
    <2>1. /\ pending[t] = <<>>
          /\ deletes[t] \in {<<>>, <<n>>, <<f, n>>}
        BY <1>5 DEF Ends
    <2>2. /\ f \in Mild /\ n \in Mild
          /\ f.row = FilesRow[p] /\ n.row = p /\ n.mode = NoKeyUpdate
        BY LockFacts, RowLocks DEF FilesLock, ProjectLock
    <2> HIDE DEF f, n
    <2>3. CASE deletes[t] = <<>>
        BY <1>1, <1>5, <2>1, <2>3, BlockersAre DEF Clean
    <2>4. CASE deletes[t] = <<n>>
      <3>1. deletes[t] # <<>> /\ Head(deletes[t]) = n
          BY <2>2, <2>4, OneLock
      <3> QED
          BY <1>1, <1>2, <1>5, <2>1, <2>2, <3>1, BlockersAre
    <2>5. CASE deletes[t] = <<f, n>>
      <3>1. deletes[t] # <<>> /\ Head(deletes[t]) = f
          BY <2>2, <2>5, TwoLocks
      <3> QED
          BY <1>1, <1>5, <2>2, <3>1 DEF Late, DeletesLate
    <2> QED
        BY <2>1, <2>3, <2>4, <2>5
  <1> QED
      BY <1>3, <1>4, <1>5 DEF Ends

(* In order, a worker that waits has only lower locks than the one it      *)
(* waits for, or it waits with a late statement.                           *)
LEMMA WorkersPlaced ==
  ASSUME TypeOK, LockInv, NEW t \in Tx
  PROVE  Placed(t) \/ \E p \in Projects : Late(t, p)
  <1> USE DEF LockInv
  <1>1. CASE pc[t] \in {"idle", "open"}
      BY <1>1, BlockersAre DEF Placed
  <1>2. CASE pc[t] \notin {"idle", "open"}
    <2>1. PICK p \in Projects :
             BeforeJournals(t, p) \/ LocksProject(t, p) \/ Inserts(t, p)
             \/ Ends(t, p)
        BY <1>2 DEF InOrder, WorkerInOrder, Idle
    <2>2. CASE BeforeJournals(t, p)
      <3>1. advisory # t
          BY <2>2 DEF BeforeJournals
      <3>2. CASE Restores(t, p)
        <4>1. pc[t] = "execute" /\ Clean(t)
            BY <1>2, <3>2 DEF Restores, Loaded, Flushing, Clean
        <4> QED
            BY <4>1, BlockersAre DEF Placed
      <3>3. ASSUME NEW u \in DOMAIN FileRow[p],
                   AddsFile(t, p, u) \/ AddsEntries(t, p, u)
            PROVE  FALSE
          BY <1>2, <3>3 DEF AddsFile, AddsEntries, Loaded
      <3> QED
          BY <2>2, <3>1, <3>2, <3>3, FlushesFilePlaced, AddsReleasePlaced,
             RemovalPlaced, SyncsPlaced, ChecksUrlsLate
          DEF BeforeJournals, Placed
    <2>3. CASE LocksProject(t, p)
        BY <2>3, LocksProjectPlaced
    <2>4. CASE Inserts(t, p) \/ Ends(t, p)
        BY <2>4, AdvisoryHolderRuns DEF Placed
    <2> QED
        BY <2>1, <2>2, <2>3, <2>4
  <1> QED
      BY <1>1, <1>2

LEMMA HigherWait ==
  ASSUME TypeOK, NEW t \in Tx, NEW u \in Tx, NEW k \in 1..5, NEW j \in 1..5,
         WaitsAt(t, k), u \in Blockers(t), WaitsAt(u, j)
  PROVE  k < j
  <1>1. PICK r \in Rows : Counts(u, r) /\ Rank(r) = k
      BY DEF WaitsAt
  <1>2. Rank(r) <= j - 1
      BY <1>1 DEF WaitsAt, Upto
  <1> QED
      BY <1>1, <1>2

(* A file that is deleted last, under the advisory lock.                   *)
LEMMA LateDeletion ==
  ASSUME TypeOK, LockInv, NEW t \in Tx, NEW p \in Projects, DeletesLate(t, p)
  PROVE  Blockers(t) = Refusers(t, FilesRow[p], Head(deletes[t]).mode)
  <1>1. PICK q \in Projects : Inserts(t, q) \/ Ends(t, q)
      BY DEF DeletesLate, LockInv, InOrder, WorkerInOrder, Idle, BeforeJournals,
             LocksProject
  <1>2. writes[t] = <<>> /\ pending[t] = <<>>
      BY <1>1 DEF DeletesLate, Inserts, Alone, Ends
  <1> QED
      BY <1>2, BlockersAre DEF DeletesLate

(* A release that is updated after the file. *)
LEMMA LateVerification ==
  ASSUME TypeOK, LockInv, NEW t \in Tx, NEW p \in Projects,
         held[t][p] = NoKeyUpdate, VerifiesLate(t, p)
  PROVE  /\ Blockers(t) = Refusers(t, ReleasesRow[p], NoKeyUpdate)
         /\ held[t][ReleasesRow[p]] # 0
  <1>1. Head(writes[t]).mode = NoKeyUpdate /\ ChecksUrls(t, p)
      BY WritesBelow DEF VerifiesLate, LockInv, InOrder
  <1> QED
      BY <1>1, BlockersAre DEF VerifiesLate, ChecksUrls

(* Whom a late statement waits for waits for its request, if for anybody. *)
LEMMA LateWait ==
  ASSUME TypeOK, LockInv, BelowProject, NEW t \in Tx, NEW p \in Projects,
         Late(t, p), NEW u \in Blockers(t), Blockers(u) # {}
  PROVE  LatePair(t, u)
  <1>1. p \in Rows /\ FilesRow[p] \in Rows /\ ReleasesRow[p] \in Rows
      BY RowFacts
  <1>2. held[t][p] = NoKeyUpdate
      BY DEF Late
  <1>3. /\ u \in Tx /\ u # t
        /\ held[u][FilesRow[p]] # 0 \/ held[u][ReleasesRow[p]] = NoKeyUpdate
    <2>1. CASE DeletesLate(t, p)
        BY <2>1, LateDeletion DEF Refusers
    <2>2. CASE VerifiesLate(t, p)
      <3>1. /\ u \in Refusers(t, ReleasesRow[p], NoKeyUpdate)
            /\ held[t][ReleasesRow[p]] # 0
          BY <1>2, <2>2, LateVerification
      <3>2. /\ u \in Tx \ {t} /\ held[u][ReleasesRow[p]] # 0
            /\ Conflicts(held[u][ReleasesRow[p]], NoKeyUpdate)
            /\ held[u][ReleasesRow[p]] \in 0..3
            /\ held[t][ReleasesRow[p]] \in 0..3
          BY <1>1, <3>1 DEF Refusers, TypeOK, LockType
      <3>3. ~Conflicts(held[u][ReleasesRow[p]], held[t][ReleasesRow[p]])
          BY <1>1, <3>1, <3>2 DEF LockInv, Compatible
      <3> QED
          BY <3>1, <3>2, <3>3 DEF Conflicts, NoKeyUpdate
    <2> QED
        BY <2>1, <2>2 DEF Late
  <1>4. held[u][p] # NoKeyUpdate
      BY <1>1, <1>2, <1>3 DEF LockInv, Compatible, Conflicts, NoKeyUpdate
  <1>5. Blockers(u) = Refusers(u, p, NoKeyUpdate)
    <2>1. CASE Flushing(u, <<>>, <<ProjectLock(p)>>, <<>>)
      <3>1. /\ ProjectLock(p) \in Mild
            /\ ProjectLock(p).row = p /\ ProjectLock(p).mode = NoKeyUpdate
          BY LockFacts, RowLocks DEF ProjectLock
      <3>2. /\ writes[u] # <<>> /\ Head(writes[u]) = ProjectLock(p)
            /\ pc[u] = "execute"
          BY <2>1, <3>1, OneLock DEF Flushing
      <3> QED
          BY <1>3, <3>1, <3>2, BlockersAre
    <2>2. ~Restores(u, p)
      <3>1. Restores(u, p) => pc[u] = "open" \/ (pc[u] = "execute" /\ Clean(u))
          BY DEF Restores, Loaded, Flushing, Clean
      <3> QED
          BY <1>3, <3>1, BlockersAre
    <2>3. \/ Flushing(u, LastQuery(p), <<>>, <<ProjectLock(p)>>)
          \/ Flushing(u, <<>>, <<ProjectLock(p)>>, <<>>)
          \/ LocksProject(u, p)
        BY <1>3, <1>4, <2>2
        DEF BelowProject, FilesGoWithProject, ReleasesGoWithProject
    <2>4. CASE Flushing(u, LastQuery(p), <<>>, <<ProjectLock(p)>>)
      <3>1. /\ ProjectLock(p) \in Mild
            /\ ProjectLock(p).row = p /\ ProjectLock(p).mode = NoKeyUpdate
          BY LockFacts, RowLocks DEF ProjectLock
      <3>2. /\ deletes[u] # <<>> /\ Head(deletes[u]) = ProjectLock(p)
            /\ pc[u] = "execute" /\ writes[u] = <<>> /\ pending[u] = <<>>
          BY <2>4, <3>1, OneLock DEF Flushing
      <3> QED
          BY <1>3, <3>1, <3>2, BlockersAre
    <2>5. CASE LocksProject(u, p)
      <3>1. pc[u] = "lockRows" /\ toLock[u] = {p}
          BY <1>4, <2>5 DEF LocksProject
      <3>2. Min({p}) = p
        <4>1. p \in Nat
            BY <1>1, RowsAssumption
        <4>2. \E x \in {p} : \A y \in {p} : x <= y
            BY <4>1
        <4> QED
            BY <4>2 DEF Min
      <3> QED
          BY <1>3, <3>1, <3>2, BlockersAre
    <2> QED
        BY <2>1, <2>3, <2>4, <2>5
  <1>6. t \in Blockers(u)
      BY <1>2, <1>3, <1>5 DEF Refusers, Conflicts, NoKeyUpdate
  <1> QED
      BY <1>6 DEF LatePair

LEMMA NobodyInACircle ==
  ASSUME TypeOK, LockInv, BelowProject
  PROVE  OnlyLatePairsDeadlock
  <1> SUFFICES ASSUME NEW group \in SUBSET Tx, Deadlocked(group),
                      \A t, u \in group : ~LatePair(t, u)
               PROVE  FALSE
      BY DEF OnlyLatePairsDeadlock
  <1> DEFINE Stuck(k) == \E t \in group : \E j \in k..5 : WaitsAt(t, j)
  <1>1. \A t \in group : \E u \in group : u \in Blockers(t)
      BY DEF Deadlocked
  <1>2. \A t \in group : \E j \in 1..5 : WaitsAt(t, j)
    <2> TAKE t \in group
    <2>1. PICK u \in group : u \in Blockers(t)
        BY <1>1
    <2>2. Blockers(u) # {}
        BY <1>1
    <2>3. \A p \in Projects : ~Late(t, p)
        BY <2>1, <2>2, LateWait
    <2> QED
        BY <2>1, <2>3, WorkersPlaced DEF Placed
  <1>3. Stuck(1)
      BY <1>2 DEF Deadlocked
  <1>4. ASSUME NEW k \in 1..5, Stuck(k) PROVE Stuck(k + 1)
    <2>1. PICK t \in group : \E j \in k..5 : WaitsAt(t, j)
        BY <1>4
    <2>2. PICK j \in k..5 : WaitsAt(t, j)
        BY <2>1
    <2>3. PICK u \in group : u \in Blockers(t)
        BY <1>1
    <2>4. PICK i \in 1..5 : WaitsAt(u, i)
        BY <1>2
    <2>5. j < i
        BY <2>2, <2>3, <2>4, HigherWait
    <2> QED
        BY <2>4, <2>5
  <1>5. Stuck(6)
    <2>1. Stuck(2)
        BY <1>3, <1>4
    <2>2. Stuck(3)
        BY <1>4, <2>1
    <2>3. Stuck(4)
        BY <1>4, <2>2
    <2>4. Stuck(5)
        BY <1>4, <2>3
    <2> QED
        BY <1>4, <2>4
  <1> QED
      BY <1>5

(* The order of the locks in ensure_monotonic_journals, _sort_releases,    *)
(* file_upload and the removals keeps requests from waiting for one        *)
(* another in a circle, whatever their number, but for two of which one    *)
(* deletes a file or verifies a URL under the project's lock.              *)
THEOREM OnlyPairsDeadlock == LockSpec => []OnlyLatePairsDeadlock
  BY RequestsInOrder, NobodyInACircle, PTL

(* Whoever has the journals advisory lock runs on to its commit, or waits  *)
(* for the file that delete_project_release_file deletes last.             *)
THEOREM AdvisoryHolderRunsOn == LockSpec => []AdvisoryHolderWaitsForItsFile
  <1>1. ASSUME TypeOK, LockInv PROVE AdvisoryHolderWaitsForItsFile
    <2> SUFFICES ASSUME advisory # NoTx, Blockers(advisory) # {}
                 PROVE  \E p \in Projects : DeletesLate(advisory, p)
        BY DEF AdvisoryHolderWaitsForItsFile
    <2>1. advisory \in Tx
        BY <1>1 DEF TypeOK, LockType
    <2>2. PICK p \in Projects : Inserts(advisory, p) \/ Ends(advisory, p)
      <3>1. \A p : ~BeforeJournals(advisory, p)
          BY DEF BeforeJournals
      <3> QED
          BY <1>1, <2>1, <3>1
          DEF LockInv, InOrder, WorkerInOrder, Idle, LocksProject
    <2> QED
        BY <1>1, <2>1, <2>2, AdvisoryHolderRuns
  <1> QED
      BY <1>1, RequestsInOrder, PTL

(* No upload stores a file while it has the advisory lock, so other        *)
(* requests never wait for the object store (forklift/legacy.py stores the *)
(* file before it adds the journal entry).                                 *)
THEOREM StoresWithoutAdvisory == LockSpec => []StoreWithoutAdvisory
  <1>1. ASSUME TypeOK, LockInv PROVE StoreWithoutAdvisory
    <2> SUFFICES ASSUME NEW t \in Tx, NextOp(t, "store"), advisory = t
                 PROVE  FALSE
        BY DEF StoreWithoutAdvisory
    <2>1. PICK p \in Projects : Inserts(t, p) \/ Ends(t, p)
        BY <1>1
        DEF LockInv, InOrder, WorkerInOrder, Idle, BeforeJournals, LocksProject
    <2>2. script[t] \in {<<>>, FileDeletes(p),
                         Cons(Delete(p, NoKeyUpdate), <<>>)}
        BY <2>1 DEF Inserts, Ends
    <2>3. /\ Head(FileDeletes(p)) = Delete(FilesRow[p], Update)
          /\ Head(Cons(Delete(p, NoKeyUpdate), <<>>)) = Delete(p, NoKeyUpdate)
        BY OpFacts, RemovalFacts, EndFacts, ConsFacts DEF FileDeletes
    <2> QED
        BY <2>2, <2>3 DEF NextOp, Delete
  <1> QED
      BY <1>1, RequestsInOrder, PTL

-----------------------------------------------------------------------------
(* Requests come to an end: what the numbers of Progress rest on.   *)

SessionsTidy ==
    \A t \in Tx :
       /\ pc[t] \in {"idle", "open", "lockRows"} => deferred[t] = <<>>
       /\ committing[t] => pc[t] # "idle"
       /\ IsFiniteSet(toLock[t])

LEMMA TidyInit == Init => SessionsTidy
  BY FS_EmptySet DEF Init, SessionsTidy

(* A list names finitely many projects. *)
LEMMA FiniteRange ==
  ASSUME NEW S, NEW s \in Seq(S)
  PROVE  IsFiniteSet(Range(s))
  <1>1. IsFiniteSet(1..Len(s)) /\ s \in [1..Len(s) -> S]
      BY FS_Interval, LenProperties
  <1>2. s \in Surjection(1..Len(s), Range(s))
      BY <1>1 DEF Range, Surjection
  <1> QED
      BY <1>1, <1>2, FS_Surjection

(* A step of one worker leaves the others' part of the state alone.        *)
LEMMA OthersUntouched ==
  ASSUME TypeOK, NEW t \in Tx, NEW u \in Tx, u # t,
         Request(t) \/ Flush(t) \/ Commit(t) \/ Rollback(t)
  PROVE  OfTransaction(u)' = OfTransaction(u)
  <1> USE DEF OfTransaction, TypeOK, SessionType, LockType, TableType
  <1>1. CASE Request(t)
      BY <1>1 DEF Request, Begin, AddJournal, Working, AddWrite, AddDelete,
         BeginCommit, session, locks, tables
  <1>2. ASSUME End(t) PROVE OfTransaction(u)' = OfTransaction(u)
      BY <1>2 DEF End
  <1>3. CASE BeforeFlush(t)
      BY <1>3 DEF BeforeFlush, tables
  <1>4. CASE LockRow(t) \/ LockAdvisory(t)
      BY <1>4 DEF LockRow, LockAdvisory, Strengthen, session, tables
  <1>5. CASE ExecuteWrite(t) \/ ExecuteDelete(t)
      BY <1>5 DEF ExecuteWrite, ExecuteDelete, Strengthen, tables
  <1>6. CASE InsertJournal(t)
      BY <1>6 DEF InsertJournal, Strengthen
  <1>7. CASE AfterFlush(t)
      BY <1>7 DEF AfterFlush, locks, tables
  <1>8. CASE Commit(t) \/ Rollback(t) \/ SequenceExhausted(t)
      BY <1>2, <1>8 DEF Commit, Rollback, SequenceExhausted
  <1> QED
      BY <1>1, <1>3, <1>4, <1>5, <1>6, <1>7, <1>8 DEF Flush

LEMMA SumOfThree ==
  ASSUME NEW a \in Nat, NEW b \in Nat, NEW c \in Nat
  PROVE  a + b + c \in Nat
  OBVIOUS

(* The numbers of flushes, stages and statements left are numbers. *)
LEMMA LeftNatural ==
  ASSUME TypeOK, SessionsTidy, NEW t \in Tx
  PROVE  /\ FlushesLeft(t) \in 0..2 /\ StageOfFlush(t) \in 0..3
         /\ StatementsLeft(t) \in Nat /\ StageOfRequest(t) \in 0..2
  <1>1. Cardinality(toLock[t]) \in Nat
      BY FS_CardinalityType DEF SessionsTidy
  <1>2. /\ Len(writes[t]) \in Nat /\ Len(pending[t]) \in Nat
        /\ Len(deletes[t]) \in Nat
      BY DEF TypeOK, SessionType
  <1>3. StatementsLeft(t) \in Nat
    <2>1. Len(writes[t]) + Len(pending[t]) + Len(deletes[t]) \in Nat
        BY ONLY <1>2, SumOfThree
    <2> QED
        BY <1>1, <2>1 DEF StatementsLeft
  <1>4. FlushesLeft(t) \in 0..2
      BY DEF FlushesLeft
  <1>5. StageOfFlush(t) \in 0..3 /\ StageOfRequest(t) \in 0..2
      BY DEF StageOfFlush, StageOfRequest
  <1> QED
      BY <1>3, <1>4, <1>5

LEMMA LeftNaturalAfter ==
  ASSUME TypeOK', SessionsTidy', NEW t \in Tx
  PROVE  /\ FlushesLeft(t)' \in 0..2 /\ StageOfFlush(t)' \in 0..3
         /\ StatementsLeft(t)' \in Nat /\ StageOfRequest(t)' \in 0..2
  <1>1. Cardinality((toLock')[t]) \in Nat
      BY FS_CardinalityType DEF SessionsTidy
  <1>2. /\ Len((writes')[t]) \in Nat /\ Len((pending')[t]) \in Nat
        /\ Len((deletes')[t]) \in Nat
      BY DEF TypeOK, SessionType
  <1>3. StatementsLeft(t)' \in Nat
    <2>1. Len((writes')[t]) + Len((pending')[t]) + Len((deletes')[t]) \in Nat
        BY ONLY <1>2, SumOfThree
    <2> QED
        BY <1>1, <2>1 DEF StatementsLeft
  <1>4. FlushesLeft(t)' \in 0..2
      BY DEF FlushesLeft
  <1>5. StageOfFlush(t)' \in 0..3 /\ StageOfRequest(t)' \in 0..2
      BY DEF StageOfFlush, StageOfRequest
  <1> QED
      BY <1>3, <1>4, <1>5

(* A flush has begun, or the one that runs is nearer to its end. *)
FlushAdvances(t) ==
    \/ FlushesLeft(t)' < FlushesLeft(t)
    \/ /\ FlushesLeft(t)' = FlushesLeft(t)
       /\ \/ StageOfFlush(t)' < StageOfFlush(t)
          \/ /\ StageOfFlush(t)' = StageOfFlush(t)
             /\ StatementsLeft(t)' < StatementsLeft(t)

LEMMA BeforeFlushAdvances ==
  ASSUME TypeOK, SessionsTidy, NEW t \in Tx, BeforeFlush(t)
  PROVE  FlushAdvances(t)
  <1>0. /\ pc[t] = "open" /\ ~Clean(t) /\ deferred[t] = <<>>
        /\ pc \in [Tx -> {"idle", "open", "lockRows", "execute"}]
        /\ deferred \in [Tx -> Seq(Projects)]
      BY DEF BeforeFlush, SessionsTidy, TypeOK, SessionType
  <1>1. CASE pending[t] # <<>> /\ HasOtherPending(t)
    <2>1. pc'[t] = "execute"
        BY <1>0, <1>1 DEF BeforeFlush
    <2>2. FlushesLeft(t) = 2
        BY <1>0, <1>1 DEF FlushesLeft
    <2>3. FlushesLeft(t)' \in 0..1
        BY <2>1 DEF FlushesLeft
    <2> QED
        BY <2>2, <2>3 DEF FlushAdvances
  <1>2. CASE ~(pending[t] # <<>> /\ HasOtherPending(t))
    <2>1. pc'[t] \in {"lockRows", "execute"} /\ deferred'[t] = <<>>
        BY <1>0, <1>2 DEF BeforeFlush
    <2>2. FlushesLeft(t) = 1
        BY <1>0, <1>2 DEF FlushesLeft
    <2>3. FlushesLeft(t)' = 0
        BY <2>1 DEF FlushesLeft
    <2> QED
        BY <2>2, <2>3 DEF FlushAdvances
  <1> QED
      BY <1>1, <1>2

LEMMA FlushGoesOn ==
  ASSUME TypeOK, SessionsTidy, NEW t \in Tx,
         pc[t] \in {"lockRows", "execute"}, pc'[t] \in {"lockRows", "execute"},
         deferred'[t] = deferred[t]
  PROVE  FlushesLeft(t)' = FlushesLeft(t)
  <1>1. FlushesLeft(t) = IF deferred[t] = <<>> THEN 0 ELSE 1
      BY DEF FlushesLeft
  <1>2. FlushesLeft(t)' = IF deferred'[t] = <<>> THEN 0 ELSE 1
      BY DEF FlushesLeft
  <1> QED
      BY <1>1, <1>2

LEMMA LockAdvances ==
  ASSUME TypeOK, SessionsTidy, NEW t \in Tx, LockRow(t) \/ LockAdvisory(t)
  PROVE  FlushAdvances(t)
  <1>1. CASE LockRow(t)
    <2>1. PICK p \in toLock[t] : toLock' = [toLock EXCEPT ![t] = @ \ {p}]
        BY <1>1 DEF LockRow
    <2>2. toLock'[t] = toLock[t] \ {p}
        BY <2>1 DEF TypeOK, LockType
    <2>3. pc[t] = "lockRows" /\ pc' = pc /\ deferred' = deferred
        BY <1>1 DEF LockRow, session
    <2>4. IsFiniteSet(toLock[t]) /\ Cardinality(toLock[t]) \in Nat
        BY FS_CardinalityType DEF SessionsTidy
    <2>5. Cardinality(toLock[t] \ {p}) = Cardinality(toLock[t]) - 1
        BY <2>4, FS_RemoveElement
    <2>6. /\ StatementsLeft(t) = Cardinality(toLock[t])
          /\ StatementsLeft(t)' = Cardinality(toLock[t] \ {p})
        BY <2>2, <2>3 DEF StatementsLeft
    <2>7. StatementsLeft(t)' < StatementsLeft(t)
        BY ONLY <2>4, <2>5, <2>6
    <2>8. StageOfFlush(t)' = StageOfFlush(t)
        BY <2>3 DEF StageOfFlush
    <2>9. FlushesLeft(t)' = FlushesLeft(t)
        BY <2>3, FlushGoesOn
    <2> QED
        BY <2>7, <2>8, <2>9 DEF FlushAdvances
  <1>2. CASE LockAdvisory(t)
    <2>1. pc[t] = "lockRows" /\ pc'[t] = "execute" /\ deferred' = deferred
        BY <1>2 DEF LockAdvisory, session, TypeOK, SessionType
    <2>2. FlushesLeft(t)' = FlushesLeft(t)
        BY <2>1, FlushGoesOn
    <2>3. StageOfFlush(t)' = 2 /\ StageOfFlush(t) = 3
        BY <2>1 DEF StageOfFlush
    <2> QED
        BY <2>2, <2>3 DEF FlushAdvances
  <1> QED
      BY <1>1, <1>2

LEMMA StatementAdvances ==
  ASSUME TypeOK, SessionsTidy, NEW t \in Tx,
         ExecuteWrite(t) \/ InsertJournal(t) \/ ExecuteDelete(t)
  PROVE  FlushAdvances(t)
  <1> DEFINE w0 == Len(writes[t])   w1 == Len((writes')[t])
             n0 == Len(pending[t])  n1 == Len((pending')[t])
             d0 == Len(deletes[t])  d1 == Len((deletes')[t])
  <1>1. w0 \in Nat /\ n0 \in Nat /\ d0 \in Nat
      BY DEF TypeOK, SessionType
  <1>2. pc[t] = "execute" /\ pc' = pc /\ deferred' = deferred
      BY DEF ExecuteWrite, InsertJournal, ExecuteDelete
  <1>3. /\ writes[t] \in Seq(RowLock) /\ pending[t] \in Seq(Projects)
        /\ deletes[t] \in Seq(RowLock)
      BY DEF TypeOK, SessionType
  <1>4. \/ w1 = w0 - 1 /\ n1 = n0 /\ d1 = d0
        \/ w1 = w0 /\ n1 = n0 - 1 /\ d1 = d0
        \/ w1 = w0 /\ n1 = n0 /\ d1 = d0 - 1
    <2>1. CASE ExecuteWrite(t)
      <3>1. /\ writes[t] # <<>> /\ (writes')[t] = Tail(writes[t])
            /\ pending' = pending /\ deletes' = deletes
          BY <2>1 DEF ExecuteWrite, TypeOK, SessionType
      <3>2. Len(Tail(writes[t])) = Len(writes[t]) - 1
          BY <1>3, <3>1, HeadTailProperties
      <3> QED
          BY <3>1, <3>2
    <2>2. CASE InsertJournal(t)
      <3>1. /\ pending[t] # <<>> /\ (pending')[t] = Tail(pending[t])
            /\ writes' = writes /\ deletes' = deletes
          BY <2>2 DEF InsertJournal, TypeOK, SessionType
      <3>2. Len(Tail(pending[t])) = Len(pending[t]) - 1
          BY <1>3, <3>1, HeadTailProperties
      <3> QED
          BY <3>1, <3>2
    <2>3. CASE ExecuteDelete(t)
      <3>1. /\ deletes[t] # <<>> /\ (deletes')[t] = Tail(deletes[t])
            /\ writes' = writes /\ pending' = pending
          BY <2>3 DEF ExecuteDelete, TypeOK, SessionType
      <3>2. Len(Tail(deletes[t])) = Len(deletes[t]) - 1
          BY <1>3, <3>1, HeadTailProperties
      <3> QED
          BY <3>1, <3>2
    <2> QED
        BY <2>1, <2>2, <2>3
  <1>5. StatementsLeft(t) = w0 + n0 + d0 /\ StatementsLeft(t)' = w1 + n1 + d1
      BY <1>2 DEF StatementsLeft
  <1>6. w1 + n1 + d1 < w0 + n0 + d0
    <2> HIDE DEF w0, w1, n0, n1, d0, d1
    <2> QED
        BY <1>1, <1>4
  <1>7. StageOfFlush(t)' = StageOfFlush(t)
      BY <1>2 DEF StageOfFlush
  <1>8. FlushesLeft(t)' = FlushesLeft(t)
      BY <1>2, FlushGoesOn
  <1>9. StatementsLeft(t)' < StatementsLeft(t)
    <2> HIDE DEF w0, w1, n0, n1, d0, d1
    <2> QED
        BY <1>5, <1>6
  <1> QED
      BY <1>7, <1>8, <1>9 DEF FlushAdvances

(* The journal entries that a flush put aside take one more. *)
LEMMA AfterFlushAdvances ==
  ASSUME TypeOK, SessionsTidy, NEW t \in Tx, AfterFlush(t)
  PROVE  FlushAdvances(t)
  <1>1. /\ pc[t] = "execute" /\ (pc')[t] = "open"
        /\ (pending')[t] = deferred[t]
        /\ (writes')[t] = <<>> /\ (deletes')[t] = <<>>
      BY DEF AfterFlush, Clean, Restored, TypeOK, SessionType
  <1>2. FlushesLeft(t) = IF deferred[t] = <<>> THEN 0 ELSE 1
      BY <1>1 DEF FlushesLeft
  <1>3. FlushesLeft(t)' = IF deferred[t] = <<>> THEN 0 ELSE 1
      BY <1>1 DEF FlushesLeft, Clean, HasOtherPending
  <1>4. StageOfFlush(t)' = 1 /\ StageOfFlush(t) = 2
      BY <1>1 DEF StageOfFlush
  <1> QED
      BY <1>2, <1>3, <1>4 DEF FlushAdvances

(* The end of a transaction leaves nothing to flush. *)
LEMMA EndAdvances ==
  ASSUME TypeOK, SessionsTidy, NEW t \in Tx, pc[t] # "idle", End(t)
  PROVE  FlushAdvances(t)
  <1>1. (pc')[t] = "idle"
      BY DEF End, TypeOK, SessionType
  <1>2. FlushesLeft(t)' = 0 /\ StageOfFlush(t)' = 0
      BY <1>1 DEF FlushesLeft, StageOfFlush
  <1>3. FlushesLeft(t) \in 0..2 /\ StageOfFlush(t) \in 1..3
      BY DEF FlushesLeft, StageOfFlush, TypeOK, SessionType
  <1> QED
      BY <1>2, <1>3 DEF FlushAdvances

LEMMA TransactionAdvances ==
  ASSUME TypeOK, SessionsTidy, NEW t \in Tx,
         Flush(t) \/ Commit(t) \/ Rollback(t)
  PROVE  FlushAdvances(t)
  <1>1. CASE Commit(t) \/ Rollback(t) \/ SequenceExhausted(t)
    <2>1. pc[t] # "idle" /\ End(t)
        BY <1>1 DEF Commit, Rollback, SequenceExhausted
    <2> QED
        BY <2>1, EndAdvances
  <1>2. CASE Flush(t) /\ ~SequenceExhausted(t)
      BY <1>2, BeforeFlushAdvances, LockAdvances, StatementAdvances,
         AfterFlushAdvances DEF Flush
  <1> QED
      BY <1>1, <1>2

(* Every step leaves the sessions tidy. *)
LEMMA TidyStep ==
  ASSUME TypeOK, SessionsTidy, [Next]_vars
  PROVE  SessionsTidy'
  <1> USE DEF TypeOK, SessionType, LockType
  <1>1. CASE Mirror \/ UNCHANGED vars
      BY <1>1 DEF Mirror, IndexSerial, IndexProjects, Poll, vars, session,
         locks, SessionsTidy
  <1>2. ASSUME NEW t \in Tx, Request(t) PROVE SessionsTidy'
    <2>1. UNCHANGED <<deferred, toLock>>
        BY <1>2 DEF Request, Begin, AddJournal, AddWrite, AddDelete,
           BeginCommit, session, locks
    <2>2. CASE Begin(t)
      <3>1. /\ pc[t] = "idle" /\ (pc')[t] = "open" /\ committing' = committing
            /\ \A u \in Tx \ {t} : (pc')[u] = pc[u]
          BY <2>2 DEF Begin, session
      <3> QED
          BY <2>1, <3>1 DEF SessionsTidy
    <2>3. CASE BeginCommit(t)
      <3>1. /\ pc[t] = "open" /\ pc' = pc
            /\ \A u \in Tx \ {t} : (committing')[u] = committing[u]
          BY <2>3 DEF BeginCommit
      <3> QED
          BY <2>1, <3>1 DEF SessionsTidy
    <2>4. CASE ~Begin(t) /\ ~BeginCommit(t)
      <3>1. UNCHANGED <<pc, committing>>
          BY <1>2, <2>4 DEF Request, AddJournal, AddWrite, AddDelete
      <3> QED
          BY <2>1, <3>1 DEF SessionsTidy
    <2> QED
        BY <2>2, <2>3, <2>4
  <1>3. ASSUME NEW t \in Tx, End(t) PROVE SessionsTidy'
      BY <1>3, FS_EmptySet DEF End, SessionsTidy
  <1>4. ASSUME NEW t \in Tx, BeforeFlush(t) PROVE SessionsTidy'
    <2>1. /\ committing' = committing
          /\ (pc')[t] \in {"lockRows", "execute"}
          /\ (pc')[t] = "lockRows" => deferred' = deferred
          /\ \A u \in Tx \ {t} : /\ (pc')[u] = pc[u]
                                /\ (deferred')[u] = deferred[u]
                                /\ (toLock')[u] = toLock[u]
        BY <1>4 DEF BeforeFlush
    <2>2. pc[t] = "open"
        BY <1>4 DEF BeforeFlush
    <2>3. IsFiniteSet(Range(pending[t]))
        BY FiniteRange
    <2>4. IsFiniteSet((toLock')[t])
        BY <1>4, <2>3 DEF BeforeFlush, RowsToLock, SessionsTidy
    <2> QED
        BY <2>1, <2>2, <2>4 DEF SessionsTidy
  <1>5. ASSUME NEW t \in Tx, LockRow(t) PROVE SessionsTidy'
    <2>1. PICK p \in toLock[t] : toLock' = [toLock EXCEPT ![t] = @ \ {p}]
        BY <1>5 DEF LockRow
    <2>2. IsFiniteSet(toLock[t] \ {p})
        BY FS_RemoveElement DEF SessionsTidy
    <2> QED
        BY <1>5, <2>1, <2>2 DEF LockRow, session, SessionsTidy
  <1>6. ASSUME NEW t \in Tx,
               LockAdvisory(t) \/ ExecuteWrite(t) \/ InsertJournal(t)
               \/ ExecuteDelete(t) \/ AfterFlush(t)
        PROVE  SessionsTidy'
    <2>1. /\ pc[t] # "idle" /\ (pc')[t] \in {"open", "execute"}
          /\ (pc')[t] = "open" => (deferred')[t] = <<>>
          /\ committing' = committing /\ toLock' = toLock
          /\ \A u \in Tx \ {t} : /\ (pc')[u] = pc[u]
                                /\ (deferred')[u] = deferred[u]
        BY <1>6 DEF LockAdvisory, ExecuteWrite, InsertJournal, ExecuteDelete,
           AfterFlush, session, locks
    <2> QED
        BY <2>1 DEF SessionsTidy
  <1> QED
      BY <1>1, <1>2, <1>3, <1>4, <1>5, <1>6
      DEF Next, Flush, Commit, Rollback, SequenceExhausted

(* The first of three numbers that differs is smaller.                     *)
LEMMA SmallerAt ==
  ASSUME NEW a \in Seq(Nat), NEW b, NEW i \in DOMAIN b,
         a[i] < b[i], \A j \in 1..(i - 1) : a[j] = b[j]
  PROVE  Smaller(a, b)
  BY DEF Smaller

LEMMA SmallerOfThree ==
  ASSUME NEW a1 \in Nat, NEW a2 \in Nat, NEW a3 \in Nat,
         NEW b1 \in Nat, NEW b2 \in Nat, NEW b3 \in Nat,
         a1 < b1 \/ (a1 = b1 /\ (a2 < b2 \/ (a2 = b2 /\ a3 < b3)))
  PROVE  Smaller(<<a1, a2, a3>>, <<b1, b2, b3>>)
  <1> DEFINE a == <<a1, a2, a3>>   b == <<b1, b2, b3>>
  <1>1. a \in Seq(Nat) /\ DOMAIN b = 1..3
      OBVIOUS
  <1>2. /\ a[1] = a1 /\ a[2] = a2 /\ a[3] = a3
        /\ b[1] = b1 /\ b[2] = b2 /\ b[3] = b3
      OBVIOUS
  <1> SUFFICES Smaller(a, b)
      OBVIOUS
  <1> HIDE DEF a, b
  <1>3. CASE a1 < b1
    <2>1. a[1] < b[1] /\ \A j \in 1..(1 - 1) : a[j] = b[j]
        BY <1>2, <1>3
    <2>2. 1 \in DOMAIN b
        BY <1>1
    <2> QED
        BY ONLY <1>1, <2>1, <2>2, SmallerAt
  <1>4. CASE a1 = b1 /\ a2 < b2
    <2>1. a[2] < b[2] /\ \A j \in 1..(2 - 1) : a[j] = b[j]
        BY <1>2, <1>4
    <2>2. 2 \in DOMAIN b
        BY <1>1
    <2> QED
        BY ONLY <1>1, <2>1, <2>2, SmallerAt
  <1>5. CASE a1 = b1 /\ a2 = b2 /\ a3 < b3
    <2>1. a[3] < b[3] /\ \A j \in 1..(3 - 1) : a[j] = b[j]
        BY <1>2, <1>5
    <2>2. 3 \in DOMAIN b
        BY <1>1
    <2> QED
        BY ONLY <1>1, <2>1, <2>2, SmallerAt
  <1> QED
      BY <1>3, <1>4, <1>5

LEMMA CommitShorter ==
  ASSUME TypeOK, SessionsTidy, TypeOK', SessionsTidy', NEW t \in Tx,
         FlushAdvances(t)
  PROVE  Smaller(CommitLeft(t)', CommitLeft(t))
  <1> DEFINE a1 == FlushesLeft(t)'    b1 == FlushesLeft(t)
             a2 == StageOfFlush(t)'   b2 == StageOfFlush(t)
             a3 == StatementsLeft(t)' b3 == StatementsLeft(t)
  <1>1. /\ a1 \in Nat /\ a2 \in Nat /\ a3 \in Nat
        /\ b1 \in Nat /\ b2 \in Nat /\ b3 \in Nat
      BY LeftNatural, LeftNaturalAfter
  <1>2. a1 < b1 \/ (a1 = b1 /\ (a2 < b2 \/ (a2 = b2 /\ a3 < b3)))
      BY DEF FlushAdvances
  <1>3. /\ CommitLeft(t) = <<b1, b2, b3>>
        /\ CommitLeft(t)' = <<a1, a2, a3>>
      BY DEF CommitLeft
  <1> HIDE DEF a1, a2, a3, b1, b2, b3
  <1>4. Smaller(<<a1, a2, a3>>, <<b1, b2, b3>>)
      BY ONLY <1>1, <1>2, SmallerOfThree
  <1> QED
      BY <1>3, <1>4

LEMMA CommitStepShortens ==
  ASSUME TypeOK, SessionsTidy, TypeOK', SessionsTidy', Next,
         NEW t \in Tx, committing[t], OfTransaction(t)' # OfTransaction(t)
  PROVE  Smaller(CommitLeft(t)', CommitLeft(t))
  <1>1. ~Mirror
      BY DEF Mirror, IndexSerial, IndexProjects, Poll, OfTransaction, session,
         locks, tables
  <1>2. PICK u \in Tx : Request(u) \/ Flush(u) \/ Commit(u) \/ Rollback(u)
      BY <1>1 DEF Next
  <1>3. u = t
      BY <1>2, OthersUntouched
  <1>4. ~Request(t)
      BY DEF Request, Begin, AddJournal, AddWrite, AddDelete, Working,
         BeginCommit, SessionsTidy
  <1>5. FlushAdvances(t)
      BY <1>2, <1>3, <1>4, TransactionAdvances
  <1> QED
      BY <1>5, CommitShorter

(* Whatever a committing transaction does, its session takes it nearer to  *)
(* its end: taking journal entries out of a flush and restoring them       *)
(* (ensure_monotonic_journals, _restore_deferred_journals) never goes on.  *)
THEOREM CommitsEndSooner == Spec => CommitsGetShorter
  <1>1. Spec => []TypeOK
      BY Invariance, PTL DEF IInv
  <1>2. Spec => []SessionsTidy
    <2>1. TypeOK /\ SessionsTidy /\ [Next]_vars => SessionsTidy'
        BY TidyStep
    <2> QED
        BY <1>1, <2>1, TidyInit, PTL DEF Spec
  <1>3. /\ TypeOK /\ SessionsTidy /\ TypeOK' /\ SessionsTidy' /\ [Next]_vars
        => [\A t \in Tx :
              committing[t] /\ OfTransaction(t)' # OfTransaction(t)
                 => Smaller(CommitLeft(t)', CommitLeft(t))]_vars
      BY CommitStepShortens
  <1> QED
      BY <1>1, <1>2, <1>3, PTL DEF Spec, CommitsGetShorter

(* The same of a whole request, with its script. *)
RequestAdvances(t) ==
    \/ StageOfRequest(t)' < StageOfRequest(t)
    \/ /\ StageOfRequest(t)' = StageOfRequest(t)
       /\ \/ Len(script[t])' < Len(script[t])
          \/ Len(script[t])' = Len(script[t]) /\ FlushAdvances(t)

LEMMA RequestShorter ==
  ASSUME TypeOK, SessionsTidy, ScriptType, TypeOK', SessionsTidy', ScriptType',
         NEW t \in Tx, RequestAdvances(t)
  PROVE  Smaller(RequestLeft(t)', RequestLeft(t))
  <1> DEFINE a1 == FlushesLeft(t)'    b1 == FlushesLeft(t)
             a2 == StageOfFlush(t)'   b2 == StageOfFlush(t)
             a3 == StatementsLeft(t)' b3 == StatementsLeft(t)
             c1 == StageOfRequest(t)' d1 == StageOfRequest(t)
             c2 == Len(script[t])'    d2 == Len(script[t])
  <1>1. /\ a1 \in Nat /\ a2 \in Nat /\ a3 \in Nat /\ c1 \in Nat
        /\ b1 \in Nat /\ b2 \in Nat /\ b3 \in Nat /\ d1 \in Nat
      BY LeftNatural, LeftNaturalAfter
  <1>2. c2 \in Nat /\ d2 \in Nat
      BY DEF ScriptType
  <1>3. \/ c1 < d1
        \/ c1 = d1 /\ c2 < d2
        \/ /\ c1 = d1 /\ c2 = d2
           /\ a1 < b1 \/ (a1 = b1 /\ (a2 < b2 \/ (a2 = b2 /\ a3 < b3)))
      BY DEF RequestAdvances, FlushAdvances
  <1>4. /\ RequestLeft(t) = <<d1, d2, b1, b2, b3>>
        /\ RequestLeft(t)' = <<c1, c2, a1, a2, a3>>
      BY DEF RequestLeft
  <1> HIDE DEF a1, a2, a3, b1, b2, b3, c1, c2, d1, d2
  <1>5. Smaller(<<c1, c2, a1, a2, a3>>, <<d1, d2, b1, b2, b3>>)
    <2> DEFINE a == <<c1, c2, a1, a2, a3>>   b == <<d1, d2, b1, b2, b3>>
    <2>1. a \in Seq(Nat) /\ DOMAIN b = 1..5
        BY <1>1, <1>2
    <2>2. /\ a[1] = c1 /\ a[2] = c2 /\ a[3] = a1 /\ a[4] = a2 /\ a[5] = a3
          /\ b[1] = d1 /\ b[2] = d2 /\ b[3] = b1 /\ b[4] = b2 /\ b[5] = b3
        OBVIOUS
    <2> SUFFICES Smaller(a, b)
        OBVIOUS
    <2> HIDE DEF a, b
    <2>3. CASE c1 < d1
      <3>1. a[1] < b[1] /\ \A j \in 1..(1 - 1) : a[j] = b[j]
          BY <2>2, <2>3
      <3>2. 1 \in DOMAIN b
          BY <2>1
      <3> QED
          BY ONLY <2>1, <3>1, <3>2, SmallerAt
    <2>4. CASE c1 = d1 /\ c2 < d2
      <3>1. a[2] < b[2] /\ \A j \in 1..(2 - 1) : a[j] = b[j]
          BY <2>2, <2>4
      <3>2. 2 \in DOMAIN b
          BY <2>1
      <3> QED
          BY ONLY <2>1, <3>1, <3>2, SmallerAt
    <2>5. CASE c1 = d1 /\ c2 = d2 /\ a1 < b1
      <3>1. a[3] < b[3] /\ \A j \in 1..(3 - 1) : a[j] = b[j]
          BY <2>2, <2>5
      <3>2. 3 \in DOMAIN b
          BY <2>1
      <3> QED
          BY ONLY <2>1, <3>1, <3>2, SmallerAt
    <2>6. CASE c1 = d1 /\ c2 = d2 /\ a1 = b1 /\ a2 < b2
      <3>1. a[4] < b[4] /\ \A j \in 1..(4 - 1) : a[j] = b[j]
          BY <2>2, <2>6
      <3>2. 4 \in DOMAIN b
          BY <2>1
      <3> QED
          BY ONLY <2>1, <3>1, <3>2, SmallerAt
    <2>7. CASE c1 = d1 /\ c2 = d2 /\ a1 = b1 /\ a2 = b2 /\ a3 < b3
      <3>1. a[5] < b[5] /\ \A j \in 1..(5 - 1) : a[j] = b[j]
          BY <2>2, <2>7
      <3>2. 5 \in DOMAIN b
          BY <2>1
      <3> QED
          BY ONLY <2>1, <3>1, <3>2, SmallerAt
    <2> QED
        BY <1>3, <2>3, <2>4, <2>5, <2>6, <2>7
  <1> QED
      BY <1>4, <1>5

(* A handler's own operations shorten its script. *)
LEMMA ScriptAdvances ==
  ASSUME TypeOK, ScriptType, NEW t \in Tx,
         AddsJournal(t) \/ Writes(t) \/ Deletes(t) \/ Queries(t) \/ Stores(t)
  PROVE  RequestAdvances(t)
  <1>1. script[t] # <<>> /\ Advance(t)
      BY DEF AddsJournal, Writes, Deletes, Queries, Stores, NextOp
  <1>2. (script')[t] = Tail(script[t])
      BY <1>1 DEF Advance, ScriptType
  <1>3. Len(Tail(script[t])) = Len(script[t]) - 1 /\ Len(script[t]) \in Nat
      BY <1>1, HeadTailProperties DEF ScriptType
  <1>4. Len(script[t])' < Len(script[t])
      BY <1>2, <1>3
  <1>5. /\ pc[t] # "idle" /\ (pc')[t] # "idle"
        /\ committing' = committing
    <2>1. CASE AddsJournal(t) \/ Writes(t) \/ Deletes(t)
        BY <2>1 DEF AddsJournal, AddJournal, Writes, AddWrite, Deletes,
           AddDelete, Working
    <2>2. CASE Queries(t)
        BY <2>2 DEF Queries, BeforeFlush, vars, session, TypeOK, SessionType
    <2>3. CASE Stores(t)
        BY <2>3 DEF Stores, vars, session
    <2> QED
        BY <2>1, <2>2, <2>3
  <1>6. StageOfRequest(t)' = StageOfRequest(t)
      BY <1>5 DEF StageOfRequest
  <1> QED
      BY <1>4, <1>6 DEF RequestAdvances

LEMMA FlushOfRequestAdvances ==
  ASSUME TypeOK, SessionsTidy, ScriptType, NEW t \in Tx,
         Executes(t) \/ (BeforeFlush(t) /\ UNCHANGED script)
  PROVE  RequestAdvances(t)
  <1>1. /\ pc[t] # "idle" /\ (pc')[t] # "idle"
        /\ committing' = committing
      BY DEF Executes, BeforeFlush, LockRow, LockAdvisory, ExecuteWrite,
         InsertJournal, ExecuteDelete, AfterFlush, session, TypeOK, SessionType
  <1>2. StageOfRequest(t)' = StageOfRequest(t)
      BY <1>1 DEF StageOfRequest
  <1>3. Flush(t)
      BY DEF Executes, Flush
  <1>4. FlushAdvances(t)
      BY <1>3, TransactionAdvances
  <1>5. script' = script
      BY DEF Executes
  <1> QED
      BY <1>2, <1>4, <1>5 DEF RequestAdvances

LEMMA RequestEnds ==
  ASSUME TypeOK, NEW t \in Tx, pc[t] # "idle", End(t)
  PROVE  RequestAdvances(t)
  <1>1. (pc')[t] = "idle"
      BY DEF End, TypeOK, SessionType
  <1>2. StageOfRequest(t)' = 0
      BY <1>1 DEF StageOfRequest
  <1>3. StageOfRequest(t) \in 1..2
      BY DEF StageOfRequest
  <1> QED
      BY <1>2, <1>3 DEF RequestAdvances

LEMMA WorkerAdvances ==
  ASSUME TypeOK, SessionsTidy, ScriptType, NEW t \in Tx, pc[t] # "idle",
         Acts(t) \/ Start(t) \/ Fails(t)
  PROVE  RequestAdvances(t)
  <1>1. CASE AddsJournal(t) \/ Writes(t) \/ Deletes(t) \/ Queries(t) \/ Stores(t)
      BY <1>1, ScriptAdvances
  <1>2. CASE Executes(t)
      BY <1>2, FlushOfRequestAdvances
  <1>3. CASE Finishes(t)
    <2>1. CASE BeginCommit(t)
      <3>1. /\ pc[t] = "open" /\ (pc')[t] = "open"
            /\ ~committing[t] /\ (committing')[t]
          BY <2>1 DEF BeginCommit, TypeOK, SessionType
      <3>2. StageOfRequest(t) = 2 /\ StageOfRequest(t)' = 1
          BY <3>1 DEF StageOfRequest
      <3> QED
          BY <3>2 DEF RequestAdvances
    <2>2. CASE BeforeFlush(t)
        BY <1>3, <2>2, FlushOfRequestAdvances DEF Finishes
    <2>3. CASE Commit(t)
        BY <2>3, RequestEnds DEF Commit
    <2> QED
        BY <1>3, <2>1, <2>2, <2>3 DEF Finishes
  <1>4. CASE Start(t)
      BY <1>4 DEF Start, Begin
  <1>5. CASE Fails(t)
      BY <1>5, RequestEnds DEF Fails, Rollback
  <1> QED
      BY <1>1, <1>2, <1>3, <1>4, <1>5 DEF Acts

LEMMA RequestStepShortens ==
  ASSUME TypeOK, SessionsTidy, ScriptType, TypeOK', SessionsTidy', ScriptType',
         LockNext, NEW t \in Tx, pc[t] # "idle",
         OfTransaction(t)' # OfTransaction(t) \/ (script')[t] # script[t]
  PROVE  Smaller(RequestLeft(t)', RequestLeft(t))
  <1>1. PICK u \in Tx : Acts(u) \/ Start(u) \/ Fails(u)
      BY DEF LockNext, Acts
  <1>2. ASSUME u # t PROVE FALSE
    <2>1. OfTransaction(t)' = OfTransaction(t)
      <3>1. CASE UNCHANGED vars
          BY <3>1 DEF vars, session, locks, tables, OfTransaction
      <3> QED
          BY <1>1, <1>2, <3>1, WorkersSteps, OthersUntouched
    <2>2. (script')[t] = script[t]
        BY <1>1, <1>2, OthersStay DEF Frame, After
    <2> QED
        BY <2>1, <2>2
  <1>3. RequestAdvances(t)
      BY <1>1, <1>2, WorkerAdvances
  <1> QED
      BY <1>3, RequestShorter

(* Whatever a handler does, from its first operation to the end of its     *)
(* commit, brings it nearer to its end; so the uploads, removals and yanks *)
(* end unless they wait or the worker stops.                               *)
THEOREM RequestsEndSooner == LockSpec => RequestsGetShorter
  <1>1. LockSpec => [](TypeOK /\ ScriptType)
      BY RequestsInOrder, PTL DEF LockInv
  <1>2. LockSpec => []SessionsTidy
    <2>1. TypeOK /\ SessionsTidy /\ [Next]_vars => SessionsTidy'
        BY TidyStep
    <2>2. LockSpec => [](TypeOK)
        BY <1>1, PTL
    <2> QED
        BY HandlersImplementJournals, <2>1, <2>2, TidyInit, PTL DEF Spec
  <1>3. /\ TypeOK /\ SessionsTidy /\ ScriptType
        /\ TypeOK' /\ SessionsTidy' /\ ScriptType' /\ [LockNext]_lockVars
        => [\A t \in Tx :
              /\ pc[t] # "idle"
              /\ OfTransaction(t)' # OfTransaction(t) \/ script'[t] # script[t]
              => Smaller(RequestLeft(t)', RequestLeft(t))]_lockVars
      BY RequestStepShortens
  <1> QED
      BY <1>1, <1>2, <1>3, PTL DEF LockSpec, RequestsGetShorter

(* Whom a worker waits for has a request of its own. *)
LEMMA BlockersAreBusy ==
  ASSUME TypeOK, LockInv, NEW t \in Tx, NEW u \in Blockers(t)
  PROVE  u \in Tx /\ pc[u] # "idle"
  <1>1. u \in Tx
      BY DEF Blockers, Refusers, TypeOK, LockType
  <1>2. advisory = u \/ \E r \in Rows : held[u][r] # 0
    <2>1. CASE \E k \in 1..5 : WaitsAt(t, k)
        BY <2>1 DEF WaitsAt, Counts
    <2>2. ASSUME NEW p \in Projects, Late(t, p)
          PROVE  \E r \in Rows : held[u][r] # 0
      <3>1. FilesRow[p] \in Rows /\ ReleasesRow[p] \in Rows
          BY RowFacts
      <3> QED
          BY <2>2, <3>1, LateDeletion, LateVerification DEF Late, Refusers
    <2> QED
        BY <2>1, <2>2, WorkersPlaced DEF Placed
  <1>3. ASSUME pc[u] = "idle" PROVE FALSE
    <2>1. Idle(u)
        BY <1>1, <1>3, NothingLeft DEF LockInv, InOrder
    <2> QED
        BY <1>2, <2>1 DEF Idle
  <1> QED
      BY <1>1, <1>3

(* While there are requests one of them waits for nobody's lock: its next  *)
(* step, which RequestsEndSooner counts, is not up to the others.  Or two  *)
(* wait for each other, one with a late statement, and PostgreSQL ends one.*)
THEOREM OneAlwaysRuns == LockSpec => []SomebodyRuns
  <1>1. ASSUME TypeOK, LockInv, BelowProject PROVE SomebodyRuns
    <2> DEFINE busy == {t \in Tx : pc[t] # "idle"}
    <2> SUFFICES ASSUME busy # {}, \A t \in busy : Blockers(t) # {}
                 PROVE  \E t, u \in Tx : LatePair(t, u)
        BY DEF SomebodyRuns
    <2>1. \A t \in busy : Blockers(t) \cap busy # {}
        BY <1>1, BlockersAreBusy
    <2>2. Deadlocked(busy)
        BY <2>1 DEF Deadlocked
    <2>3. OnlyLatePairsDeadlock
        BY <1>1, NobodyInACircle
    <2> QED
        BY <2>2, <2>3 DEF OnlyLatePairsDeadlock
  <1> QED
      BY <1>1, RequestsInOrder, PTL

-----------------------------------------------------------------------------
(* A mirror always finds a page.                                           *)

(* A finite set of numbers that is not empty has a greatest member, and a  *)
(* least one: the set of the members above it shrinks no further there.    *)
LEMMA SmallestSubset ==
  ASSUME NEW S, NEW T \in SUBSET FiniteSubsetsOf(S), T # {}
  PROVE  \E b \in T : \A c \in T : ~(c \subseteq b /\ c # b)
  <1>1. IsWellFoundedOn(StrictSubsetOrdering(S), FiniteSubsetsOf(S))
      BY FS_StrictSubsetOrderingWellFounded
  <1>2. PICK b \in T : \A c \in T : <<c, b>> \notin StrictSubsetOrdering(S)
      BY <1>1, WFMin
  <1> QED
      BY <1>2 DEF StrictSubsetOrdering, FiniteSubsetsOf

LEMMA GreatestMember ==
  ASSUME NEW S, S \subseteq Int, IsFiniteSet(S), S # {}
  PROVE  \E x \in S : \A y \in S : y <= x
  <1> DEFINE Above(x) == {y \in S : x < y}
             T == {Above(x) : x \in S}
  <1>1. T \in SUBSET FiniteSubsetsOf(S)
    <2>1. \A x \in S : Above(x) \in SUBSET S
        OBVIOUS
    <2>2. \A x \in S : IsFiniteSet(Above(x))
        BY <2>1, FS_Subset
    <2> QED
        BY <2>1, <2>2 DEF FiniteSubsetsOf
  <1>2. T # {}
      OBVIOUS
  <1> HIDE DEF T
  <1>3. PICK b \in T : \A c \in T : ~(c \subseteq b /\ c # b)
      BY ONLY <1>1, <1>2, SmallestSubset
  <1>4. PICK x \in S : b = Above(x)
      BY DEF T
  <1>5. ASSUME NEW y \in S, x < y PROVE FALSE
    <2>1. \A z \in S : x < y /\ y < z => x < z
      <3>1. x \in Int /\ y \in Int /\ \A z \in S : z \in Int
          OBVIOUS
      <3> QED
          BY <3>1
    <2>2. y \in Int
        OBVIOUS
    <2>3. Above(y) \subseteq Above(x)
        BY <1>5, <2>1
    <2>4. y \in Above(x) /\ y \notin Above(y)
        BY <1>5, <2>2
    <2>5. Above(y) \in T
        BY DEF T
    <2> QED
        BY <1>3, <1>4, <2>3, <2>4, <2>5
  <1>6. \A y \in S : x \in Int /\ y \in Int
      OBVIOUS
  <1> QED
      BY <1>5, <1>6

LEMMA LeastMember ==
  ASSUME NEW S, S \subseteq Int, IsFiniteSet(S), S # {}
  PROVE  \E x \in S : \A y \in S : x <= y
  <1> DEFINE Below(x) == {y \in S : y < x}
             T == {Below(x) : x \in S}
  <1>1. T \in SUBSET FiniteSubsetsOf(S)
    <2>1. \A x \in S : Below(x) \in SUBSET S
        OBVIOUS
    <2>2. \A x \in S : IsFiniteSet(Below(x))
        BY <2>1, FS_Subset
    <2> QED
        BY <2>1, <2>2 DEF FiniteSubsetsOf
  <1>2. T # {}
      OBVIOUS
  <1> HIDE DEF T
  <1>3. PICK b \in T : \A c \in T : ~(c \subseteq b /\ c # b)
      BY ONLY <1>1, <1>2, SmallestSubset
  <1>4. PICK x \in S : b = Below(x)
      BY DEF T
  <1>5. ASSUME NEW y \in S, y < x PROVE FALSE
    <2>1. \A z \in S : y < x /\ z < y => z < x
      <3>1. x \in Int /\ y \in Int /\ \A z \in S : z \in Int
          OBVIOUS
      <3> QED
          BY <3>1
    <2>2. y \in Int
        OBVIOUS
    <2>3. Below(y) \subseteq Below(x)
        BY <1>5, <2>1
    <2>4. y \in Below(x) /\ y \notin Below(y)
        BY <1>5, <2>2
    <2>5. Below(y) \in T
        BY DEF T
    <2> QED
        BY <1>3, <1>4, <2>3, <2>4, <2>5
  <1>6. \A y \in S : x \in Int /\ y \in Int
      OBVIOUS
  <1> QED
      BY <1>5, <1>6

(* The next page is one entry longer. *)
LEMMA PageGrows ==
  ASSUME TypeOK, NEW s \in Nat, NEW n \in Ids(committed), NEW m \in Ids(committed),
         s < n, n < m, \A i \in Ids(committed) : n < i => m <= i
  PROVE  Page(s, m) = Page(s, n) \cup {m} /\ m \notin Page(s, n)
  <1>1. \A i \in Ids(committed) : i \in Nat
      BY BoundsAssumption DEF TypeOK, TableType, Entry, Ids
  <1> HIDE DEF Ids
  <1>2. \A i \in Ids(committed) : s < i /\ i <= m <=> (s < i /\ i <= n) \/ i = m
      BY <1>1
  <1>3. ~(m <= n)
      BY <1>1
  <1> QED
      BY <1>2, <1>3 DEF Page

(* Of the entries after the mirror's serial, take the greatest whose page  *)
(* is not too long: the page is full, or the entry is the newest.          *)
LEMMA PageExists ==
  ASSUME TypeOK
  PROVE  MirrorFindsAPage
  <1> DEFINE behind == {i \in Ids(committed) : mirrorSerial < i}
             short == {n \in behind : Cardinality(Page(mirrorSerial, n)) <= PageLimit}
  <1> SUFFICES ASSUME behind # {} PROVE MirrorFindsAPage
      BY DEF MirrorFindsAPage
  <1>1. Ids(committed) \subseteq 1..MaxSerial /\ mirrorSerial \in Nat
      BY BoundsAssumption DEF TypeOK, TableType, MirrorType, Entry, Ids
  <1>2. IsFiniteSet(Ids(committed)) /\ Ids(committed) \subseteq Int
    <2>1. IsFiniteSet(1..MaxSerial)
        BY FS_Interval, BoundsAssumption
    <2>2. Ids(committed) \in SUBSET (1..MaxSerial) /\ 1..MaxSerial \subseteq Int
        BY <1>1
    <2>3. IsFiniteSet(Ids(committed))
        BY ONLY <2>1, <2>2, FS_Subset
    <2> QED
        BY <2>2, <2>3
  <1>3. \A n : IsFiniteSet(Page(mirrorSerial, n))
    <2>1. \A n : Page(mirrorSerial, n) \in SUBSET Ids(committed)
        BY DEF Page
    <2> QED
        BY <1>2, <2>1, FS_Subset
  <1>4. \A n : Cardinality(Page(mirrorSerial, n)) \in Nat
      BY <1>3, FS_CardinalityType
  <1>5. short # {}
    <2>1. IsFiniteSet(behind) /\ behind \subseteq Int
      <3>1. behind \in SUBSET Ids(committed)
          OBVIOUS
      <3> QED
          BY <1>2, <3>1, FS_Subset
    <2>2. PICK n \in behind : \A i \in behind : n <= i
        BY <2>1, LeastMember
    <2>3. \A i \in Ids(committed) : i \in Int
        BY <1>2
    <2>4. \A i \in Ids(committed) : mirrorSerial < i /\ i <= n <=> i = n
        BY <2>2, <2>3
    <2>5. Page(mirrorSerial, n) = {n}
        BY <2>2, <2>4 DEF Page
    <2>6. Cardinality(Page(mirrorSerial, n)) = 1
        BY <2>5, FS_Singleton
    <2> QED
        BY <2>2, <2>6, BoundsAssumption
  <1>6. PICK n \in short : \A i \in short : i <= n
    <2>1. IsFiniteSet(short) /\ short \subseteq Int
      <3>1. short \in SUBSET Ids(committed)
          OBVIOUS
      <3> QED
          BY <1>2, <3>1, FS_Subset
    <2> HIDE DEF short
    <2> QED
        BY <1>5, <2>1, GreatestMember
  <1>7. n \in Ids(committed) /\ mirrorSerial < n /\ n \in 1..MaxSerial
      BY <1>1
  <1>8. n \in Page(mirrorSerial, MaxSerial)
      BY <1>7, BoundsAssumption DEF Page
  <1>9. ASSUME Cardinality(Page(mirrorSerial, n)) # PageLimit,
               NEW j \in Ids(committed), ~(j <= n)
        PROVE  FALSE
    <2> DEFINE after == {i \in Ids(committed) : n < i}
    <2>1. \A i \in Ids(committed) : i \in Int
        BY <1>2
    <2>2. j \in after
        BY <1>9, <2>1, <1>7
    <2>3. IsFiniteSet(after) /\ after \subseteq Int
      <3>1. after \in SUBSET Ids(committed)
          OBVIOUS
      <3> QED
          BY <1>2, <3>1, FS_Subset
    <2>4. PICK m \in after : \A i \in after : m <= i
      <3> HIDE DEF after
      <3> QED
          BY <2>2, <2>3, LeastMember
    <2>5. /\ Page(mirrorSerial, m) = Page(mirrorSerial, n) \cup {m}
          /\ m \notin Page(mirrorSerial, n)
        BY <1>1, <1>7, <2>4, PageGrows
    <2>6. Cardinality(Page(mirrorSerial, m)) = Cardinality(Page(mirrorSerial, n)) + 1
        BY ONLY <1>3, <2>5, FS_AddElement
    <2>7. Cardinality(Page(mirrorSerial, m)) <= PageLimit
        BY <1>4, <1>6, <1>9, <2>6, BoundsAssumption
    <2>8. mirrorSerial < m /\ ~(m <= n)
        BY <1>1, <1>7, <2>1, <2>4
    <2>9. m \in short
        BY <2>4, <2>7, <2>8
    <2> QED
        BY <1>6, <2>8, <2>9
  <1> QED
      BY <1>6, <1>8, <1>9 DEF MirrorFindsAPage

(* changelog_since_serial() never leaves a mirror standing: while there    *)
(* are newer entries there is a page that takes it on, whatever the limit. *)
THEOREM MirrorsGoOn == Spec => []MirrorFindsAPage
  <1>1. TypeOK => MirrorFindsAPage
      BY PageExists
  <1> QED
      BY Invariance, <1>1, PTL DEF IInv
=============================================================================
