------------------------ MODULE ProjectSpellingProofs ------------------------
(* Spellings and serials: theorems about ProjectSpelling. *)
EXTENDS ProjectSpelling, TLAPS

(* Only the lock's holder has written anything.                            *)
Holder ==
    /\ \A t \in Tx : pc[t] \in {"journal", "commit"} => rowLock = t
    /\ \A t \in Tx : pc[t] \in {"idle", "loaded"} => rowLock # t
    /\ rowLock = NoTx => newName = rowName /\ newSerial = lastSerial /\ newEntries = {}
    /\ \A t \in Tx : rowLock = t /\ pc[t] # "commit" => newEntries = {}

(* A request that has not renamed the project has the name it loaded, and  *)
(* the row has its committed one; the trigger finds the row of a request   *)
(* that has.                                                               *)
Names ==
    \A t \in Tx : pc[t] # "idle" =>
       IF rowLock = t THEN newName = name[t] \/ (newName = rowName /\ name[t] = loaded[t])
       ELSE name[t] = loaded[t]

Serials ==
    /\ lastSerial <= newSerial /\ newSerial <= seq
    /\ \A e \in journals \cup newEntries : e.id <= seq
    /\ \A e \in newEntries : e.outdated \/ e.id <= newSerial

IInv == TypeOK /\ Holder /\ Names /\ Serials /\ CurrentUnlessRenamed

LEMMA InitInv == Init => IInv
  BY NoTxAssumption, SerialAssumption
  DEF Init, IInv, TypeOK, Holder, Names, Serials, CurrentUnlessRenamed

(* The trigger's max(id) is the serial just inserted.                      *)
LEMMA NewestIsMax ==
    ASSUME NEW S \in SUBSET Nat, NEW n \in S, \A x \in S : x <= n
    PROVE  Max(S) = n
<1>1. Max(S) \in S /\ \A y \in S : Max(S) >= y
  <2>1. n \in S /\ \A y \in S : n >= y
    OBVIOUS
  <2>. QED  BY <2>1, Zenon DEF Max
<1>2. Max(S) \in Nat /\ n >= Max(S) /\ Max(S) >= n
  BY <1>1
<1>. HIDE DEF Max
<1>. QED  BY <1>2

LEMMA NewestSerial ==
    ASSUME NEW n \in Spellings, NEW E \in SUBSET Entry, NEW e \in Entry, e.name = n,
           \A x \in E : x.id <= e.id
    PROVE  TriggerSerial(n, E \cup {e}) = e.id
<1>. DEFINE ids == {x.id : x \in {v \in E \cup {e} : v.name = n}}
<1>1. ids \in SUBSET Nat /\ e.id \in ids /\ \A i \in ids : i <= e.id
  BY SerialAssumption DEF Entry
<1>. HIDE DEF ids
<1>2. Max(ids) = e.id
  BY <1>1, NewestIsMax
<1>. QED  BY <1>2 DEF ids, TriggerSerial

-----------------------------------------------------------------------------
(* Reading, locking and renaming.                                          *)
LEMMA LoadStep == ASSUME IInv, NEW t \in Tx, Load(t) PROVE IInv'
<1>1. /\ pc[t] = "idle" /\ pc' = [pc EXCEPT ![t] = "loaded"]
      /\ loaded' = [loaded EXCEPT ![t] = rowName] /\ name' = [name EXCEPT ![t] = rowName]
      /\ UNCHANGED <<rowLock, newName, newSerial, newEntries, seq, rowName, journals, lastSerial>>
  BY DEF Load, Go, holderVars, tableVars
<1>2. TypeOK' /\ Holder' /\ Names' /\ Serials' /\ CurrentUnlessRenamed'
  BY <1>1 DEF IInv, TypeOK, Holder, Names, Serials, CurrentUnlessRenamed, Entry
<1>. QED  BY <1>2 DEF IInv

LEMMA KeepNameStep == ASSUME IInv, NEW t \in Tx, KeepName(t) PROVE IInv'
<1>1. /\ pc[t] = "loaded" /\ pc' = [pc EXCEPT ![t] = "named"]
      /\ UNCHANGED <<loaded, name, rowLock, newName, newSerial, newEntries, seq, rowName,
                     journals, lastSerial>>
  BY DEF KeepName, Go, holderVars, tableVars
<1>2. TypeOK' /\ Holder' /\ Names' /\ Serials' /\ CurrentUnlessRenamed'
  BY <1>1 DEF IInv, TypeOK, Holder, Names, Serials, CurrentUnlessRenamed, Entry
<1>. QED  BY <1>2 DEF IInv

LEMMA RenameStep == ASSUME IInv, NEW t \in Tx, Rename(t) PROVE IInv'
<1>1. PICK spelling \in Spellings :
        name' = [name EXCEPT ![t] = spelling] /\ newName' = spelling
  BY DEF Rename
<1>2. /\ pc[t] = "loaded" /\ pc' = [pc EXCEPT ![t] = "named"]
      /\ rowLock \in {t, NoTx} /\ rowLock' = t /\ newSerial' = lastSerial
      /\ UNCHANGED <<loaded, newEntries, seq, rowName, journals, lastSerial>>
  BY DEF Rename, Go, LockProject, tableVars
<1>3. rowLock = NoTx /\ newEntries = {}
  BY <1>2 DEF IInv, Holder
<1>4. TypeOK'
  BY <1>1, <1>2 DEF IInv, TypeOK, Entry
<1>5. Holder' /\ Names'
  BY <1>1, <1>2, <1>3, NoTxAssumption DEF IInv, TypeOK, Holder, Names
<1>6. Serials' /\ CurrentUnlessRenamed'
  BY <1>2, <1>3 DEF IInv, TypeOK, Holder, Serials, CurrentUnlessRenamed
<1>. QED  BY <1>4, <1>5, <1>6 DEF IInv

LEMMA LockForJournalStep == ASSUME IInv, NEW t \in Tx, LockForJournal(t) PROVE IInv'
<1>1. /\ pc[t] = "named" /\ pc' = [pc EXCEPT ![t] = "journal"]
      /\ rowLock \in {t, NoTx} /\ rowLock' = t /\ newSerial' = lastSerial
      /\ newName' = IF rowLock = t THEN newName ELSE rowName
      /\ UNCHANGED <<loaded, name, newEntries, seq, rowName, journals, lastSerial>>
  BY DEF LockForJournal, Go, LockProject, VisibleName, tableVars
<1>2. newEntries = {}
  BY <1>1 DEF IInv, Holder
<1>3. TypeOK'
  BY <1>1 DEF IInv, TypeOK, Entry
<1>4. Holder'
  BY <1>1, <1>2, NoTxAssumption DEF IInv, TypeOK, Holder
<1>5. Names'
  BY <1>1, NoTxAssumption DEF IInv, TypeOK, Holder, Names
<1>6. Serials' /\ CurrentUnlessRenamed'
  BY <1>1, <1>2, SerialAssumption DEF IInv, TypeOK, Serials, CurrentUnlessRenamed, Entry
<1>. QED  BY <1>3, <1>4, <1>5, <1>6 DEF IInv

LEMMA InsertJournalStep == ASSUME IInv, NEW t \in Tx, InsertJournal(t) PROVE IInv'
<1>. DEFINE new == [id |-> seq + 1, name |-> name[t], outdated |-> loaded[t] # rowName]
<1>1. PICK e : e = new
  OBVIOUS
<1>2. /\ pc[t] = "journal" /\ pc' = [pc EXCEPT ![t] = "commit"] /\ rowLock = t
      /\ seq < MaxSerial /\ seq' = seq + 1 /\ newEntries' = {e}
      /\ newSerial' = (IF newName = name[t] THEN TriggerSerial(name[t], journals \cup {e})
                       ELSE newSerial)
      /\ UNCHANGED <<loaded, name, rowLock, newName, rowName, journals, lastSerial>>
  BY <1>1 DEF IInv, Holder, InsertJournal, Go, SequenceHasNext, VisibleName, tableVars
<1>3. e \in Entry /\ e.id = seq + 1 /\ e.name = name[t] /\ (e.outdated <=> loaded[t] # rowName)
  <2>1. (loaded[t] # rowName) \in BOOLEAN /\ name[t] \in Spellings /\ seq + 1 \in 1..MaxSerial
    BY <1>2, SerialAssumption DEF IInv, TypeOK
  <2>. QED  BY <1>1, <2>1 DEF Entry
<1>4. \A x \in journals : x.id <= seq
  BY DEF IInv, Serials
<1>5. TriggerSerial(name[t], journals \cup {e}) = seq + 1
  <2>1. \A x \in journals : x.id <= e.id
    BY <1>3, <1>4, SerialAssumption DEF IInv, TypeOK, Entry
  <2>. QED  BY <1>3, <2>1, NewestSerial DEF IInv, TypeOK
<1>6. newSerial' \in {seq + 1, newSerial} /\ (newName = name[t] => newSerial' = seq + 1)
  BY <1>2, <1>5
<1>7. TypeOK'
  BY <1>2, <1>3, <1>6, SerialAssumption DEF IInv, TypeOK
<1>8. Holder' /\ Names'
  BY <1>2, NoTxAssumption DEF IInv, TypeOK, Holder, Names
<1>9. newName = name[t] \/ e.outdated
  BY <1>2, <1>3 DEF IInv, Names
<1>10. Serials'
  BY <1>2, <1>3, <1>4, <1>6, <1>9, SerialAssumption DEF IInv, TypeOK, Entry, Serials
<1>11. CurrentUnlessRenamed'
  BY <1>2 DEF IInv, CurrentUnlessRenamed
<1>. QED  BY <1>7, <1>8, <1>10, <1>11 DEF IInv

(* Ends of requests.                                                       *)
LEMMA CommitStep == ASSUME IInv, NEW t \in Tx, Commit(t) PROVE IInv'
<1>1. /\ pc[t] = "commit" /\ rowLock = t
      /\ rowName' = newName /\ lastSerial' = newSerial /\ journals' = journals \cup newEntries
      /\ pc' = [pc EXCEPT ![t] = "idle"]
      /\ loaded' = [loaded EXCEPT ![t] = newName] /\ name' = [name EXCEPT ![t] = newName]
      /\ rowLock' = NoTx /\ newName' = newName /\ newSerial' = newSerial /\ newEntries' = {}
      /\ seq' = seq
  BY DEF IInv, Holder, Commit, Release
<1>2. TypeOK'
  BY <1>1 DEF IInv, TypeOK
<1>3. Holder' /\ Names'
  BY <1>1, NoTxAssumption DEF IInv, TypeOK, Holder, Names
<1>4. Serials'
  BY <1>1, SerialAssumption DEF IInv, TypeOK, Serials
<1>5. CurrentUnlessRenamed'
  BY <1>1, SerialAssumption DEF IInv, TypeOK, Entry, Serials, CurrentUnlessRenamed
<1>. QED  BY <1>2, <1>3, <1>4, <1>5 DEF IInv

LEMMA RollbackStep == ASSUME IInv, NEW t \in Tx, Rollback(t) PROVE IInv'
<1>1. /\ pc[t] # "idle" /\ pc' = [pc EXCEPT ![t] = "idle"]
      /\ loaded' = [loaded EXCEPT ![t] = rowName] /\ name' = [name EXCEPT ![t] = rowName]
      /\ UNCHANGED <<seq, rowName, journals, lastSerial>>
      /\ IF rowLock = t
           THEN rowLock' = NoTx /\ newName' = rowName /\ newSerial' = lastSerial /\ newEntries' = {}
           ELSE UNCHANGED <<rowLock, newName, newSerial, newEntries>>
  BY DEF Rollback, Release, tableVars, holderVars
<1>2. TypeOK'
  BY <1>1 DEF IInv, TypeOK
<1>3. Holder' /\ Names'
  BY <1>1, NoTxAssumption DEF IInv, TypeOK, Holder, Names
<1>4. Serials' /\ CurrentUnlessRenamed'
  BY <1>1, SerialAssumption DEF IInv, TypeOK, Entry, Serials, CurrentUnlessRenamed
<1>. QED  BY <1>2, <1>3, <1>4 DEF IInv

LEMMA StutterStep == ASSUME IInv, UNCHANGED vars PROVE IInv'
  BY DEF vars, requestVars, holderVars, tableVars, IInv, TypeOK, Holder, Names, Serials,
         CurrentUnlessRenamed

LEMMA NextStep == ASSUME IInv, [Next]_vars PROVE IInv'
  BY LoadStep, RenameStep, KeepNameStep, LockForJournalStep, InsertJournalStep, CommitStep,
     RollbackStep, StutterStep DEF Next

-----------------------------------------------------------------------------
\* Every state that any number of requests reaches, with any spellings, satisfies the inductive
\* invariant: what ensure_monotonic_journals locks is the row that the trigger looks for, unless the
\* project was renamed after the request loaded it.
THEOREM Invariance == Spec => []IInv
  BY InitInv, NextStep, PTL DEF Spec

\* The trigger counts every entry of a request that had loaded the row's own name, those of a
\* renaming upload among them.
THEOREM Current == Spec => []CurrentUnlessRenamed
<1>1. IInv => CurrentUnlessRenamed
  BY DEF IInv
<1>. QED  BY <1>1, Invariance, PTL

\* However the spelling changes, maintain_project_last_serial never lowers projects.last_serial.
THEOREM NeverFalls == Spec => LastSerialNeverFalls
<1>. DEFINE P == lastSerial <= lastSerial'
<1>1. ASSUME IInv, [Next]_vars PROVE P \/ UNCHANGED lastSerial
  <2>1. ASSUME NEW t \in Tx, Commit(t) PROVE P
    BY <1>1, <2>1 DEF Commit, IInv, Serials
  <2>. QED
    BY <1>1, <2>1
    DEF Next, Load, Rename, KeepName, LockForJournal, InsertJournal, Rollback, tableVars, vars
<1>2. [][P]_lastSerial <=> LastSerialNeverFalls
  BY DEF LastSerialNeverFalls
<1>. QED  BY <1>1, <1>2, Invariance, PTL DEF Spec
=============================================================================
