-------------------------- MODULE ProjectSpelling --------------------------
(***************************************************************************)
(* A project's name may be spelled in several ways, and the spelling can   *)
(* change while requests are under way.                                    *)
(*                                                                         *)
(* An upload whose metadata spells the name differently renames the        *)
(* project.  A journal entry is named project.name, as the request's       *)
(* session loaded it; the trigger maintain_project_last_serial then        *)
(* updates the projects row OF THAT NAME, although the listener            *)
(* ensure_monotonic_journals has locked the row by its normalized name.    *)
(* Journals leaves the spelling out: there, the row is always found.       *)
(*                                                                         *)
(* This is about one project.  Its row lock, which every writer has when   *)
(* it inserts a journal entry, stands for the advisory lock as well; the   *)
(* entries of other projects would only leave gaps between the serials.    *)
(***************************************************************************)
EXTENDS Naturals, FiniteSetsExt

CONSTANTS
    Tx,         \* workers
    NoTx,       \* the holder of the project's row lock when it is free
    Spellings,  \* spellings of the one normalized name
    MaxSerial   \* bound: the last serial

ASSUME NoTxAssumption == NoTx \notin Tx
ASSUME SpellingsAssumption == Spellings # {}
ASSUME SerialAssumption == MaxSerial \in Nat

VARIABLES
    pc,          \* where each request is
    loaded,      \* project.name as its SELECT returned it
    name,        \* project.name in its session
    rowName,     \* committed projects.name
    rowLock,     \* who has the projects row locked FOR NO KEY UPDATE
    newName,     \* what the lock's holder has written to projects.name
    newSerial,   \* and to projects.last_serial
    newEntries,  \* and the journal rows it has inserted
    seq,         \* last value of the sequence behind journals.id
    journals,    \* visible journal rows
    lastSerial   \* visible projects.last_serial

requestVars == <<pc, loaded, name>>
holderVars == <<rowLock, newName, newSerial, newEntries>>
tableVars == <<rowName, journals, lastSerial>>
vars == <<requestVars, holderVars, seq, tableVars>>

(* outdated tells, for the properties, whether the row had another name by *)
(* then than the one its request loaded.                                   *)
Entry == [id : 1..MaxSerial, name : Spellings, outdated : BOOLEAN]

TypeOK ==
    /\ pc \in [Tx -> {"idle", "loaded", "named", "journal", "commit"}]
    /\ loaded \in [Tx -> Spellings]
    /\ name \in [Tx -> Spellings]
    /\ rowName \in Spellings
    /\ rowLock \in Tx \cup {NoTx}
    /\ newName \in Spellings
    /\ newSerial \in 0..MaxSerial
    /\ newEntries \in SUBSET Entry
    /\ seq \in 0..MaxSerial
    /\ journals \in SUBSET Entry
    /\ lastSerial \in 0..MaxSerial

Init ==
    /\ rowName \in Spellings
    /\ pc = [t \in Tx |-> "idle"]
    /\ loaded = [t \in Tx |-> rowName]
    /\ name = [t \in Tx |-> rowName]
    /\ rowLock = NoTx
    /\ newName = rowName
    /\ newSerial = 0
    /\ newEntries = {}
    /\ seq = 0
    /\ journals = {}
    /\ lastSerial = 0

Go(t, from, to) ==
    /\ pc[t] = from
    /\ pc' = [pc EXCEPT ![t] = to]

(* SELECT the project; the session keeps what it read. *)
Load(t) ==
    /\ Go(t, "idle", "loaded")
    /\ loaded' = [loaded EXCEPT ![t] = rowName]
    /\ name' = [name EXCEPT ![t] = rowName]
    /\ UNCHANGED <<holderVars, seq, tableVars>>

(* Whoever gets the lock after a wait sees the row as it was committed. *)
LockProject(t) ==
    /\ rowLock \in {t, NoTx}
    /\ rowLock' = t

(* "Update name if it differs": only uploads do this. *)
Rename(t) ==
    /\ Go(t, "loaded", "named")
    /\ LockProject(t)
    /\ \E spelling \in Spellings \ {name[t]} :
          /\ name' = [name EXCEPT ![t] = spelling]
          /\ newName' = spelling
    /\ newSerial' = lastSerial
    /\ UNCHANGED <<loaded, newEntries, seq, tableVars>>

KeepName(t) ==
    /\ Go(t, "loaded", "named")
    /\ UNCHANGED <<loaded, name, holderVars, seq, tableVars>>

(* The projects row, as the trigger of transaction t would see it. *)
VisibleName_Committed(t) == rowName

VisibleName(t) == IF rowLock = t THEN newName ELSE rowName

(* ensure_monotonic_journals locks the row by its normalized name. *)
LockForJournal(t) ==
    /\ Go(t, "named", "journal")
    /\ LockProject(t)
    /\ newName' = VisibleName(t)
    /\ newSerial' = lastSerial
    /\ UNCHANGED <<loaded, name, newEntries, seq, tableVars>>

TriggerSerial_Oldest(n, visible) ==
    Min({e.id : e \in {v \in visible : v.name = n}})

TriggerSerial(n, visible) ==
    Max({e.id : e \in {v \in visible : v.name = n}})

SequenceHasNext == seq < MaxSerial

(* INSERT INTO journals, and UPDATE projects ... WHERE projects.name =     *)
(* targeted_name, which may match no row.                                  *)
InsertJournal(t) ==
    /\ Go(t, "journal", "commit")
    /\ SequenceHasNext
    /\ seq' = seq + 1
    /\ newEntries' = {[id |-> seq', name |-> name[t],
                       outdated |-> loaded[t] # rowName]}
    /\ newSerial' = IF VisibleName(t) = name[t]
                      THEN TriggerSerial(name[t], journals \cup newEntries')
                      ELSE newSerial
    /\ UNCHANGED <<loaded, name, rowLock, newName, tableVars>>

Release(t) ==
    /\ pc' = [pc EXCEPT ![t] = "idle"]
    /\ loaded' = [loaded EXCEPT ![t] = rowName']
    /\ name' = [name EXCEPT ![t] = rowName']
    /\ IF rowLock = t
         THEN /\ rowLock' = NoTx
              /\ newName' = rowName'
              /\ newSerial' = lastSerial'
              /\ newEntries' = {}
         ELSE UNCHANGED holderVars
    /\ UNCHANGED seq

Commit(t) ==
    /\ pc[t] = "commit"
    /\ rowName' = newName
    /\ lastSerial' = newSerial
    /\ journals' = journals \cup newEntries
    /\ Release(t)

Rollback(t) ==
    /\ pc[t] # "idle"
    /\ UNCHANGED tableVars
    /\ Release(t)

Next ==
    \E t \in Tx :
       \/ Load(t) \/ Rename(t) \/ KeepName(t) \/ LockForJournal(t)
       \/ InsertJournal(t) \/ Commit(t) \/ Rollback(t)

Spec == Init /\ [][Next]_vars

-----------------------------------------------------------------------------
(* X-PyPI-Last-Serial is the most recent serial of the project for every   *)
(* entry whose request had loaded the project under the name that the row  *)
(* still had, the renaming uploads among them: the trigger runs after the  *)
(* UPDATE of the same transaction.                                         *)
CurrentUnlessRenamed ==
    \A e \in journals : e.outdated \/ e.id <= lastSerial

(* However often the spelling changes to and fro, the serial that caches   *)
(* and mirrors are shown never falls, though the trigger only counts the   *)
(* entries of one spelling.                                                *)
LastSerialNeverFalls == [][lastSerial <= lastSerial']_lastSerial
=============================================================================
