---------------------------- MODULE BillingProofs ----------------------------
(* Payments, deactivations and their notices: theorems about Billing. *)
EXTENDS Billing, FiniteSetTheorems, SequenceTheorems, TLAPS

Stored == Statuses \cup {"none"}
Todo == [sub : Subs, seen : SUBSET Stored, to : Stored]
Transaction(x) ==
    /\ x.todo \subseteq Todo /\ x.wrote \in [Subs -> Stored]
    /\ x.pays \in BOOLEAN /\ x.locked \in BOOLEAN /\ x.back \in BOOLEAN
NightlyRun ==
    [at : {"idle", "scheduled", "candidate", "locked"},
     outcome : {"none", "keep", "clear", "remind", "deactivate"}, days : Nat]
Schedule == [left : Int, last : ToSet(NoticeDays)]

StripeTypes == remote \in [Subs -> Stored] /\ emitted \in [Subs -> SUBSET Statuses]
OrgTypes ==
    /\ local \in [Subs -> Stored] /\ org \in {"active", "unpaid", "removed"}
    /\ owned \in BOOLEAN /\ manual \in BOOLEAN /\ window \in -1..Window
TxTypes == DOMAIN tx = Syncers /\ \A t \in Syncers : Transaction(tx[t])
RunTypes == run \in [Runs -> NightlyRun]

(* Who has the organization's row locked is alone; who writes a paid       *)
(* status locks it or is going to.                                         *)
Locks ==
    /\ \A t \in Syncers : tx[t].locked =>
          /\ \A u \in Syncers : tx[u].locked => u = t
          /\ \A r \in Runs : run[r].at # "locked"
    /\ \A q, r \in Runs : run[q].at = "locked" /\ run[r].at = "locked" => q = r
    /\ \A t \in Syncers : tx[t].back => tx[t].locked
    /\ \A t \in Syncers, s \in Subs : tx[t].wrote[s] = "active" => tx[t].pays \/ tx[t].locked

(* What it decided about the organization still holds.                     *)
Decisions ==
    \A t \in Syncers : tx[t].locked =>
       IF tx[t].back THEN org = "unpaid" ELSE ~ReactivatesOnPayment

NothingPaid == \A s \in Subs : local[s] # "active"

RunOK(r) ==
    /\ run[r].at = "locked" => run[r].outcome # "none"
    /\ run[r].at = "candidate" => schedule = NoSchedule \/ schedule.left >= 0
    /\ run[r].at = "locked" /\ run[r].outcome = "deactivate" =>
          /\ org = "active" /\ NothingPaid
          /\ schedule # NoSchedule /\ Due = {} /\ schedule.left < 0
    /\ run[r].at = "locked" /\ run[r].outcome = "remind" =>
          \/ schedule = NoSchedule /\ run[r].days = NoticeDays[1]
          \/ schedule # NoSchedule /\ Due # {} /\ run[r].days = Reminder

(* The reminders were the first notices, and the days since the last of    *)
(* them are those that the deadline has come nearer.                       *)
Reminded(k) ==
    /\ told \in Seq(Nat) /\ Len(told) = k /\ \A i \in 1..k : told[i] = NoticeDays[i]
    /\ schedule.last = NoticeDays[k] /\ schedule.left = NoticeDays[k] - since
    /\ since \in 0..(NoticeDays[k] + 1)

Notices ==
    IF schedule = NoSchedule THEN told = <<>> /\ since = 0
    ELSE schedule \in Schedule /\ \E k \in DOMAIN NoticeDays : Reminded(k)

IInv ==
    /\ StripeTypes /\ OrgTypes /\ TxTypes /\ RunTypes
    /\ Locks /\ Decisions /\ (ReactivatesOnPayment => NothingPaid)
    /\ Notices /\ \A r \in Runs : RunOK(r)

LEMMA NoTxType == Transaction(NoTx) /\ ~NoTx.pays /\ ~NoTx.locked /\ ~NoTx.back
                  /\ NoTx.todo = {} /\ \A s \in Subs : NoTx.wrote[s] # "active"
  BY DEF NoTx, Transaction, Stored

LEMMA NoRunType == NoRun \in NightlyRun /\ NoRun.at = "idle"
  BY DEF NoRun, NightlyRun

LEMMA InitInv == Init => IInv
<1>. SUFFICES ASSUME Init PROVE IInv
  OBVIOUS
<1>1. StripeTypes /\ OrgTypes
  <2>1. -1 \in -1..Window
    BY WindowAssumption
  <2>. QED  BY <2>1 DEF Init, StripeTypes, OrgTypes, Stored
<1>2. TxTypes /\ RunTypes
  BY NoTxType, NoRunType DEF Init, TxTypes, RunTypes
<1>3. \A t \in Syncers : tx[t] = NoTx
  BY DEF Init
<1>4. \A r \in Runs : run[r] = NoRun
  BY DEF Init
<1>5. Locks /\ Decisions
  BY <1>3, <1>4, NoTxType, NoRunType DEF Locks, Decisions
<1>6. Notices /\ \A r \in Runs : RunOK(r)
  BY <1>4, NoRunType DEF Init, Notices, RunOK
<1>7. ~ReactivatesOnPayment
  BY DEF Init, ReactivatesOnPayment
<1>. QED  BY <1>1, <1>2, <1>5, <1>6, <1>7 DEF IInv

-----------------------------------------------------------------------------
(* What a step that leaves them alone keeps.                               *)
LEMMA NoticesKept == ASSUME Notices, UNCHANGED <<schedule, told, since>> PROVE Notices'
  BY DEF Notices, Reminded, Schedule

LEMMA RunsKept ==
    ASSUME \A r \in Runs : RunOK(r), UNCHANGED <<schedule, org, run>>, NothingPaid => NothingPaid'
    PROVE  \A r \in Runs : RunOK(r)'
  BY DEF RunOK, Due, Reminder

LEMMA OrgKept ==
    ASSUME OrgTypes, ReactivatesOnPayment => NothingPaid, UNCHANGED <<local, org, owned, window>>,
           manual' \in BOOLEAN
    PROVE  OrgTypes' /\ (ReactivatesOnPayment => NothingPaid)'
  BY DEF OrgTypes, ReactivatesOnPayment, NothingPaid

(* A step of Stripe, or one of nobody.                                     *)
LEMMA StripeStep ==
    ASSUME IInv, StripeTypes', UNCHANGED <<local, org, owned, window, notices, tx, run>>,
           manual' \in BOOLEAN
    PROVE  IInv'
<1>1. Locks' /\ Decisions' /\ TxTypes' /\ RunTypes'
  BY DEF IInv, Locks, Decisions, TxTypes, Transaction, RunTypes, ReactivatesOnPayment
<1>2. OrgTypes' /\ (ReactivatesOnPayment => NothingPaid)'
  BY OrgKept DEF IInv
<1>3. Notices'
  BY NoticesKept DEF IInv, notices
<1>4. \A r \in Runs : RunOK(r)'
  BY RunsKept DEF IInv, notices, NothingPaid
<1>. QED  BY <1>1, <1>2, <1>3, <1>4 DEF IInv

LEMMA StripeSteps ==
    ASSUME IInv, \/ \E s \in Subs : Checkout(s) \/ Renewal(s)
                 \/ \E on \in BOOLEAN : ManualActivation(on)
                 \/ RemoveOwner \/ RemovalRollback
    PROVE  IInv'
<1>1. /\ UNCHANGED <<local, org, owned, window, notices, tx, run>> /\ manual' \in BOOLEAN
  BY DEF IInv, OrgTypes, Checkout, Renewal, Stripe, ManualActivation, RemoveOwner, RemovalRollback,
         account
<1>2. ASSUME NEW s \in Subs, NEW from, NEW to \in Statuses, Stripe(s, from, to) PROVE StripeTypes'
  BY <1>2 DEF IInv, StripeTypes, Stripe, Stored
<1>3. ASSUME NEW s \in Subs, Checkout(s) \/ Renewal(s) PROVE StripeTypes'
  <2>1. "active" \in Statuses
    BY DEF Statuses
  <2>. QED  BY <1>2, <1>3, <2>1 DEF Checkout, Renewal
<1>4. ASSUME RemoveOwner PROVE StripeTypes'
  <2>1. "canceled" \in Statuses
    BY DEF Statuses
  <2>. QED  BY <1>4, <2>1 DEF IInv, StripeTypes, RemoveOwner, Stored
<1>5. ASSUME (\E on \in BOOLEAN : ManualActivation(on)) \/ RemovalRollback PROVE StripeTypes'
  BY <1>5 DEF IInv, StripeTypes, ManualActivation, RemovalRollback, stripe
<1>. QED  BY <1>1, <1>3, <1>4, <1>5, StripeStep

-----------------------------------------------------------------------------
(* Webhooks and the reconciliation.                                        *)
TxStep(t) ==
    /\ DOMAIN tx' = Syncers /\ Transaction(tx'[t])
    /\ \A u \in Syncers : u # t => tx'[u] = tx[u]

LEMMA TxKept ==
    ASSUME IInv, NEW t \in Syncers, TxStep(t), UNCHANGED <<stripe, local, account, notices, run>>,
           tx'[t].locked => tx[t].locked \/ OrgFree, tx'[t].back => tx'[t].locked,
           \A s \in Subs : tx'[t].wrote[s] = "active" => tx'[t].pays \/ tx'[t].locked,
           tx'[t].locked => IF tx'[t].back THEN org = "unpaid" ELSE ~ReactivatesOnPayment
    PROVE  IInv'
<1>1. TxTypes' /\ RunTypes' /\ StripeTypes'
  BY DEF IInv, TxTypes, RunTypes, StripeTypes, stripe, TxStep
<1>2. Locks'
  <2>1. Locks
    BY DEF IInv
  <2>2. tx'[t].locked => /\ \A u \in Syncers \ {t} : ~tx[u].locked
                         /\ \A r \in Runs : run[r].at # "locked"
    BY <2>1 DEF Locks, OrgFree
  <2>. QED  BY <2>1, <2>2 DEF Locks, TxStep
<1>3. Decisions'
  BY DEF IInv, Decisions, TxStep, ReactivatesOnPayment, account
<1>4. OrgTypes' /\ (ReactivatesOnPayment => NothingPaid)'
  BY OrgKept DEF IInv, account, OrgTypes
<1>5. Notices'
  BY NoticesKept DEF IInv, notices
<1>6. \A r \in Runs : RunOK(r)'
  BY RunsKept DEF IInv, notices, account, NothingPaid
<1>. QED  BY <1>1, <1>2, <1>3, <1>4, <1>5, <1>6 DEF IInv

LEMMA BeginStep ==
    ASSUME IInv, NEW t \in Syncers, NEW todo \in SUBSET Todo,
           Begin(t, todo)
    PROVE  IInv'
<1>1. /\ DOMAIN tx' = Syncers /\ \A u \in Syncers : u # t => tx'[u] = tx[u]
      /\ tx'[t].todo = todo /\ tx'[t].locked = NoTx.locked /\ tx'[t].back = NoTx.back
      /\ tx'[t].wrote = NoTx.wrote /\ tx'[t].pays = NoTx.pays
  BY DEF Begin, IInv, TxTypes
<1>2. TxStep(t)
  BY <1>1, NoTxType DEF TxStep, Transaction
<1>. QED  BY <1>1, <1>2, NoTxType, TxKept DEF Begin

LEMMA BeginSteps ==
    ASSUME IInv, \/ \E h \in Hooks, s \in Subs : SubscriptionEvent(h, s) \/ CheckoutCompleted(h, s)
                 \/ ReconcileStart
    PROVE  IInv'
<1>1. /\ local \in [Subs -> Stored] /\ remote \in [Subs -> Stored] /\ Statuses \subseteq Stored
      /\ \A s \in Subs : emitted[s] \subseteq Stored
  BY DEF IInv, OrgTypes, StripeTypes, Stored
<1>2. Hooks \subseteq Syncers /\ Reconciler \in Syncers
  BY DEF Syncers
<1>3. ASSUME NEW h \in Hooks, NEW s \in Subs, SubscriptionEvent(h, s) PROVE IInv'
  <2>1. PICK to \in emitted[s] : Begin(h, {[sub |-> s, seen |-> {local[s]}, to |-> to]})
    BY <1>3 DEF SubscriptionEvent
  <2>2. {[sub |-> s, seen |-> {local[s]}, to |-> to]} \in SUBSET Todo
    BY <1>1 DEF Todo
  <2>. QED  BY <1>2, <2>1, <2>2, BeginStep
<1>4. ASSUME NEW h \in Hooks, NEW s \in Subs, CheckoutCompleted(h, s) PROVE IInv'
  <2>. DEFINE seen == IF local[s] = "none" THEN {"none"} ELSE Statuses
  <2>1. seen \in SUBSET Stored /\ "active" \in Stored
    BY DEF Stored, Statuses
  <2>2. Begin(h, {[sub |-> s, to |-> "active", seen |-> seen]})
    BY <1>4 DEF CheckoutCompleted
  <2>. HIDE DEF seen
  <2>3. {[sub |-> s, to |-> "active", seen |-> seen]} \in SUBSET Todo
    BY <2>1 DEF Todo
  <2>. QED  BY <1>2, <2>2, <2>3, BeginStep
<1>5. CASE ReconcileStart
  <2>. DEFINE todo == {[sub |-> s, seen |-> {local[s]}, to |-> remote[s]] : s \in ToReconcile \ Held}
  <2>1. todo \in SUBSET Todo
    BY <1>1 DEF ToReconcile, Todo
  <2>2. Begin(Reconciler, todo)
    BY <1>5 DEF ReconcileStart
  <2>. HIDE DEF todo
  <2>. QED  BY <1>2, <2>1, <2>2, BeginStep
<1>. QED  BY <1>3, <1>4, <1>5

LEMMA SyncStep == ASSUME IInv, NEW t \in Syncers, Sync(t) PROVE IInv'
<1>1. Transaction(tx[t]) /\ DOMAIN tx = Syncers /\ Locks /\ Decisions
  BY DEF IInv, TxTypes
<1>2. CASE Write(t)
  <2>1. PICK x \in tx[t].todo :
          /\ ~tx[t].pays /\ UNCHANGED <<stripe, local, account, notices, run>>
          /\ tx' = [tx EXCEPT ![t].todo = @ \ {x}, ![t].wrote[x.sub] = x.to,
                             ![t].pays = x.to = "active"]
    BY <1>2 DEF Write
  <2>2. x.sub \in Subs /\ x.to \in Stored
    BY <1>1 DEF Transaction, Todo
  <2>3. /\ DOMAIN tx' = Syncers /\ \A u \in Syncers : u # t => tx'[u] = tx[u]
        /\ tx'[t].todo = tx[t].todo \ {x} /\ tx'[t].wrote = [tx[t].wrote EXCEPT ![x.sub] = x.to]
        /\ tx'[t].pays = (x.to = "active") /\ tx'[t].locked = tx[t].locked /\ tx'[t].back = tx[t].back
    BY <1>1, <2>1
  <2>4. TxStep(t)
    BY <1>1, <2>2, <2>3 DEF TxStep, Transaction
  <2>5. \A s \in Subs : tx'[t].wrote[s] = "active" => tx'[t].pays \/ tx'[t].locked
    <3>1. ASSUME NEW s \in Subs, tx'[t].wrote[s] = "active" PROVE tx'[t].pays \/ tx'[t].locked
      <4>1. CASE s = x.sub
        BY <1>1, <2>2, <2>3, <3>1, <4>1 DEF Transaction
      <4>2. CASE s # x.sub
        BY <1>1, <2>1, <2>2, <2>3, <3>1, <4>2 DEF Locks, Transaction
      <4>. QED  BY <4>1, <4>2
    <3>. QED  BY <3>1
  <2>. QED  BY <1>1, <2>1, <2>3, <2>4, <2>5, TxKept DEF Locks, Decisions
<1>3. CASE Overtaken(t)
  <2>1. PICK x \in tx[t].todo : /\ tx' = [tx EXCEPT ![t].todo = @ \ {x}]
                               /\ UNCHANGED <<stripe, local, account, notices, run>>
    BY <1>3 DEF Overtaken
  <2>2. /\ DOMAIN tx' = Syncers /\ \A u \in Syncers : u # t => tx'[u] = tx[u]
        /\ tx'[t].todo = tx[t].todo \ {x} /\ tx'[t].wrote = tx[t].wrote
        /\ tx'[t].pays = tx[t].pays /\ tx'[t].locked = tx[t].locked /\ tx'[t].back = tx[t].back
    BY <1>1, <2>1
  <2>3. TxStep(t)
    BY <1>1, <2>2 DEF TxStep, Transaction
  <2>. QED  BY <1>1, <2>1, <2>2, <2>3, TxKept DEF Locks, Decisions
<1>4. CASE ReactivateAfterPayment(t)
  <2>1. /\ tx[t].locked \/ OrgFree
        /\ UNCHANGED <<stripe, local, account, notices, run>>
        /\ tx' = [tx EXCEPT ![t].pays = FALSE, ![t].locked = TRUE, ![t].back = @ \/ ReactivatesOnPayment]
    BY <1>4 DEF ReactivateAfterPayment
  <2>2. /\ DOMAIN tx' = Syncers /\ \A u \in Syncers : u # t => tx'[u] = tx[u]
        /\ tx'[t].todo = tx[t].todo /\ tx'[t].wrote = tx[t].wrote /\ tx'[t].pays = FALSE
        /\ tx'[t].locked = TRUE /\ tx'[t].back = (tx[t].back \/ ReactivatesOnPayment)
    BY <1>1, <2>1
  <2>3. TxStep(t)
    BY <1>1, <2>2 DEF TxStep, Transaction
  <2>4. IF tx'[t].back THEN org = "unpaid" ELSE ~ReactivatesOnPayment
    BY <1>1, <2>2 DEF Locks, Decisions, ReactivatesOnPayment
  <2>. QED  BY <2>1, <2>2, <2>3, <2>4, TxKept
<1>. QED  BY <1>2, <1>3, <1>4 DEF Sync

LEMMA CommitStep == ASSUME IInv, NEW t \in Syncers, Commit(t) PROVE IInv'
<1>1. /\ Ready(t) /\ UNCHANGED <<stripe, owned, manual, window, notices, run>>
      /\ local' = [s \in Subs |-> IF tx[t].wrote[s] = "none" THEN local[s] ELSE tx[t].wrote[s]]
      /\ org' = (IF tx[t].back THEN "active" ELSE org)
      /\ tx' = [tx EXCEPT ![t] = NoTx]
  BY DEF Commit
<1>2. /\ Transaction(tx[t]) /\ DOMAIN tx = Syncers /\ Locks /\ Decisions /\ ~tx[t].pays
      /\ ReactivatesOnPayment => NothingPaid
  BY <1>1 DEF IInv, TxTypes, Ready
<1>3. /\ DOMAIN tx' = Syncers /\ tx'[t] = NoTx
      /\ \A u \in Syncers : u # t => tx'[u] = tx[u]
  BY <1>1, <1>2
<1>4. TxTypes' /\ RunTypes' /\ StripeTypes'
  BY <1>1, <1>3, NoTxType DEF IInv, TxTypes, RunTypes, StripeTypes, stripe
<1>5. OrgTypes'
  BY <1>1, <1>2 DEF IInv, OrgTypes, Transaction, Stored
<1>6. Locks'
  BY <1>1, <1>2, <1>3, NoTxType DEF Locks
<1>7. tx[t].locked \/ (org' = org /\ (NothingPaid => NothingPaid'))
  BY <1>1, <1>2 DEF Locks, NothingPaid
<1>8. Decisions'
  <2>1. ASSUME NEW u \in Syncers, tx'[u].locked
        PROVE  IF tx'[u].back THEN org' = "unpaid" ELSE ~ReactivatesOnPayment'
    <3>1. u # t /\ tx[u].locked /\ ~tx[t].locked /\ tx'[u] = tx[u]
      BY <1>2, <1>3, <2>1, NoTxType DEF Locks
    <3>. QED  BY <1>1, <1>2, <1>7, <3>1 DEF Decisions, ReactivatesOnPayment
  <2>. QED  BY <2>1 DEF Decisions
<1>9. (ReactivatesOnPayment => NothingPaid)'
  BY <1>1, <1>2, <1>7 DEF Decisions, ReactivatesOnPayment
<1>10. Notices'
  BY <1>1, NoticesKept DEF IInv, notices
<1>11. \A r \in Runs : RunOK(r)'
  <2>1. CASE tx[t].locked
    BY <1>1, <1>2, <2>1 DEF IInv, RunOK, Locks, notices
  <2>2. CASE ~tx[t].locked
    BY <1>1, <1>7, <2>2, RunsKept DEF IInv, notices
  <2>. QED  BY <2>1, <2>2
<1>. QED  BY <1>4, <1>5, <1>6, <1>8, <1>9, <1>10, <1>11 DEF IInv

LEMMA RollbackStep == ASSUME IInv, NEW t \in Syncers, Rollback(t) PROVE IInv'
<1>1. tx'[t] = NoTx /\ TxStep(t)
  BY NoTxType DEF Rollback, IInv, TxTypes, TxStep
<1>. QED  BY <1>1, NoTxType, TxKept DEF Rollback

-----------------------------------------------------------------------------
(* The nightly run.                                                        *)
LEMMA FirstNotice ==
    /\ NoticeDays[1] \in Nat /\ NoticeDays[1] \in ToSet(NoticeDays) /\ 1 \in DOMAIN NoticeDays
    /\ \A n \in ToSet(NoticeDays) : n \in 0..NoticeDays[1]
<1>1. Len(NoticeDays) \in Nat /\ Len(NoticeDays) # 0 /\ DOMAIN NoticeDays = 1..Len(NoticeDays)
  BY NoticesAssumption
<1>2. 1 \in DOMAIN NoticeDays
  BY <1>1
<1>3. \A i \in DOMAIN NoticeDays : NoticeDays[i] \in Nat /\ NoticeDays[i] <= NoticeDays[1]
  BY <1>1, <1>2, NoticesAssumption
<1>. QED  BY <1>2, <1>3 DEF ToSet

LEMMA DueIsFinite == IsFiniteSet(Due)
<1>1. Due \subseteq 0..NoticeDays[1]
  BY FirstNotice DEF Due
<1>2. IsFiniteSet(0..NoticeDays[1])
  BY FirstNotice, FS_Interval
<1>. QED  BY <1>1, <1>2, FS_Subset

(* If one reminder is due, it is the one after the last.                   *)
LEMMA NextReminder ==
    ASSUME schedule \in Schedule, NEW k \in DOMAIN NoticeDays, schedule.last = NoticeDays[k]
    PROVE  /\ Due = {} /\ schedule.left < 0 => k = Len(NoticeDays)
           /\ Cardinality(Due) = 1 =>
                 k + 1 \in DOMAIN NoticeDays /\ Reminder = NoticeDays[k + 1] /\ schedule.left <= Reminder
<1>1. /\ Len(NoticeDays) \in Nat /\ DOMAIN NoticeDays = 1..Len(NoticeDays)
      /\ \A i \in DOMAIN NoticeDays : NoticeDays[i] \in Nat
      /\ \A i, j \in DOMAIN NoticeDays : i < j => NoticeDays[i] > NoticeDays[j]
  BY NoticesAssumption
<1>2. \A i \in DOMAIN NoticeDays :
        NoticeDays[i] \in Due <=> schedule.left <= NoticeDays[i] /\ NoticeDays[i] < NoticeDays[k]
  BY DEF Due, ToSet
<1>3. schedule.left \in Int
  BY DEF Schedule
<1>4. ASSUME k # Len(NoticeDays)
      PROVE  k + 1 \in DOMAIN NoticeDays /\ (NoticeDays[k + 1] \in Due <=> schedule.left <= NoticeDays[k + 1])
  BY <1>1, <1>2, <1>4
<1>5. ASSUME Cardinality(Due) = 1
      PROVE  k + 1 \in DOMAIN NoticeDays /\ Reminder = NoticeDays[k + 1] /\ schedule.left <= Reminder
  <2>1. PICK x : Due = {x}
    BY <1>5, DueIsFinite, FS_Singleton
  <2>2. PICK j \in DOMAIN NoticeDays : x = NoticeDays[j]
    BY <2>1 DEF Due, ToSet
  <2>3. schedule.left <= NoticeDays[j] /\ NoticeDays[j] < NoticeDays[k]
    BY <1>2, <2>1, <2>2
  <2>4. k < j
    BY <1>1, <2>2, <2>3
  <2>5. k + 1 \in DOMAIN NoticeDays
    BY <1>1, <2>4
  <2>6. NoticeDays[j] <= NoticeDays[k + 1]
    BY <1>1, <2>4, <2>5
  <2>7. NoticeDays[k + 1] \in Due
    BY <1>1, <1>3, <1>4, <2>3, <2>5, <2>6
  <2>8. x = NoticeDays[k + 1]
    BY <2>1, <2>7
  <2>9. Max(Due) = x
    BY <1>1, <2>1, <2>2 DEF Max
  <2>. QED  BY <1>5, <2>2, <2>3, <2>5, <2>8, <2>9 DEF Reminder
<1>6. Due = {} /\ schedule.left < 0 => k = Len(NoticeDays)
  BY <1>1, <1>3, <1>4
<1>. QED  BY <1>5, <1>6

LEMMA RunKept ==
    ASSUME IInv, NEW r \in Runs, NEW v \in NightlyRun, run' = [run EXCEPT ![r] = v],
           UNCHANGED <<stripe, local, account, notices, tx>>, v.at = "locked" => OrgFree, RunOK(r)'
    PROVE  IInv'
<1>1. RunTypes' /\ run'[r] = v /\ \A q \in Runs : q # r => run'[q] = run[q]
  BY DEF IInv, RunTypes
<1>2. TxTypes' /\ StripeTypes' /\ Decisions'
  BY DEF IInv, TxTypes, Transaction, StripeTypes, stripe, Decisions, ReactivatesOnPayment, account
<1>3. Locks'
  BY <1>1 DEF IInv, Locks, OrgFree
<1>4. OrgTypes' /\ (ReactivatesOnPayment => NothingPaid)'
  BY OrgKept DEF IInv, account, OrgTypes
<1>5. Notices'
  BY NoticesKept DEF IInv, notices
<1>6. \A q \in Runs : RunOK(q)'
  BY <1>1 DEF IInv, RunOK, notices, account, NothingPaid, Due, Reminder
<1>. QED  BY <1>1, <1>2, <1>3, <1>4, <1>5, <1>6 DEF IInv

LEMMA RunStartStep == ASSUME IInv, NEW r \in Runs, RunStart(r) PROVE IInv'
<1>1. PICK at \in {"scheduled", "candidate"} :
        run' = [run EXCEPT ![r].at = at] /\ (at = "candidate" => schedule = NoSchedule)
  BY DEF RunStart
<1>2. run[r] = NoRun /\ UNCHANGED <<stripe, local, account, notices, tx>>
  BY DEF RunStart
<1>. DEFINE v == [NoRun EXCEPT !.at = at]
<1>3. v \in NightlyRun /\ v.at = at
  BY DEF NoRun, NightlyRun
<1>4. run' = [run EXCEPT ![r] = v]
  BY <1>1, <1>2
<1>. HIDE DEF v
<1>5. run'[r] = v
  BY <1>4 DEF IInv, RunTypes
<1>6. RunOK(r)'
  BY <1>1, <1>2, <1>3, <1>5 DEF RunOK, notices
<1>. QED  BY <1>2, <1>3, <1>4, <1>6, RunKept

LEMMA RunRollbackStep == ASSUME IInv, NEW r \in Runs, RunRollback(r) PROVE IInv'
<1>1. run'[r] = NoRun
  BY DEF RunRollback, IInv, RunTypes
<1>2. RunOK(r)'
  BY <1>1, NoRunType DEF RunOK
<1>. QED  BY <1>2, NoRunType, RunKept DEF RunRollback

(* What the run may decide under the lock.                                 *)
LEMMA OutcomeSound ==
    ASSUME IInv, NEW unpaid \in BOOLEAN, NEW o \in Outcomes(unpaid)
    PROVE  /\ o.outcome \in {"keep", "clear", "remind", "deactivate"} /\ o.days \in Nat
           /\ o.outcome = "deactivate" =>
                 unpaid /\ schedule # NoSchedule /\ Due = {} /\ schedule.left < 0
           /\ o.outcome = "remind" => \/ schedule = NoSchedule /\ o.days = NoticeDays[1]
                                      \/ schedule # NoSchedule /\ Due # {} /\ o.days = Reminder
<1>1. \/ o = Outcome("clear", 0) \/ o = Outcome("keep", 0)
      \/ o = Outcome("remind", NoticeDays[1]) /\ schedule = NoSchedule
      \/ o = Outcome("remind", Reminder) /\ schedule # NoSchedule /\ Due # {}
      \/ /\ o = Outcome("deactivate", 0)
         /\ unpaid /\ schedule # NoSchedule /\ Due = {} /\ ~(schedule.left >= 0)
  BY DEF Outcomes, PaidOutcome
<1>2. schedule # NoSchedule => Reminder \in Nat /\ schedule.left \in Int
  <2>1. ASSUME schedule # NoSchedule PROVE Reminder \in Nat /\ schedule.left \in Int
    <3>1. schedule \in Schedule /\ \E k \in DOMAIN NoticeDays : schedule.last = NoticeDays[k]
      BY <2>1 DEF IInv, Notices, Reminded
    <3>2. CASE Cardinality(Due) = 1
      BY <3>1, <3>2, NextReminder, NoticesAssumption DEF Schedule
    <3>3. CASE Cardinality(Due) # 1
      BY <3>1, <3>3, FirstNotice DEF Reminder, Schedule
    <3>. QED  BY <3>2, <3>3
  <2>. QED  BY <2>1
<1>3. CASE o = Outcome("clear", 0) \/ o = Outcome("keep", 0)
  <2>1. o.outcome \in {"clear", "keep"} /\ o.days = 0
    BY <1>3 DEF Outcome
  <2>. QED  BY <2>1
<1>4. CASE o = Outcome("remind", NoticeDays[1]) /\ schedule = NoSchedule
  <2>1. o.outcome = "remind" /\ o.days = NoticeDays[1]
    BY <1>4 DEF Outcome
  <2>2. o.days \in Nat
    BY <2>1, FirstNotice
  <2>3. schedule = NoSchedule /\ o.days = NoticeDays[1]
    BY <1>4, <2>1
  <2>4. o.outcome \in {"keep", "clear", "remind", "deactivate"} /\ o.outcome # "deactivate"
    BY <2>1
  <2>. QED  BY <2>2, <2>3, <2>4
<1>5. CASE o = Outcome("remind", Reminder) /\ schedule # NoSchedule /\ Due # {}
  <2>1. o.outcome = "remind" /\ o.days = Reminder
    BY <1>5 DEF Outcome
  <2>. QED  BY <1>2, <1>5, <2>1
<1>6. CASE /\ o = Outcome("deactivate", 0)
           /\ unpaid /\ schedule # NoSchedule /\ Due = {} /\ ~(schedule.left >= 0)
  <2>1. o.outcome = "deactivate" /\ o.days = 0
    BY <1>6 DEF Outcome
  <2>. QED  BY <1>2, <1>6, <2>1
<1>. QED  BY <1>1, <1>3, <1>4, <1>5, <1>6

LEMMA RunLockStep == ASSUME IInv, NEW r \in Runs, RunLock(r) PROVE IInv'
<1>. DEFINE unpaid == run[r].at = "candidate" \/ LacksPaidSeat
<1>1. PICK o \in Outcomes(unpaid) :
        run' = [run EXCEPT ![r] = [at |-> "locked", outcome |-> o.outcome, days |-> o.days]]
  BY DEF RunLock
<1>2. OrgFree /\ UNCHANGED <<stripe, local, account, notices, tx>>
  BY DEF RunLock
<1>3. /\ o.outcome \in {"keep", "clear", "remind", "deactivate"} /\ o.days \in Nat
      /\ o.outcome = "deactivate" =>
            unpaid /\ schedule # NoSchedule /\ Due = {} /\ schedule.left < 0
      /\ o.outcome = "remind" => \/ schedule = NoSchedule /\ o.days = NoticeDays[1]
                                 \/ schedule # NoSchedule /\ Due # {} /\ o.days = Reminder
  BY OutcomeSound
<1>4. o.outcome = "deactivate" => org = "active" /\ NothingPaid
  <2>1. o.outcome = "deactivate" => schedule.left \in Int
    BY <1>3 DEF IInv, Notices, Schedule
  <2>2. run[r].at = "candidate" => schedule = NoSchedule \/ schedule.left >= 0
    BY DEF IInv, RunOK
  <2>3. LacksPaidSeat => org = "active" /\ NothingPaid
    BY DEF LacksPaidSeat, HasPaidSeat, NothingPaid
  <2>. QED  BY <1>3, <2>1, <2>2, <2>3
<1>. DEFINE v == [at |-> "locked", outcome |-> o.outcome, days |-> o.days]
<1>5. v \in NightlyRun
  BY <1>3 DEF NightlyRun
<1>6. run'[r] = v
  BY <1>1 DEF IInv, RunTypes
<1>7. RunOK(r)'
  BY <1>2, <1>3, <1>4, <1>6 DEF RunOK, NothingPaid, notices, account, Due, Reminder
<1>. QED  BY <1>1, <1>2, <1>5, <1>7, RunKept

(* What committing the run does to the schedule.                           *)
LEMMA RemindKeepsNotices ==
    ASSUME IInv, NEW r \in Runs, RunCommit(r), run[r].outcome = "remind"
    PROVE  Notices' /\ schedule' # NoSchedule /\ schedule'.left >= 0
<1>. DEFINE n == run[r].days
<1>1. /\ schedule' = [left |-> n, last |-> n] /\ since' = 0
      /\ told' = IF schedule = NoSchedule \/ Cardinality(Due) # 1 THEN <<n>> ELSE Append(told, n)
  BY DEF RunCommit, Rescheduled
<1>2. \/ schedule = NoSchedule /\ n = NoticeDays[1]
      \/ schedule # NoSchedule /\ n = Reminder
  BY DEF IInv, RunOK, RunCommit
<1>. HIDE DEF n
<1>3. CASE schedule = NoSchedule \/ Cardinality(Due) # 1
  <2>1. n = NoticeDays[1] /\ told' = <<n>>
    BY <1>1, <1>2, <1>3 DEF Reminder
  <2>2. Reminded(1)'
    <3>1. n \in Nat
      BY <2>1, FirstNotice
    <3>2. told' \in Seq(Nat) /\ Len(told') = 1 /\ told'[1] = n
      BY <2>1, <3>1
    <3>3. \A i \in 1..1 : told'[i] = NoticeDays[i]
      BY <2>1, <3>2
    <3>. QED  BY <1>1, <2>1, <3>1, <3>2, <3>3 DEF Reminded
  <2>3. schedule' \in Schedule /\ schedule' # NoSchedule /\ schedule'.left >= 0
    BY <1>1, <2>1, FirstNotice DEF Schedule, NoSchedule
  <2>. QED  BY <2>2, <2>3, FirstNotice DEF Notices, Schedule
<1>4. CASE schedule # NoSchedule /\ Cardinality(Due) = 1
  <2>1. PICK k \in DOMAIN NoticeDays : schedule \in Schedule /\ Reminded(k)
    BY <1>4 DEF IInv, Notices
  <2>2. k + 1 \in DOMAIN NoticeDays /\ n = NoticeDays[k + 1] /\ told' = Append(told, n)
    BY <1>1, <1>2, <1>4, <2>1, NextReminder DEF Reminded
  <2>3. n \in Nat /\ n \in ToSet(NoticeDays) /\ k \in Nat
    BY <2>1, <2>2, NoticesAssumption DEF ToSet
  <2>4. Reminded(k + 1)'
    <3>1. told \in Seq(Nat) /\ Len(told) = k /\ \A i \in 1..k : told[i] = NoticeDays[i]
      BY <2>1 DEF Reminded
    <3>2. told' \in Seq(Nat) /\ Len(told') = k + 1 /\ \A i \in 1..(k + 1) : told'[i] = NoticeDays[i]
      BY <2>2, <2>3, <3>1
    <3>. QED  BY <1>1, <2>2, <2>3, <3>2 DEF Reminded
  <2>5. schedule' \in Schedule /\ schedule' # NoSchedule /\ schedule'.left >= 0
    BY <1>1, <2>3 DEF Schedule, NoSchedule
  <2>. QED  BY <2>2, <2>4, <2>5 DEF Notices, Schedule
<1>. QED  BY <1>3, <1>4

LEMMA UnscheduledNotices == ASSUME Unscheduled PROVE Notices' /\ schedule' = NoSchedule
  BY DEF Unscheduled, Notices

LEMMA RunCommitStep == ASSUME IInv, NEW r \in Runs, RunCommit(r) PROVE IInv'
<1>1. /\ run[r].at = "locked" /\ run' = [run EXCEPT ![r] = NoRun]
      /\ UNCHANGED <<stripe, local, tx, owned, manual>>
      /\ \/ run[r].outcome = "keep" /\ UNCHANGED <<account, notices>>
         \/ run[r].outcome = "clear" /\ Unscheduled /\ UNCHANGED account
         \/ run[r].outcome = "remind" /\ UNCHANGED account
         \/ run[r].outcome = "deactivate" /\ Unscheduled /\ org' = "unpaid" /\ window' = Window
  <2>1. run[r].outcome \in {"keep", "clear", "remind", "deactivate"}
    BY DEF RunCommit, IInv, RunTypes, NightlyRun, RunOK
  <2>2. CASE run[r].outcome = "keep"
    BY <2>2 DEF RunCommit, account
  <2>3. CASE run[r].outcome = "clear"
    BY <2>3 DEF RunCommit, account
  <2>4. CASE run[r].outcome = "remind"
    BY <2>4 DEF RunCommit, account
  <2>5. CASE run[r].outcome = "deactivate"
    BY <2>5 DEF RunCommit
  <2>. QED  BY <2>1, <2>2, <2>3, <2>4, <2>5
<1>2. run'[r] = NoRun /\ \A q \in Runs : q # r => run'[q] = run[q] /\ run[q].at # "locked"
  BY <1>1 DEF IInv, RunTypes, Locks
<1>3. \A t \in Syncers : ~tx[t].locked /\ ~tx[t].back
  BY <1>1 DEF IInv, Locks
<1>4. TxTypes' /\ RunTypes' /\ StripeTypes'
  BY <1>1, <1>2, NoRunType DEF IInv, TxTypes, Transaction, RunTypes, StripeTypes, stripe
<1>5. OrgTypes'
  BY <1>1, WindowAssumption DEF IInv, OrgTypes, account
<1>6. Locks'
  BY <1>1, <1>2, <1>3, NoRunType DEF IInv, Locks
<1>7. Decisions'
  BY <1>1, <1>3 DEF Decisions
<1>8. (ReactivatesOnPayment => NothingPaid)'
  <2>1. run[r].outcome = "deactivate" => NothingPaid
    BY <1>1 DEF IInv, RunOK
  <2>2. NothingPaid' <=> NothingPaid
    BY <1>1 DEF NothingPaid
  <2>3. UNCHANGED account => (ReactivatesOnPayment' <=> ReactivatesOnPayment)
    BY DEF account, ReactivatesOnPayment
  <2>. QED  BY <1>1, <2>1, <2>2, <2>3 DEF IInv
<1>9. Notices' /\ \A q \in Runs : run[q].at = "candidate" => schedule' = NoSchedule \/ schedule'.left >= 0
  <2>1. CASE run[r].outcome = "keep" /\ UNCHANGED <<account, notices>>
    BY <2>1, NoticesKept DEF IInv, notices, RunOK
  <2>2. CASE Unscheduled
    BY <2>2, UnscheduledNotices
  <2>3. CASE run[r].outcome = "remind"
    BY <2>3, RemindKeepsNotices
  <2>. QED  BY <1>1, <2>1, <2>2, <2>3
<1>10. \A q \in Runs : RunOK(q)'
  BY <1>2, <1>9, NoRunType DEF RunOK
<1>. QED  BY <1>4, <1>5, <1>6, <1>7, <1>8, <1>9, <1>10 DEF IInv

(* Midnight.                                                               *)
LEMMA TickKeepsNotices == ASSUME Notices, Tick PROVE Notices'
<1>1. /\ schedule' = IF schedule = NoSchedule \/ schedule.left < 0 THEN schedule
                     ELSE [schedule EXCEPT !.left = @ - 1]
      /\ since' = (IF told = <<>> \/ since > Last(told) THEN since ELSE since + 1)
      /\ told' = told
  BY DEF Tick
<1>2. CASE schedule = NoSchedule
  BY <1>1, <1>2 DEF Notices
<1>3. CASE schedule # NoSchedule
  <2>1. PICK k \in DOMAIN NoticeDays : schedule \in Schedule /\ Reminded(k)
    BY <1>3 DEF Notices
  <2>2. k \in Nat /\ k >= 1 /\ NoticeDays[k] \in Nat
    BY NoticesAssumption
  <2>3. told # <<>> /\ Last(told) = NoticeDays[k]
    BY <2>1, <2>2 DEF Reminded, Last
  <2>4. schedule.left = NoticeDays[k] - since /\ since \in 0..(NoticeDays[k] + 1)
    BY <2>1 DEF Reminded
  <2>5. CASE schedule.left < 0
    <3>1. schedule' = schedule /\ since' = since
      BY <1>1, <2>2, <2>3, <2>4, <2>5
    <3>. QED  BY <1>1, <3>1, NoticesKept
  <2>6. CASE ~(schedule.left < 0)
    <3>1. /\ schedule' = [left |-> schedule.left - 1, last |-> schedule.last]
          /\ since' = since + 1 /\ since' \in 0..(NoticeDays[k] + 1)
      BY <1>1, <1>3, <2>1, <2>2, <2>3, <2>4, <2>6 DEF Schedule
    <3>2. schedule' \in Schedule /\ schedule' # NoSchedule
      BY <2>1, <3>1 DEF Schedule, NoSchedule
    <3>3. Reminded(k)'
      BY <1>1, <2>1, <2>2, <2>4, <3>1 DEF Reminded
    <3>. QED  BY <3>2, <3>3 DEF Notices, Schedule
  <2>. QED  BY <2>5, <2>6
<1>. QED  BY <1>2, <1>3

LEMMA TickStep == ASSUME IInv, Tick PROVE IInv'
<1>1. /\ \A r \in Runs : run[r] = NoRun
      /\ window' = (IF window < 0 THEN window ELSE window - 1)
      /\ UNCHANGED <<stripe, local, org, owned, manual, tx, run>>
  BY DEF Tick
<1>2. window \in -1..Window /\ Window \in Nat
  BY WindowAssumption DEF IInv, OrgTypes
<1>3. window' \in -1..Window /\ (window' >= 0 => window >= 0)
  BY <1>1, <1>2
<1>4. StripeTypes' /\ OrgTypes' /\ TxTypes' /\ RunTypes' /\ Locks'
  BY <1>1, <1>3 DEF IInv, StripeTypes, stripe, OrgTypes, TxTypes, Transaction, RunTypes, Locks
<1>5. ReactivatesOnPayment' => ReactivatesOnPayment
  BY <1>1, <1>3 DEF ReactivatesOnPayment
<1>6. Decisions' /\ (ReactivatesOnPayment => NothingPaid)'
  BY <1>1, <1>5 DEF IInv, Decisions, NothingPaid
<1>7. Notices'
  BY TickKeepsNotices DEF IInv
<1>8. \A r \in Runs : RunOK(r)'
  BY <1>1, NoRunType DEF RunOK
<1>. QED  BY <1>4, <1>6, <1>7, <1>8 DEF IInv

(* A step of an administrator that changes the organization, while nobody  *)
(* has it locked.                                                          *)
LEMMA OrgStep ==
    ASSUME IInv, OrgFree, UNCHANGED <<stripe, local, manual, window, tx, run>>,
           org' \in {"active", "removed"}, owned' \in BOOLEAN,
           Unscheduled \/ UNCHANGED notices
    PROVE  IInv'
<1>1. StripeTypes' /\ OrgTypes' /\ TxTypes' /\ RunTypes' /\ Locks'
  BY DEF IInv, StripeTypes, stripe, OrgTypes, TxTypes, Transaction, RunTypes, Locks
<1>2. Decisions' /\ (ReactivatesOnPayment => NothingPaid)'
  BY DEF Decisions, OrgFree, ReactivatesOnPayment
<1>3. Notices' /\ (schedule' = NoSchedule \/ UNCHANGED schedule)
  BY NoticesKept, UnscheduledNotices DEF IInv, notices
<1>4. \A r \in Runs : RunOK(r)'
  BY <1>3 DEF IInv, RunOK, OrgFree
<1>. QED  BY <1>1, <1>2, <1>3, <1>4 DEF IInv

LEMMA LeaveStep ==
    ASSUME IInv, UNCHANGED <<stripe, local, org, manual, window, notices, tx, run>>, owned' = FALSE
    PROVE  IInv'
<1>1. StripeTypes' /\ OrgTypes' /\ TxTypes' /\ RunTypes' /\ Locks'
  BY DEF IInv, StripeTypes, stripe, OrgTypes, TxTypes, Transaction, RunTypes, Locks
<1>2. Decisions' /\ (ReactivatesOnPayment => NothingPaid)'
  BY DEF IInv, Decisions, ReactivatesOnPayment
<1>3. Notices'
  BY NoticesKept DEF IInv, notices
<1>4. \A r \in Runs : RunOK(r)'
  BY RunsKept DEF IInv, notices, NothingPaid
<1>. QED  BY <1>1, <1>2, <1>3, <1>4 DEF IInv

LEMMA AdminSteps == ASSUME IInv, RemovalCommit \/ ReactivateOrganization PROVE IInv'
<1>1. CASE RemovalCommit
  <2>1. CASE removal = "deactivate"
    BY <1>1, <2>1, OrgStep DEF RemovalCommit
  <2>2. CASE removal # "deactivate"
    BY <1>1, <2>2, LeaveStep DEF RemovalCommit
  <2>. QED  BY <2>1, <2>2
<1>2. CASE ReactivateOrganization
  BY <1>2, OrgStep DEF ReactivateOrganization, IInv, OrgTypes
<1>. QED  BY <1>1, <1>2

LEMMA StutterStep == ASSUME IInv, UNCHANGED vars PROVE IInv'
  BY StripeStep DEF vars, notices, IInv, StripeTypes, OrgTypes

LEMMA NextStep == ASSUME IInv, [Next]_vars PROVE IInv'
<1>1. CASE \E t \in Syncers : Sync(t) \/ Ends(t)
  BY <1>1, SyncStep, CommitStep, RollbackStep DEF Ends
<1>2. CASE \E r \in Runs : RunStart(r) \/ RunLock(r) \/ RunCommit(r) \/ RunRollback(r)
  BY <1>2, RunStartStep, RunLockStep, RunCommitStep, RunRollbackStep
<1>3. CASE \/ \E s \in Subs : Checkout(s) \/ Renewal(s)
           \/ \E on \in BOOLEAN : ManualActivation(on)
           \/ RemoveOwner \/ RemovalRollback
  BY <1>3, StripeSteps
<1>4. CASE \/ \E h \in Hooks, s \in Subs : SubscriptionEvent(h, s) \/ CheckoutCompleted(h, s)
           \/ ReconcileStart
  BY <1>4, BeginSteps
<1>. QED  BY <1>1, <1>2, <1>3, <1>4, TickStep, AdminSteps, StutterStep DEF Next

\* Every state the program reaches, with any subscriptions, workers, notices and window, satisfies
\* the inductive invariant: who has the organization locked has decided on what still holds.
THEOREM Invariance == Spec => []IInv
  BY InitInv, NextStep, PTL DEF Spec

\* The statuses and dates stored by billing.py and the nightly task are those the code knows; a
\* deadline is at most a day overdue when it is acted on.
THEOREM TypeCorrect == Spec => []TypeOK
<1>1. IInv => TypeOK
  <2>1. ASSUME Notices, schedule # NoSchedule
        PROVE  schedule \in [left : -1..NoticeDays[1], last : ToSet(NoticeDays)]
    <3>1. PICK k \in DOMAIN NoticeDays : schedule \in Schedule /\ Reminded(k)
      BY <2>1 DEF Notices
    <3>2. NoticeDays[k] \in 0..NoticeDays[1]
      <4>1. NoticeDays[k] \in ToSet(NoticeDays)
        BY DEF ToSet
      <4>. QED  BY <4>1, FirstNotice
    <3>3. schedule.left \in -1..NoticeDays[1]
      BY <3>1, <3>2, FirstNotice DEF Reminded
    <3>. QED  BY <3>1, <3>3 DEF Schedule
  <2>. QED  BY <2>1 DEF IInv, StripeTypes, OrgTypes, Stored, TypeOK
<1>. QED  BY <1>1, Invariance, PTL

\* reactivate_after_payment and the nightly run never miss each other: an organization deactivated
\* for want of a paid seat that has one in time is active.
THEOREM Paid == Spec => []PaidIsActive
<1>1. IInv => PaidIsActive
  BY DEF IInv, PaidIsActive, ReactivatesOnPayment, NothingPaid
<1>. QED  BY <1>1, Invariance, PTL

(* Which steps change an organization's state, and how.                    *)
LEMMA OrgChanges ==
    ASSUME IInv, [Next]_vars, org' # org
    PROVE  \/ org' = "active" /\ \E t \in Syncers : Commit(t) /\ tx[t].back
           \/ org' = "unpaid" /\ \E r \in Runs : RunCommit(r) /\ run[r].outcome = "deactivate"
           \/ org' = "removed"
           \/ ReactivateOrganization
<1>1. ASSUME UNCHANGED account PROVE FALSE
  BY <1>1 DEF account
<1>2. CASE \E t \in Syncers : Sync(t) \/ Ends(t)
  BY <1>1, <1>2 DEF Sync, Ends, Write, Overtaken, ReactivateAfterPayment, Commit, Rollback
<1>3. CASE \E r \in Runs : RunStart(r) \/ RunLock(r) \/ RunCommit(r) \/ RunRollback(r)
  <2>1. PICK r \in Runs : RunCommit(r)
    BY <1>1, <1>3 DEF RunStart, RunLock, RunRollback
  <2>2. CASE run[r].outcome = "deactivate"
    BY <2>1, <2>2 DEF RunCommit
  <2>3. CASE run[r].outcome \in {"keep", "clear", "remind"}
    BY <1>1, <2>1, <2>3 DEF RunCommit
  <2>4. run[r].outcome \in {"keep", "clear", "remind", "deactivate"}
    BY <2>1 DEF RunCommit, IInv, RunTypes, NightlyRun, RunOK
  <2>. QED  BY <2>2, <2>3, <2>4
<1>4. CASE \/ \E s \in Subs : Checkout(s) \/ Renewal(s)
           \/ \E h \in Hooks, s \in Subs : SubscriptionEvent(h, s) \/ CheckoutCompleted(h, s)
           \/ ReconcileStart
  BY <1>1, <1>4 DEF Checkout, Renewal, Stripe, SubscriptionEvent, CheckoutCompleted, ReconcileStart, Begin
<1>5. CASE Tick \/ \E on \in BOOLEAN : ManualActivation(on)
  BY <1>5 DEF Tick, ManualActivation
<1>6. CASE RemoveOwner \/ RemovalCommit \/ RemovalRollback
  BY <1>1, <1>6 DEF RemoveOwner, RemovalCommit, RemovalRollback
<1>7. CASE UNCHANGED vars
  BY <1>1, <1>7 DEF vars
<1>. QED  BY <1>2, <1>3, <1>4, <1>5, <1>6, <1>7 DEF Next

\* deactivate_unpaid_organization deactivates only after all of DEACTIVATION_NOTICE_DAYS were sent
\* in their order, and the last of them has run out.
THEOREM Warned == Spec => DeactivatedAfterNotices
<1>. DEFINE P == org = "active" /\ org' = "unpaid" => told = NoticeDays /\ since > Last(NoticeDays)
<1>1. ASSUME IInv, [Next]_vars, org = "active", org' = "unpaid"
      PROVE  told = NoticeDays /\ since > Last(NoticeDays)
  <2>1. PICK r \in Runs : RunCommit(r) /\ run[r].outcome = "deactivate"
    BY <1>1, OrgChanges DEF ReactivateOrganization
  <2>2. schedule # NoSchedule /\ Due = {} /\ schedule.left < 0
    BY <1>1, <2>1 DEF IInv, RunOK, RunCommit
  <2>3. PICK k \in DOMAIN NoticeDays : schedule \in Schedule /\ Reminded(k)
    BY <1>1, <2>2 DEF IInv, Notices
  <2>4. k = Len(NoticeDays)
    BY <2>2, <2>3, NextReminder DEF Reminded
  <2>5. NoticeDays \in Seq(Nat) /\ k \in Nat /\ NoticeDays[k] \in Nat
    BY <2>4, NoticesAssumption
  <2>6. told = NoticeDays
    <3>1. /\ told \in Seq(Nat) /\ Len(told) = Len(NoticeDays)
          /\ \A i \in 1..Len(told) : told[i] = NoticeDays[i]
      BY <2>3, <2>4 DEF Reminded
    <3>. QED  BY ONLY <2>5, <3>1, SeqEqual
  <2>7. since > NoticeDays[k]
    BY <2>2, <2>3, <2>5 DEF Reminded
  <2>. QED  BY <2>4, <2>6, <2>7 DEF Last
<1>2. IInv /\ [Next]_vars => P \/ UNCHANGED vars
  BY <1>1
<1>3. [][P]_vars <=> DeactivatedAfterNotices
  BY DEF DeactivatedAfterNotices
<1>. QED  BY <1>2, <1>3, Invariance, PTL DEF Spec

\* However often the nightly task is delivered or fails, its owners get no second reminder on the
\* day of the last one.
THEOREM RemindedOnce == Spec => OneReminderADay
<1>. DEFINE P == told' # told /\ told' # <<>> => told = <<>> \/ since >= 1
<1>1. ASSUME IInv, [Next]_vars, told' # told, told' # <<>>
      PROVE  told = <<>> \/ since >= 1
  <2>1. ~UNCHANGED notices /\ ~Unscheduled
    BY <1>1 DEF notices, Unscheduled
  <2>2. PICK r \in Runs : RunCommit(r)
    <3>1. ~\E t \in Syncers : Sync(t) \/ Ends(t)
      BY <2>1 DEF Sync, Ends, Write, Overtaken, ReactivateAfterPayment, Commit, Rollback
    <3>2. ~\/ \E s \in Subs : Checkout(s) \/ Renewal(s)
           \/ \E h \in Hooks, s \in Subs : SubscriptionEvent(h, s) \/ CheckoutCompleted(h, s)
           \/ ReconcileStart
      BY <2>1 DEF Checkout, Renewal, Stripe, SubscriptionEvent, CheckoutCompleted, ReconcileStart, Begin
    <3>3. ~(Tick \/ UNCHANGED vars)
      BY <1>1 DEF Tick, vars
    <3>4. ~(\/ \E on \in BOOLEAN : ManualActivation(on)
            \/ RemoveOwner \/ RemovalCommit \/ RemovalRollback \/ ReactivateOrganization)
      BY <2>1 DEF ManualActivation, RemoveOwner, RemovalCommit, RemovalRollback, ReactivateOrganization
    <3>5. ASSUME NEW r \in Runs, RunStart(r) \/ RunLock(r) \/ RunRollback(r) PROVE FALSE
      BY <2>1, <3>5 DEF RunStart, RunLock, RunRollback
    <3>. QED  BY <1>1, <3>1, <3>2, <3>3, <3>4, <3>5 DEF Next
  <2>3. run[r].at = "locked" /\ run[r].outcome = "remind"
    <3>1. run[r].at = "locked" /\ run[r].outcome \in {"keep", "clear", "remind", "deactivate"}
      BY <1>1, <2>2 DEF RunCommit, IInv, RunTypes, NightlyRun, RunOK
    <3>. QED  BY <2>1, <2>2, <3>1 DEF RunCommit
  <2>4. CASE schedule = NoSchedule
    BY <1>1, <2>4 DEF IInv, Notices
  <2>5. CASE schedule # NoSchedule
    <3>1. PICK k \in DOMAIN NoticeDays : schedule \in Schedule /\ Reminded(k)
      BY <1>1, <2>5 DEF IInv, Notices
    <3>2. PICK n \in ToSet(NoticeDays) : schedule.left <= n /\ n < schedule.last
      BY <1>1, <2>3, <2>5 DEF IInv, RunOK, Due
    <3>3. n \in Nat /\ NoticeDays[k] \in Nat
      BY <3>2, FirstNotice, NoticesAssumption
    <3>. QED  BY <3>1, <3>2, <3>3 DEF Reminded
  <2>. QED  BY <2>4, <2>5
<1>2. IInv /\ [Next]_vars => P \/ UNCHANGED vars
  BY <1>1
<1>3. [][P]_vars <=> OneReminderADay
  BY DEF OneReminderADay
<1>. QED  BY <1>2, <1>3, Invariance, PTL DEF Spec

\* deactivate_organization_for_owner_removal is final: neither a payment that was under way nor a
\* nightly run changes the organization, only an administrator.
THEOREM RemovalsAreFinal == Spec => RemovedStays
<1>. DEFINE P == org = "removed" => org' = "removed" \/ ReactivateOrganization
<1>1. ASSUME IInv, [Next]_vars, org = "removed", org' # "removed"
      PROVE  ReactivateOrganization
  <2>1. ASSUME NEW t \in Syncers, tx[t].back PROVE FALSE
    BY <1>1, <2>1 DEF IInv, Locks, Decisions
  <2>2. ASSUME NEW r \in Runs, RunCommit(r), run[r].outcome = "deactivate" PROVE FALSE
    BY <1>1, <2>2 DEF IInv, RunOK, RunCommit
  <2>. QED  BY <1>1, <2>1, <2>2, OrgChanges
<1>2. IInv /\ [Next]_vars => P \/ UNCHANGED vars
  BY <1>1
<1>3. [][P]_vars <=> RemovedStays
  BY DEF RemovedStays
<1>. QED  BY <1>2, <1>3, Invariance, PTL DEF Spec
=============================================================================
