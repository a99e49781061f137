------------------------------ MODULE Billing ------------------------------
(***************************************************************************)
(* The billing of one Company organization: its subscriptions at Stripe,   *)
(* the statuses stored for them, the nightly run that warns the owners of  *)
(* an organization without a paid seat and at last deactivates it, and the *)
(* payment that brings it back.                                            *)
(*                                                                         *)
(* Stripe delivers events late, again, in another order, or never.         *)
(* Webhooks and the reconciliation change a status only if it is still     *)
(* what they loaded, and lock the organization before they reactivate it;  *)
(* the nightly run locks it until its commit.  Transactions end one after  *)
(* another; what one wrote is seen by the others from its commit on.       *)
(*                                                                         *)
(* Dates are distances from today, which Tick shortens.  One statement of  *)
(* the handlers waits for the organization's row, the others for the rows  *)
(* of subscriptions; e-mails, usage records and prices are left out, and   *)
(* so is an owner whom administrators add to an organization without one   *)
(* (add_organization_role).                                                *)
(***************************************************************************)
EXTENDS Integers, Sequences, FiniteSets, SequencesExt

CONSTANTS
    Subs,         \* subscriptions
    Hooks,        \* web workers that handle Stripe's webhooks
    Reconciler,   \* the Celery worker of reconcile_stripe_status
    Runs,         \* Celery workers of schedule_unpaid_organization_deactivations
    NoticeDays,   \* DEACTIVATION_NOTICE_DAYS
    Window,       \* REACTIVATE_BY_PAYING_WITHIN, in days
    MaxDowngrades \* RECONCILE_MAX_DOWNGRADES

ASSUME NoticesAssumption ==
    /\ NoticeDays \in Seq(Nat) /\ NoticeDays # <<>>
    /\ \A i, j \in DOMAIN NoticeDays : i < j => NoticeDays[i] > NoticeDays[j]

ASSUME WindowAssumption == Window \in Nat

VARIABLES
    remote,   \* status of each subscription at Stripe
    emitted,  \* the statuses Stripe has sent an event of
    local,    \* stored status, "none" for a subscription not stored
    org,      \* "active", or why it is not: "unpaid" or "removed"
    owned,    \* whether it has owners
    manual,   \* whether a manual activation is in force
    window,   \* days left in which paying reactivates it
    schedule, \* its OrganizationDeactivationSchedule
    tx,       \* transactions of the webhooks and of the reconciliation
    run,      \* transactions of the nightly runs
    removal,  \* a sole owner being removed: "no", or what the view read
    told,     \* history: reminders since the schedule began
    since     \* history: days since the last of them

vars == <<remote, emitted, local, org, owned, manual, window, schedule,
          tx, run, removal, told, since>>
stripe == <<remote, emitted>>
account == <<org, owned, manual, window>>
notices == <<schedule, told, since>>

Syncers == Hooks \cup {Reconciler}
Statuses == {"active", "past_due", "canceled"}   \* trialing is active, the others are past_due
NoSchedule == <<>>
NoTx == [todo |-> {}, wrote |-> [s \in Subs |-> "none"], pays |-> FALSE, locked |-> FALSE, back |-> FALSE]
NoRun == [at |-> "idle", outcome |-> "none", days |-> 0]

HasPaidSeat == manual \/ \E s \in Subs : local[s] = "active"
LacksPaidSeat == org = "active" /\ ~HasPaidSeat
OrgFree == (\A t \in Syncers : ~tx[t].locked) /\ (\A r \in Runs : run[r].at # "locked")

\* Variant: any deactivated organization comes back.
ReactivatesOnPayment_AnyReason == org # "active" /\ window >= 0
ReactivatesOnPayment == org = "unpaid" /\ window >= 0 /\ owned
-----------------------------------------------------------------------------
(* Stripe.  A checkout session may be completed long after it was opened.  *)

Stripe(s, from, to) ==
    /\ remote[s] \in from /\ to # remote[s]
    /\ remote' = [remote EXCEPT ![s] = to]
    /\ emitted' = [emitted EXCEPT ![s] = @ \cup {to}]
    /\ UNCHANGED <<local, account, notices, tx, run, removal>>

Checkout(s) == Stripe(s, {"none"}, "active")
Renewal(s) == \E to \in Statuses : Stripe(s, {"active", "past_due"}, to)
-----------------------------------------------------------------------------
(* Webhooks and reconciliation.                                            *)

Begin(t, todo) ==
    /\ tx[t] = NoTx /\ todo # {}
    /\ tx' = [tx EXCEPT ![t].todo = todo]
    /\ UNCHANGED <<stripe, local, account, notices, run, removal>>

\* customer.subscription.updated and .deleted: sync_subscription_status loads
\* the status, if the subscription is stored.
SubscriptionEvent(h, s) ==
    \E to \in emitted[s] :
        /\ local[s] \notin {"none", to}
        /\ Begin(h, {[sub |-> s, seen |-> {local[s]}, to |-> to]})

\* checkout.session.completed: adds the subscription, or activates it
\* whatever its status.
CheckoutCompleted(h, s) ==
    /\ emitted[s] # {}
    /\ Begin(h, {[sub |-> s, to |-> "active",
                  seen |-> IF local[s] = "none" THEN {"none"} ELSE Statuses]})

\* Variant: only statuses that are paid are compared.
ToReconcile_PaidOnly == {s \in Subs : local[s] = "active" /\ local[s] # remote[s]}
ToReconcile == {s \in Subs : local[s] \notin {"none", "canceled"} /\ local[s] # remote[s]}
Downgrades == {s \in ToReconcile : local[s] = "active"}
Held == IF Cardinality(Downgrades) > MaxDowngrades THEN Downgrades ELSE {}

ReconcileStart ==
    Begin(Reconciler, {[sub |-> s, seen |-> {local[s]}, to |-> remote[s]] : s \in ToReconcile \ Held})

RowFree(t, s) == \A u \in Syncers \ {t} : tx[u].wrote[s] = "none"

StillAsLoaded(x) == local[x.sub] \in x.seen

Write(t) ==
    \E x \in tx[t].todo :
        /\ ~tx[t].pays /\ RowFree(t, x.sub) /\ StillAsLoaded(x)
        /\ tx' = [tx EXCEPT ![t].todo = @ \ {x},
                            ![t].wrote[x.sub] = x.to,
                            ![t].pays = x.to = "active"]
        /\ UNCHANGED <<stripe, local, account, notices, run, removal>>

\* Another transaction changed the status first, or stored the subscription.
Overtaken(t) ==
    \E x \in tx[t].todo :
        /\ ~tx[t].pays /\ RowFree(t, x.sub) /\ ~StillAsLoaded(x)
        /\ tx' = [tx EXCEPT ![t].todo = @ \ {x}]
        /\ UNCHANGED <<stripe, local, account, notices, run, removal>>

\* reactivate_after_payment: lock and reload the organization, and decide.
\* Variant: without the lock.
ReactivateAfterPayment_Unlocked(t) ==
    /\ tx[t].pays
    /\ tx' = [tx EXCEPT ![t].pays = FALSE, ![t].back = ReactivatesOnPayment]
    /\ UNCHANGED <<stripe, local, account, notices, run, removal>>

ReactivateAfterPayment(t) ==
    /\ tx[t].pays /\ (tx[t].locked \/ OrgFree)
    /\ tx' = [tx EXCEPT ![t].pays = FALSE, ![t].locked = TRUE,
                        ![t].back = @ \/ ReactivatesOnPayment]
    /\ UNCHANGED <<stripe, local, account, notices, run, removal>>

Ready(t) == tx[t] # NoTx /\ tx[t].todo = {} /\ ~tx[t].pays

Commit(t) ==
    /\ Ready(t)
    /\ local' = [s \in Subs |-> IF tx[t].wrote[s] = "none" THEN local[s] ELSE tx[t].wrote[s]]
    /\ org' = IF tx[t].back THEN "active" ELSE org
    /\ tx' = [tx EXCEPT ![t] = NoTx]
    /\ UNCHANGED <<stripe, owned, manual, window, notices, run, removal>>

\* The reconciliation may hold the organization and want the row of a
\* webhook that waits for the organization.
WaitsFor(t, u) ==
    \/ tx[t].pays /\ ~tx[t].locked /\ tx[u].locked
    \/ ~tx[t].pays /\ \E x \in tx[t].todo : tx[u].wrote[x.sub] # "none"

Deadlocked(t) == \E u \in Syncers \ {t} : WaitsFor(t, u) /\ WaitsFor(u, t)

\* An error, or PostgreSQL's choice in a deadlock.
Rollback(t) ==
    /\ Deadlocked(t) \/ Ready(t)
    /\ tx' = [tx EXCEPT ![t] = NoTx]
    /\ UNCHANGED <<stripe, local, account, notices, run, removal>>
-----------------------------------------------------------------------------
(* The nightly run.                                                        *)

\* Scheduled organizations are loaded under the lock; of candidates the
\* session keeps what it read before.
RunStart(r) ==
    /\ run[r] = NoRun
    /\ \/ schedule # NoSchedule /\ run' = [run EXCEPT ![r].at = "scheduled"]
       \/ schedule = NoSchedule /\ LacksPaidSeat /\ run' = [run EXCEPT ![r].at = "candidate"]
    /\ UNCHANGED <<stripe, local, account, notices, tx, removal>>

\* Variant: the last reminder may be repeated.
Due_Again == {n \in ToSet(NoticeDays) : schedule.left <= n /\ n <= schedule.last}
Due == {n \in ToSet(NoticeDays) : schedule.left <= n /\ n < schedule.last}
Reminder == IF Cardinality(Due) = 1 THEN Max(Due) ELSE NoticeDays[1]
PaidOnStripe == \E s \in Subs : remote[s] = "active"

Outcome(o, n) == [outcome |-> o, days |-> n]

\* Variant: the schedule of an organization that pays is kept.
PaidOutcome_Keep == Outcome("keep", 0)
PaidOutcome == Outcome("clear", 0)

\* What deactivate_unpaid_organization may do.  Owners without a verified
\* address cannot be warned, which only matters if there are projects; the
\* cap on deactivations or an error of Stripe may put the last step off.
Outcomes(unpaid) ==
    IF ~unpaid THEN {PaidOutcome}
    ELSE (IF owned THEN {} ELSE {Outcome("clear", 0)})
         \cup (IF schedule = NoSchedule THEN {Outcome("remind", NoticeDays[1])}
               ELSE IF Due # {} THEN {Outcome("remind", Reminder)}
               ELSE {Outcome("keep", 0)}
                    \cup (IF schedule.left >= 0 \/ PaidOnStripe THEN {}
                          ELSE {Outcome("deactivate", 0)}))

RunLock(r) ==
    /\ run[r].at \in {"scheduled", "candidate"} /\ OrgFree
    /\ \E o \in Outcomes(run[r].at = "candidate" \/ LacksPaidSeat) :
          run' = [run EXCEPT ![r] = [at |-> "locked", outcome |-> o.outcome, days |-> o.days]]
    /\ UNCHANGED <<stripe, local, account, notices, tx, removal>>

\* Variant: a late reminder leaves the deadline where it was.
Rescheduled_SameDeadline(n) ==
    [left |-> IF schedule = NoSchedule THEN n ELSE schedule.left, last |-> n]
Rescheduled(n) == [left |-> n, last |-> n]

Unscheduled == schedule' = NoSchedule /\ told' = <<>> /\ since' = 0

RunCommit(r) ==
    /\ run[r].at = "locked"
    /\ CASE run[r].outcome = "keep" -> UNCHANGED <<account, notices>>
         [] run[r].outcome = "clear" -> Unscheduled /\ UNCHANGED account
         [] run[r].outcome = "remind" ->
              /\ schedule' = Rescheduled(run[r].days)
              /\ told' = IF schedule = NoSchedule \/ Cardinality(Due) # 1 THEN <<run[r].days>>
                         ELSE Append(told, run[r].days)
              /\ since' = 0
              /\ UNCHANGED account
         [] run[r].outcome = "deactivate" ->
              /\ Unscheduled
              /\ org' = "unpaid" /\ window' = Window
              /\ UNCHANGED <<owned, manual>>
    /\ run' = [run EXCEPT ![r] = NoRun]
    /\ UNCHANGED <<stripe, local, tx, removal>>

\* The run fails, here or at another organization.
RunRollback(r) ==
    /\ run[r].at = "locked"
    /\ run' = [run EXCEPT ![r] = NoRun]
    /\ UNCHANGED <<stripe, local, account, notices, tx, removal>>

\* Midnight.  No run lasts over it.
Tick ==
    /\ \A r \in Runs : run[r] = NoRun
    /\ schedule' = IF schedule = NoSchedule \/ schedule.left < 0 THEN schedule
                   ELSE [schedule EXCEPT !.left = @ - 1]
    /\ since' = IF told = <<>> \/ since > Last(told) THEN since ELSE since + 1
    /\ window' = IF window < 0 THEN window ELSE window - 1
    /\ UNCHANGED <<stripe, local, org, owned, manual, told, tx, run, removal>>
-----------------------------------------------------------------------------
(* Administrators.                                                         *)

ManualActivation(on) ==
    /\ manual # on
    /\ manual' = on
    /\ UNCHANGED <<stripe, local, org, owned, window, notices, tx, run, removal>>

Cancelable == {s \in Subs : local[s] \notin {"none", "canceled"}}

\* deactivate_organization_for_owner_removal cancels at Stripe, which refuses
\* what is canceled already; its writes follow with the commit.
RemoveOwner ==
    /\ removal = "no" /\ owned
    /\ \A s \in Cancelable : remote[s] # "canceled"
    /\ remote' = [s \in Subs |-> IF s \in Cancelable THEN "canceled" ELSE remote[s]]
    /\ emitted' = [s \in Subs |-> IF s \in Cancelable THEN emitted[s] \cup {"canceled"} ELSE emitted[s]]
    /\ removal' = IF org = "active" THEN "deactivate" ELSE "leave"
    /\ UNCHANGED <<local, account, notices, tx, run>>

RemovalCommit ==
    /\ removal = "leave" \/ (removal = "deactivate" /\ OrgFree)
    /\ org' = IF removal = "deactivate" THEN "removed" ELSE org
    /\ owned' = FALSE
    /\ removal' = "no"
    /\ UNCHANGED <<stripe, local, manual, window, notices, tx, run>>

RemovalRollback ==
    /\ removal # "no"
    /\ removal' = "no"
    /\ UNCHANGED <<stripe, local, account, notices, tx, run>>

ReactivateOrganization ==
    /\ org # "active" /\ OrgFree
    /\ org' = "active"
    /\ Unscheduled
    /\ UNCHANGED <<stripe, local, owned, manual, window, tx, run, removal>>
-----------------------------------------------------------------------------
Init ==
    /\ remote = [s \in Subs |-> "none"]
    /\ emitted = [s \in Subs |-> {}]
    /\ local = [s \in Subs |-> "none"]
    /\ org = "active" /\ owned = TRUE /\ manual = FALSE /\ window = -1
    /\ schedule = NoSchedule /\ told = <<>> /\ since = 0
    /\ tx = [t \in Syncers |-> NoTx]
    /\ run = [r \in Runs |-> NoRun]
    /\ removal = "no"

Ends(t) == Commit(t) \/ Rollback(t)
Sync(t) == Write(t) \/ Overtaken(t) \/ ReactivateAfterPayment(t)

Next ==
    \/ \E s \in Subs : Checkout(s) \/ Renewal(s)
    \/ \E h \in Hooks, s \in Subs : SubscriptionEvent(h, s) \/ CheckoutCompleted(h, s)
    \/ ReconcileStart
    \/ \E t \in Syncers : Sync(t) \/ Ends(t)
    \/ \E r \in Runs : RunStart(r) \/ RunLock(r) \/ RunCommit(r) \/ RunRollback(r)
    \/ Tick
    \/ \E on \in BOOLEAN : ManualActivation(on)
    \/ RemoveOwner \/ RemovalCommit \/ RemovalRollback
    \/ ReactivateOrganization

Spec == Init /\ [][Next]_vars

\* The tasks are started every night and do not fail for ever; requests end.
Fairness ==
    /\ WF_vars(ReconcileStart) /\ SF_vars(Commit(Reconciler))
    /\ \A t \in Syncers : WF_vars(Sync(t) \/ Ends(t))
    /\ \A t \in Syncers : SF_vars(ReactivateAfterPayment(t))
    /\ \A r \in Runs : WF_vars(RunStart(r)) /\ SF_vars(RunLock(r)) /\ SF_vars(RunCommit(r))

FairSpec == Spec /\ Fairness
-----------------------------------------------------------------------------
(* Statuses, dates and notices are ones the code knows.                    *)
TypeOK ==
    /\ remote \in [Subs -> Statuses \cup {"none"}]
    /\ local \in [Subs -> Statuses \cup {"none"}]
    /\ org \in {"active", "unpaid", "removed"}
    /\ owned \in BOOLEAN /\ manual \in BOOLEAN
    /\ window \in -1..Window
    /\ schedule = NoSchedule
       \/ schedule \in [left : -1..NoticeDays[1], last : ToSet(NoticeDays)]

(* Whoever has paid for a seat in time is not kept deactivated for want of *)
(* one, whatever nightly run was at work when Stripe's event came.  Where  *)
(* the event came while there was no owner, and administrators add one     *)
(* later, nothing reactivates the organization before the next event; that *)
(* is outside of the model, in which `owned' only becomes false.           *)
PaidIsActive ==
    org = "unpaid" /\ owned /\ window >= 0 => \A s \in Subs : local[s] # "active"

(* The owners were given every notice, and each of its days in full.       *)
DeactivatedAfterNotices ==
    [][org = "active" /\ org' = "unpaid" => told = NoticeDays /\ since > Last(NoticeDays)]_vars

(* However often the nightly run is delivered, owners are reminded once.   *)
OneReminderADay ==
    [][told' # told /\ told' # <<>> => told = <<>> \/ since >= 1]_vars

(* An organization whose owner was removed does not come back by itself.   *)
RemovedStays ==
    [][org = "removed" => org' = "removed" \/ ReactivateOrganization]_vars

(* A lost event is made up for by the reconciliation, once Stripe is at    *)
(* rest, unless it takes too many subscriptions off a paid status.         *)
StatusesConverge ==
    \A s \in Subs, v \in Statuses :
        <>[](/\ remote[s] = v /\ s \notin Held
             /\ local[s] # "none" /\ \A h \in Hooks : tx[h] = NoTx)
        => <>[](local[s] = v)

(* An organization that has a paid seat for good has no deadline.          *)
DeadlinesAreCleared == <>[]HasPaidSeat => <>[](schedule = NoSchedule)
=============================================================================
