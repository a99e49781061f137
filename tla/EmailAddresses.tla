---------------------------- MODULE EmailAddresses ----------------------------
(***************************************************************************)
(* E-mail addresses of users: verifying them, and what the notifications   *)
(* of Amazon SES about the messages sent to them do to that.               *)
(*                                                                         *)
(* SNS delivers a notification at least once, in any order, until it gets  *)
(* an answer 200; the state machine of a message refuses, with an error,   *)
(* the ones it has no transition for.  A handler reads rows without a lock *)
(* and, when it commits, writes the columns it has changed: two of them    *)
(* may overwrite each other's.                                             *)
(*                                                                         *)
(* An element of Rows is one row of user_emails, with its address and      *)
(* user; an element of Messages a mail with the token that verifies a row. *)
(* Which address is primary, the administrators' form, other mail and the  *)
(* removal of old messages are left out.                                   *)
(***************************************************************************)
EXTENDS Integers, FiniteSets

CONSTANTS
    Rows,                \* rows of user_emails that may be added
    AddressOf,           \* row -> its address
    Messages,            \* messages that may be sent
    Workers,             \* requests that run at a time
    MaxTransientBounces  \* MAX_TRANSIENT_BOUNCES

ASSUME BouncesAssumption == MaxTransientBounces \in Nat
ASSUME MessagesAssumption == IsFiniteSet(Messages)

VARIABLES
    row,        \* the rows of user_emails
    msg,        \* the rows of ses_emails
    happened,   \* the notifications SES has had for each message
    recorded,   \* the ones in ses_events
    tx,         \* what each worker has read and is going to write
    overwritten \* history: messages whose status was written by a request that had read an older one

vars == <<row, msg, happened, recorded, tx, overwritten>>

Notifications == {"Delivery", "Bounce", "Transient", "Complaint"}
Reasons == {"none", "spam complaint", "hard bounce", "soft bounce", "domain status invalid"}
Absent == [state |-> "absent", verified |-> FALSE, reason |-> "none", bounces |-> 0]
Unsent == [status |-> "Unsent", missing |-> FALSE, to |-> "nobody"]
Idle == [does |-> "nothing"]
Live == {r \in Rows : row[r].state = "live"}
LiveAt(r) == {q \in Live : AddressOf[q] = AddressOf[r]}

\* What a session writes: the columns that it has changed since it loaded them.
Written(cur, old, new) == [c \in DOMAIN cur |-> IF new[c] # old[c] THEN new[c] ELSE cur[c]]
-----------------------------------------------------------------------------
(* EmailStatus: the notifications that a status has a transition for, and  *)
(* where they lead.                                                        *)

Transitions_SoftBouncedEnds == [
    Accepted    |-> [Delivery |-> "Delivered", Bounce |-> "Bounced", Transient |-> "SoftBounced"],
    Delivered   |-> [Delivery |-> "Delivered", Bounce |-> "Bounced", Transient |-> "Delivered",
                     Complaint |-> "Complained"],
    Bounced     |-> [Delivery |-> "Delivered"]]
Transitions == [
    Accepted    |-> [Delivery |-> "Delivered", Bounce |-> "Bounced", Transient |-> "SoftBounced"],
    SoftBounced |-> [Delivery |-> "Delivered"],
    Delivered   |-> [Delivery |-> "Delivered", Bounce |-> "Bounced", Transient |-> "Delivered",
                     Complaint |-> "Complained"],
    Bounced     |-> [Delivery |-> "Delivered"]]

HasTransition(status, kind) ==
    status \in DOMAIN Transitions /\ kind \in DOMAIN Transitions[status]

Unverified(e, why) == [e EXCEPT !.verified = FALSE, !.reason = why]
Reset(e) == [e EXCEPT !.bounces = 0]
Counted(e) ==
    LET c == [e EXCEPT !.bounces = @ + 1]
    IN  IF c.bounces > MaxTransientBounces THEN Unverified(c, "soft bounce") ELSE c

\* A message that was delivered has no use for another delivery or an out-of-office reply.
HasOutput(status, kind) == ~(status = "Delivered" /\ kind \in {"Delivery", "Transient"})

Output(kind, e) ==
    CASE kind = "Delivery"  -> Reset(e)
      [] kind = "Bounce"    -> Unverified(Reset(e), "hard bounce")
      [] kind = "Transient" -> Counted(e)
      [] kind = "Complaint" -> Unverified(e, "spam complaint")
-----------------------------------------------------------------------------
(* Users.                                                                  *)

\* An address is added once: user_emails.email is unique.  Variant: only a user's
\* own addresses are looked at.
AddEmail_ByUser(r) ==
    /\ row[r] = Absent
    /\ row' = [row EXCEPT ![r].state = "live"]
    /\ UNCHANGED <<msg, happened, recorded, tx, overwritten>>
AddEmail(r) ==
    /\ row[r] = Absent /\ LiveAt(r) = {}
    /\ row' = [row EXCEPT ![r].state = "live"]
    /\ UNCHANGED <<msg, happened, recorded, tx, overwritten>>

DeleteEmail(r) ==
    /\ r \in Live
    /\ row' = [row EXCEPT ![r] = [Absent EXCEPT !.state = "deleted"]]
    /\ UNCHANGED <<msg, happened, recorded, tx, overwritten>>

\* The task that mails the token of a row, which may be gone by then.
SendToken(m, r) ==
    /\ msg[m] = Unsent /\ row[r].state # "absent"
    /\ msg' = [msg EXCEPT ![m] = [status |-> "Accepted", missing |-> FALSE, to |-> r]]
    /\ UNCHANGED <<row, happened, recorded, tx, overwritten>>

\* The token names the row.  In the variant it names the address.
Token_OfAddress(m) == LiveAt(msg[m].to)
Token(m) == Live \cap {msg[m].to}

Update(w, r, e) ==
    /\ tx[w] = Idle
    /\ tx' = [tx EXCEPT ![w] = [does |-> "update", row |-> r, old |-> row[r], new |-> e]]
    /\ UNCHANGED <<row, msg, happened, recorded, overwritten>>

VerifyEmail(w, m) ==
    /\ "Delivery" \in happened[m]
    /\ \E r \in Token(m) :
          /\ ~row[r].verified
          /\ Update(w, r, [row[r] EXCEPT !.verified = TRUE, !.reason = "none", !.bounces = 0])

\* unverify_emails_with_expired_domains, on a domain whose status is one of the bad ones.
DomainExpired(w, r) ==
    /\ r \in Live /\ row[r].verified
    /\ Update(w, r, Unverified(row[r], "domain status invalid"))

\* A row that is gone (StaleDataError) refuses the update.
UpdateCommit(w) ==
    LET t == tx[w]
    IN  /\ t.does = "update"
        /\ row' = IF t.row \in Live THEN [row EXCEPT ![t.row] = Written(@, t.old, t.new)] ELSE row
        /\ tx' = [tx EXCEPT ![w] = Idle]
        /\ UNCHANGED <<msg, happened, recorded, overwritten>>
-----------------------------------------------------------------------------
(* SES and SNS.                                                            *)

\* What becomes of a message; a complaint comes from somebody who has it.
Happen(m, kind) ==
    /\ msg[m] # Unsent /\ kind \notin happened[m]
    /\ kind = "Complaint" => "Delivery" \in happened[m]
    /\ happened' = [happened EXCEPT ![m] = @ \cup {kind}]
    /\ UNCHANGED <<row, msg, recorded, tx, overwritten>>

\* notification, up to its commit.  One that is recorded or has no transition changes nothing.
Notify(w, m, kind) ==
    LET status == msg[m].status
        looks == HasOutput(status, kind) /\ ~msg[m].missing
        found == IF looks THEN LiveAt(msg[m].to) ELSE {}
    IN  /\ tx[w] = Idle
        /\ kind \in happened[m] \ recorded[m] /\ HasTransition(status, kind)
        /\ tx' = [tx EXCEPT ![w] = [does |-> "notify", msg |-> m, kind |-> kind, old |-> msg[m],
                new |-> [msg[m] EXCEPT !.status = Transitions[status][kind],
                                       !.missing = @ \/ (looks /\ found = {})],
                rows |-> {[row |-> r, old |-> row[r], new |-> Output(kind, row[r])] : r \in found}]]
        /\ UNCHANGED <<row, msg, happened, recorded, overwritten>>

\* The event is recorded already (ses_events.event_id is unique), or the row is gone.
Refused(t) == t.kind \in recorded[t.msg] \/ \E u \in t.rows : u.new # u.old /\ u.row \notin Live

NotifyCommit(w) ==
    LET t == tx[w]
    IN  /\ t.does = "notify"
        /\ tx' = [tx EXCEPT ![w] = Idle]
        /\ UNCHANGED happened
        /\ IF Refused(t) THEN UNCHANGED <<row, msg, recorded, overwritten>>
           ELSE /\ row' = [r \in Rows |->
                      IF \E u \in t.rows : u.row = r
                      THEN LET u == CHOOSE u \in t.rows : u.row = r IN Written(row[r], u.old, u.new)
                      ELSE row[r]]
                /\ msg' = [msg EXCEPT ![t.msg] = Written(@, t.old, t.new)]
                /\ recorded' = [recorded EXCEPT ![t.msg] = @ \cup {t.kind}]
                /\ overwritten' = IF msg[t.msg].status # t.old.status
                                  THEN overwritten \cup {t.msg} ELSE overwritten
-----------------------------------------------------------------------------
Init ==
    /\ row = [r \in Rows |-> Absent]
    /\ msg = [m \in Messages |-> Unsent]
    /\ happened = [m \in Messages |-> {}] /\ recorded = [m \in Messages |-> {}]
    /\ tx = [w \in Workers |-> Idle]
    /\ overwritten = {}

Next ==
    \/ \E r \in Rows : AddEmail(r) \/ DeleteEmail(r)
    \/ \E m \in Messages, r \in Rows : SendToken(m, r)
    \/ \E m \in Messages, k \in Notifications : Happen(m, k)
    \/ \E w \in Workers :
          \/ \E m \in Messages : VerifyEmail(w, m)
          \/ \E r \in Rows : DomainExpired(w, r)
          \/ \E m \in Messages, k \in Notifications : Notify(w, m, k)
          \/ UpdateCommit(w) \/ NotifyCommit(w)

Spec == Init /\ [][Next]_vars

\* Requests end, and SNS delivers a notification until one of its requests is committed.
FairSpec ==
    /\ Spec
    /\ \A w \in Workers : WF_vars(UpdateCommit(w) \/ NotifyCommit(w))
    /\ \A m \in Messages, k \in Notifications :
          SF_vars(\E w \in Workers : Notify(w, m, k))
-----------------------------------------------------------------------------
Statuses == {"Unsent", "Accepted", "Delivered", "Bounced", "SoftBounced", "Complained"}

\* Types; a row that was deleted takes no late write, and no address has two rows.
TypeOK ==
    /\ \A r \in Rows :
          /\ row[r].state \in {"absent", "live", "deleted"}
          /\ row[r].verified \in BOOLEAN /\ row[r].reason \in Reasons
          /\ row[r].bounces \in 0..Cardinality(Messages)
          /\ r \notin Live => row[r] = [Absent EXCEPT !.state = row[r].state]
          /\ r \in Live => LiveAt(r) = {r}
    /\ \A m \in Messages :
          /\ msg[m].status \in Statuses /\ msg[m].missing \in BOOLEAN
          /\ msg[m] # Unsent => msg[m].to \in Rows
          /\ recorded[m] \subseteq happened[m] /\ happened[m] \subseteq Notifications
    /\ overwritten \subseteq Messages

\* An address is verified only by the user who has it now: a token mailed for a row of a former
\* user of the address, read in the same mailbox, does not verify the present one (verify_email
\* looks for the row's id).  A bounce or complaint about a former user's message does unverify the
\* present row, which is found by its address (EmailStatus._get_email); nothing is said of that.
VerifiedByItsOwner ==
    \A r \in Live : row[r].verified =>
       \E m \in Messages : msg[m].to = r /\ "Delivery" \in happened[m]

\* A complaint is recorded in the end although notifications come in any order and concurrently, be
\* it that it comes before the delivery or after a transient bounce (notification, EmailStatus).
\* Two cases are excepted: after a hard bounce there is no transition, and two notifications of one
\* message at a time overwrite each other's status.
ComplaintsAreRecorded ==
    \A m \in Messages :
       "Complaint" \in happened[m] ~>
          "Complaint" \in recorded[m] \/ "Bounce" \in happened[m] \/ m \in overwritten
=============================================================================
