------------------------- MODULE EmailAddressesProofs -------------------------
(* Who verifies an address, and how often a row bounces: theorems about *)
(* EmailAddresses.                                                      *)
EXTENDS EmailAddresses, FiniteSetTheorems, TLAPS

Entry == [state : {"absent", "live", "deleted"}, verified : BOOLEAN, reason : Reasons, bounces : Int]
Message == [status : Statuses, missing : BOOLEAN, to : Rows \cup {"nobody"}]

Types ==
    /\ row \in [Rows -> Entry]
    /\ msg \in [Messages -> Message]
    /\ happened \in [Messages -> SUBSET Notifications]
    /\ DOMAIN tx = Workers

\* The user of a row has read the mail that was sent for it.
Delivered(r) == \E m \in Messages : msg[m].to = r /\ "Delivery" \in happened[m]

\* Before there is a row there is no mail for it.
NobodyIsSent ==
    \A m \in Messages : msg[m].status = "Unsent" => msg[m] = Unsent /\ happened[m] = {}

\* What a request is about to write, on a row.
UpdatesHaveTokens ==
    \A w \in Workers : tx[w].does = "update" =>
       /\ tx[w].row \in Rows /\ tx[w].old \in Entry /\ tx[w].new \in Entry
       /\ tx[w].new.state = tx[w].old.state
       /\ tx[w].new.verified => Delivered(tx[w].row)

\* Notifications verify nothing, and leave a message its recipient.
NotificationsVerifyNothing ==
    \A w \in Workers : tx[w].does = "notify" =>
       /\ tx[w].msg \in Messages /\ tx[w].kind \in Notifications
       /\ tx[w].old \in Message /\ tx[w].new \in Message
       /\ tx[w].new.to = tx[w].old.to
       /\ msg[tx[w].msg].status # "Unsent" /\ tx[w].new.status # "Unsent"
       /\ \A u \in tx[w].rows :
             /\ u.row \in Rows /\ u.old \in Entry /\ u.new \in Entry
             /\ u.new.state = u.old.state
             /\ u.new.verified => u.old.verified

IInv == Types /\ NobodyIsSent /\ UpdatesHaveTokens /\ NotificationsVerifyNothing
        /\ \A r \in Rows : row[r].verified => Delivered(r)

-----------------------------------------------------------------------------
(* What a session writes is again a row, with a state that it has or had.  *)
LEMMA WrittenEntry ==
    ASSUME NEW cur \in Entry, NEW old \in Entry, NEW new \in Entry, new.state = old.state
    PROVE  /\ Written(cur, old, new) \in Entry
           /\ Written(cur, old, new).state = cur.state
           /\ Written(cur, old, new).verified => new.verified \/ cur.verified
           /\ new.verified = old.verified => Written(cur, old, new).verified = cur.verified
<1>1. DOMAIN cur = {"state", "verified", "reason", "bounces"}
  BY DEF Entry
<1>2. Written(cur, old, new) =
        [state    |-> cur.state,
         verified |-> IF new.verified # old.verified THEN new.verified ELSE cur.verified,
         reason   |-> IF new.reason # old.reason THEN new.reason ELSE cur.reason,
         bounces  |-> IF new.bounces # old.bounces THEN new.bounces ELSE cur.bounces]
  BY <1>1 DEF Written
<1>. QED  BY <1>2 DEF Entry

LEMMA WrittenMessage ==
    ASSUME NEW cur \in Message, NEW old \in Message, NEW new \in Message, new.to = old.to
    PROVE  /\ Written(cur, old, new) \in Message
           /\ Written(cur, old, new).to = cur.to
           /\ Written(cur, old, new).status \in {cur.status, new.status}
<1>1. DOMAIN cur = {"status", "missing", "to"}
  BY DEF Message
<1>2. Written(cur, old, new) =
        [status  |-> IF new.status # old.status THEN new.status ELSE cur.status,
         missing |-> IF new.missing # old.missing THEN new.missing ELSE cur.missing,
         to      |-> cur.to]
  BY <1>1 DEF Written
<1>. QED  BY <1>2 DEF Message

LEMMA AbsentIsEntry == Absent \in Entry /\ ~Absent.verified
  BY DEF Absent, Entry, Reasons

LEMMA VerifiedEntry ==
    ASSUME NEW f \in Entry
    PROVE  LET e == [f EXCEPT !.verified = TRUE, !.reason = "none", !.bounces = 0]
           IN  e \in Entry /\ e.state = f.state
<1>. DEFINE e == [f EXCEPT !.verified = TRUE, !.reason = "none", !.bounces = 0]
<1>. DEFINE e1 == [f EXCEPT !.verified = TRUE]
            e2 == [e1 EXCEPT !.reason = "none"]
<1>1. e = [e2 EXCEPT !.bounces = 0]
  OBVIOUS
<1>2. "none" \in Reasons
  BY DEF Reasons
<1>. HIDE DEF e
<1>3. e1 \in Entry /\ e1.state = f.state
  BY DEF Entry
<1>. HIDE DEF e1
<1>4. e2 \in Entry /\ e2.state = f.state
  BY <1>2, <1>3 DEF Entry
<1>. HIDE DEF e2
<1>5. e \in Entry /\ e.state = f.state
  BY <1>1, <1>4 DEF Entry
<1>. QED  BY <1>5 DEF e

LEMMA OutputEntry ==
    ASSUME NEW e \in Entry, NEW k \in Notifications
    PROVE  Output(k, e) \in Entry /\ Output(k, e).state = e.state
           /\ (Output(k, e).verified => e.verified)
<1>1. Reset(e) \in Entry /\ Reset(e).state = e.state /\ Reset(e).verified = e.verified
  BY DEF Reset, Entry
<1>2. ASSUME NEW f \in Entry, NEW why \in Reasons
      PROVE  Unverified(f, why) \in Entry /\ Unverified(f, why).state = f.state
             /\ ~Unverified(f, why).verified
  BY DEF Unverified, Entry
<1>3. Counted(e) \in Entry /\ Counted(e).state = e.state /\ (Counted(e).verified => e.verified)
  <2>. DEFINE c == [e EXCEPT !.bounces = @ + 1]
  <2>1. c \in Entry /\ c.state = e.state /\ c.verified = e.verified
    BY DEF Entry
  <2>2. "soft bounce" \in Reasons
    BY DEF Reasons
  <2>. HIDE DEF c
  <2>3. Counted(e) = IF c.bounces > MaxTransientBounces THEN Unverified(c, "soft bounce") ELSE c
    BY DEF Counted, c
  <2>. QED  BY <1>2, <2>1, <2>2, <2>3
<1>4. {"hard bounce", "spam complaint"} \subseteq Reasons
  BY DEF Reasons
<1>5. \/ k = "Delivery" /\ Output(k, e) = Reset(e)
      \/ k = "Bounce" /\ Output(k, e) = Unverified(Reset(e), "hard bounce")
      \/ k = "Transient" /\ Output(k, e) = Counted(e)
      \/ k = "Complaint" /\ Output(k, e) = Unverified(e, "spam complaint")
  BY DEF Output, Notifications
<1>. QED  BY <1>1, <1>2, <1>3, <1>4, <1>5

LEMMA TransitionStatus ==
    ASSUME NEW s, NEW k, HasTransition(s, k)
    PROVE  Transitions[s][k] \in Statuses \ {"Unsent"}
<1>1. s \in {"Accepted", "SoftBounced", "Delivered", "Bounced"}
  BY DEF HasTransition, Transitions
<1>2. CASE s = "Accepted"
  BY <1>2 DEF HasTransition, Transitions, Statuses
<1>3. CASE s = "SoftBounced"
  BY <1>3 DEF HasTransition, Transitions, Statuses
<1>4. CASE s = "Delivered"
  BY <1>4 DEF HasTransition, Transitions, Statuses
<1>5. CASE s = "Bounced"
  BY <1>5 DEF HasTransition, Transitions, Statuses
<1>. QED  BY <1>1, <1>2, <1>3, <1>4, <1>5

LEMMA InitInv == Init => IInv
<1>. SUFFICES ASSUME Init PROVE IInv
  OBVIOUS
<1>1. Unsent \in Message
  BY DEF Unsent, Message, Statuses
<1>2. \A w \in Workers : tx[w].does \notin {"update", "notify"}
  BY DEF Init, Idle
<1>3. Types
  BY <1>1, AbsentIsEntry DEF Init, Types
<1>4. \A r \in Rows : ~row[r].verified
  BY AbsentIsEntry DEF Init
<1>. QED
  BY <1>2, <1>3, <1>4
  DEF Init, IInv, NobodyIsSent, UpdatesHaveTokens, NotificationsVerifyNothing

-----------------------------------------------------------------------------
(* Tokens are not taken back: recipients stay, and what happened.          *)
Kept ==
    /\ \A m \in Messages : msg[m].status # "Unsent" =>
          msg'[m].to = msg[m].to /\ msg'[m].status # "Unsent"
    /\ \A m \in Messages : happened[m] \subseteq happened'[m]

LEMMA DeliveredStays ==
    ASSUME IInv, Kept, NEW r \in Rows, Delivered(r)
    PROVE  Delivered(r)'
<1>1. PICK m \in Messages : msg[m].to = r /\ "Delivery" \in happened[m]
  BY DEF Delivered
<1>2. msg[m].status # "Unsent"
  BY <1>1 DEF IInv, NobodyIsSent
<1>. QED  BY <1>1, <1>2 DEF Kept, Delivered

(* A step that leaves every other worker's transaction alone and commits   *)
(* nothing verified without a token keeps the invariant, if what the       *)
(* worker has then read and plans is in order.                             *)
Planned(w) ==
    /\ tx[w].does = "update" =>
         /\ tx[w].row \in Rows /\ tx[w].old \in Entry /\ tx[w].new \in Entry
         /\ tx[w].new.state = tx[w].old.state
         /\ tx[w].new.verified => Delivered(tx[w].row)
    /\ tx[w].does = "notify" =>
         /\ tx[w].msg \in Messages /\ tx[w].kind \in Notifications
         /\ tx[w].old \in Message /\ tx[w].new \in Message
         /\ tx[w].new.to = tx[w].old.to
         /\ msg[tx[w].msg].status # "Unsent" /\ tx[w].new.status # "Unsent"
         /\ \A u \in tx[w].rows :
               /\ u.row \in Rows /\ u.old \in Entry /\ u.new \in Entry
               /\ u.new.state = u.old.state
               /\ u.new.verified => u.old.verified

LEMMA PlannedStays ==
    ASSUME IInv, Kept, NEW w \in Workers, tx'[w] = tx[w]
    PROVE  Planned(w)'
<1>1. CASE tx[w].does = "update"
  BY <1>1, DeliveredStays DEF IInv, UpdatesHaveTokens, Planned
<1>2. CASE tx[w].does = "notify"
  BY <1>2 DEF IInv, NotificationsVerifyNothing, Planned, Kept
<1>. QED  BY <1>1, <1>2 DEF Planned

LEMMA InvByParts ==
    ASSUME IInv, Types', NobodyIsSent', Kept,
           \A r \in Rows : row'[r].verified => row[r].verified \/ Delivered(r)',
           \A w \in Workers : tx'[w] = tx[w] \/ Planned(w)'
    PROVE  IInv'
<1>1. \A w \in Workers : Planned(w)'
  BY PlannedStays
<1>2. UpdatesHaveTokens' /\ NotificationsVerifyNothing'
  BY <1>1 DEF Planned, UpdatesHaveTokens, NotificationsVerifyNothing
<1>3. \A r \in Rows : row'[r].verified => Delivered(r)'
  BY DeliveredStays DEF IInv
<1>. QED  BY <1>2, <1>3 DEF IInv

-----------------------------------------------------------------------------
(* The steps.                                                              *)
LEMMA AddEmailStep == ASSUME IInv, NEW r \in Rows, AddEmail(r) PROVE IInv'
<1>1. Types' /\ NobodyIsSent' /\ Kept
  BY DEF IInv, Types, Entry, NobodyIsSent, Kept, AddEmail
<1>2. \A q \in Rows : row'[q].verified => row[q].verified
  BY DEF IInv, Types, Entry, AddEmail
<1>3. \A w \in Workers : tx'[w] = tx[w]
  BY DEF AddEmail
<1>. QED  BY <1>1, <1>2, <1>3, InvByParts

LEMMA DeleteEmailStep == ASSUME IInv, NEW r \in Rows, DeleteEmail(r) PROVE IInv'
<1>. DEFINE gone == [Absent EXCEPT !.state = "deleted"]
<1>1. gone \in Entry /\ ~gone.verified
  BY AbsentIsEntry DEF Entry
<1>. HIDE DEF gone
<1>2. row' = [row EXCEPT ![r] = gone]
  BY DEF DeleteEmail, gone
<1>3. Types' /\ NobodyIsSent' /\ Kept
  BY <1>1, <1>2 DEF IInv, Types, NobodyIsSent, Kept, DeleteEmail
<1>4. \A q \in Rows : row'[q].verified => row[q].verified
  BY <1>1, <1>2 DEF IInv, Types
<1>5. \A w \in Workers : tx'[w] = tx[w]
  BY DEF DeleteEmail
<1>. QED  BY <1>3, <1>4, <1>5, InvByParts

LEMMA SendTokenStep ==
    ASSUME IInv, NEW m \in Messages, NEW r \in Rows, SendToken(m, r) PROVE IInv'
<1>1. msg' = [msg EXCEPT ![m] = [status |-> "Accepted", missing |-> FALSE, to |-> r]]
  BY DEF SendToken
<1>2. [status |-> "Accepted", missing |-> FALSE, to |-> r] \in Message
  BY DEF Message, Statuses
<1>3. msg[m].status = "Unsent"
  BY DEF SendToken, Unsent
<1>4. Types' /\ NobodyIsSent' /\ Kept
  BY <1>1, <1>2, <1>3 DEF IInv, Types, NobodyIsSent, Kept, SendToken
<1>5. UNCHANGED <<row, tx>>
  BY DEF SendToken
<1>. QED  BY <1>4, <1>5, InvByParts

LEMMA HappenStep ==
    ASSUME IInv, NEW m \in Messages, NEW k \in Notifications, Happen(m, k) PROVE IInv'
<1>1. msg[m].status # "Unsent"
  BY DEF IInv, NobodyIsSent, Happen
<1>2. Types' /\ NobodyIsSent' /\ Kept
  BY <1>1 DEF IInv, Types, NobodyIsSent, Kept, Happen
<1>3. UNCHANGED <<row, tx>>
  BY DEF Happen
<1>. QED  BY <1>2, <1>3, InvByParts

(* What Update does, when the row it plans is verified by a token or was.  *)
LEMMA UpdateStep ==
    ASSUME IInv, NEW w \in Workers, NEW r \in Rows, NEW e \in Entry, Update(w, r, e),
           e.state = row[r].state, e.verified => Delivered(r)
    PROVE  IInv'
<1>1. UNCHANGED <<row, msg, happened>>
  BY DEF Update
<1>2. tx' = [tx EXCEPT ![w] = [does |-> "update", row |-> r, old |-> row[r], new |-> e]]
  BY DEF Update
<1>3. Types' /\ NobodyIsSent' /\ Kept
  BY <1>1, <1>2 DEF IInv, Types, NobodyIsSent, Kept
<1>4. tx'[w] = [does |-> "update", row |-> r, old |-> row[r], new |-> e]
  BY <1>2 DEF IInv, Types
<1>5. row[r] \in Entry
  BY DEF IInv, Types
<1>6. Delivered(r)' <=> Delivered(r)
  BY <1>1 DEF Delivered
<1>7. Planned(w)'
  BY <1>4, <1>5, <1>6 DEF Planned
<1>8. \A v \in Workers : tx'[v] = tx[v] \/ Planned(v)'
  BY <1>2, <1>7 DEF IInv, Types
<1>. QED  BY <1>1, <1>3, <1>8, InvByParts

LEMMA VerifyEmailStep ==
    ASSUME IInv, NEW w \in Workers, NEW m \in Messages, VerifyEmail(w, m) PROVE IInv'
<1>1. PICK r \in Live \cap {msg[m].to} :
        Update(w, r, [row[r] EXCEPT !.verified = TRUE, !.reason = "none", !.bounces = 0])
  BY DEF VerifyEmail, Token
<1>2. r \in Rows /\ row[r] \in Entry
  BY DEF Live, IInv, Types
<1>3. Delivered(r)
  BY DEF VerifyEmail, Delivered
<1>. DEFINE e == [row[r] EXCEPT !.verified = TRUE, !.reason = "none", !.bounces = 0]
<1>4. e \in Entry /\ e.state = row[r].state
  BY <1>2, VerifiedEntry
<1>. QED  BY <1>1, <1>2, <1>3, <1>4, UpdateStep

LEMMA DomainExpiredStep ==
    ASSUME IInv, NEW w \in Workers, NEW r \in Rows, DomainExpired(w, r) PROVE IInv'
<1>. DEFINE e == Unverified(row[r], "domain status invalid")
<1>1. row[r] \in Entry
  BY DEF IInv, Types
<1>2. e \in Entry /\ e.state = row[r].state /\ ~e.verified
  BY <1>1 DEF Unverified, Entry, Reasons
<1>3. Update(w, r, e)
  BY DEF DomainExpired
<1>. QED  BY <1>2, <1>3, UpdateStep

LEMMA UpdateCommitStep ==
    ASSUME IInv, NEW w \in Workers, UpdateCommit(w) PROVE IInv'
<1>. DEFINE t == tx[w]
<1>1. t.does = "update" /\ tx' = [tx EXCEPT ![w] = Idle] /\ UNCHANGED <<msg, happened>>
  BY DEF UpdateCommit
<1>2. /\ t.row \in Rows /\ t.old \in Entry /\ t.new \in Entry /\ t.new.state = t.old.state
      /\ t.new.verified => Delivered(t.row)
  BY <1>1 DEF IInv, UpdatesHaveTokens
<1>3. row[t.row] \in Entry
  BY <1>2 DEF IInv, Types
<1>. DEFINE wr == Written(row[t.row], t.old, t.new)
<1>4. wr \in Entry /\ (wr.verified => t.new.verified \/ row[t.row].verified)
  BY <1>2, <1>3, WrittenEntry
<1>5. row' = row \/ row' = [row EXCEPT ![t.row] = wr]
  BY DEF UpdateCommit
<1>. HIDE DEF wr
<1>6. Types' /\ NobodyIsSent' /\ Kept
  BY <1>1, <1>2, <1>4, <1>5 DEF IInv, Types, NobodyIsSent, Kept
<1>7. \A q \in Rows : row'[q].verified => row[q].verified \/ Delivered(q)'
  <2>1. \A q \in Rows : Delivered(q) => Delivered(q)'
    BY <1>6, DeliveredStays
  <2>. QED  BY <1>2, <1>4, <1>5, <2>1 DEF IInv, Types
<1>8. tx'[w].does = "nothing"
  BY <1>1 DEF IInv, Types, Idle
<1>9. \A v \in Workers : tx'[v] = tx[v] \/ Planned(v)'
  BY <1>1, <1>8 DEF IInv, Types, Planned
<1>. QED  BY <1>6, <1>7, <1>9, InvByParts

LEMMA NotifyStep ==
    ASSUME IInv, NEW w \in Workers, NEW m \in Messages, NEW k \in Notifications, Notify(w, m, k)
    PROVE  IInv'
<1>. DEFINE status == msg[m].status
            looks == HasOutput(status, k) /\ ~msg[m].missing
            found == IF looks THEN LiveAt(msg[m].to) ELSE {}
            new == [msg[m] EXCEPT !.status = Transitions[status][k],
                                  !.missing = @ \/ (looks /\ found = {})]
            rows == {[row |-> r, old |-> row[r], new |-> Output(k, row[r])] : r \in found}
            t == [does |-> "notify", msg |-> m, kind |-> k, old |-> msg[m], new |-> new, rows |-> rows]
<1>1. /\ UNCHANGED <<row, msg, happened>> /\ tx' = [tx EXCEPT ![w] = t]
      /\ k \in happened[m] /\ HasTransition(status, k)
  BY DEF Notify
<1>2. found \subseteq Rows
  BY DEF LiveAt, Live
<1>3. msg[m] \in Message /\ msg[m].status # "Unsent"
  BY <1>1 DEF IInv, Types, NobodyIsSent
<1>4. Transitions[status][k] \in Statuses \ {"Unsent"}
  BY <1>1, TransitionStatus
<1>5. (looks /\ found = {}) \in BOOLEAN /\ msg[m].missing \in BOOLEAN
  BY <1>3 DEF HasOutput, Message
<1>6. new \in Message /\ new.to = msg[m].to /\ new.status # "Unsent"
  <2>. HIDE DEF looks, found
  <2>. QED  BY <1>3, <1>4, <1>5 DEF Message
<1>. HIDE DEF new
<1>7. ASSUME NEW u \in rows
      PROVE  /\ u.row \in Rows /\ u.old \in Entry /\ u.new \in Entry
             /\ u.new.state = u.old.state /\ (u.new.verified => u.old.verified)
  <2>. HIDE DEF found
  <2>1. PICK r \in found : u = [row |-> r, old |-> row[r], new |-> Output(k, row[r])]
    OBVIOUS
  <2>2. r \in Rows /\ row[r] \in Entry
    BY <1>2 DEF IInv, Types
  <2>. QED  BY <2>1, <2>2, OutputEntry
<1>. HIDE DEF rows
<1>8. Types' /\ NobodyIsSent' /\ Kept
  BY <1>1 DEF IInv, Types, NobodyIsSent, Kept
<1>9. tx'[w] = t
  BY <1>1 DEF IInv, Types
<1>10. Planned(w)'
  BY <1>1, <1>3, <1>6, <1>7, <1>9 DEF Planned
<1>11. \A v \in Workers : tx'[v] = tx[v] \/ Planned(v)'
  BY <1>1, <1>10 DEF IInv, Types
<1>. QED  BY <1>1, <1>8, <1>11, InvByParts

LEMMA NotifyCommitStep ==
    ASSUME IInv, NEW w \in Workers, NotifyCommit(w) PROVE IInv'
<1>. DEFINE t == tx[w]
<1>1. t.does = "notify" /\ tx' = [tx EXCEPT ![w] = Idle] /\ UNCHANGED happened
  BY DEF NotifyCommit
<1>2. /\ t.msg \in Messages /\ t.old \in Message /\ t.new \in Message /\ t.new.to = t.old.to
      /\ msg[t.msg].status # "Unsent" /\ t.new.status # "Unsent"
  BY <1>1 DEF IInv, NotificationsVerifyNothing
<1>3. ASSUME NEW u \in t.rows
      PROVE  /\ u.row \in Rows /\ u.old \in Entry /\ u.new \in Entry
             /\ u.new.state = u.old.state /\ (u.new.verified => u.old.verified)
  BY <1>1 DEF IInv, NotificationsVerifyNothing
<1>. DEFINE wr == Written(msg[t.msg], t.old, t.new)
<1>4. wr \in Message /\ wr.to = msg[t.msg].to /\ wr.status # "Unsent"
  BY <1>2, WrittenMessage DEF IInv, Types
<1>5. msg' = msg \/ msg' = [msg EXCEPT ![t.msg] = wr]
  BY DEF NotifyCommit
<1>. HIDE DEF wr
<1>6. NobodyIsSent' /\ Kept /\ msg' \in [Messages -> Message]
  BY <1>1, <1>2, <1>4, <1>5 DEF IInv, Types, NobodyIsSent, Kept
<1>. DEFINE after(r) == IF \E u \in t.rows : u.row = r
                        THEN LET u == CHOOSE u \in t.rows : u.row = r IN Written(row[r], u.old, u.new)
                        ELSE row[r]
<1>7. ASSUME NEW r \in Rows
      PROVE  after(r) \in Entry /\ (after(r).verified => row[r].verified)
  <2>1. row[r] \in Entry
    BY DEF IInv, Types
  <2>2. CASE \E u \in t.rows : u.row = r
    <3>1. PICK u \in t.rows : after(r) = Written(row[r], u.old, u.new)
      BY <2>2
    <3>2. u.old.verified \in BOOLEAN /\ u.new.verified \in BOOLEAN
      BY <1>3 DEF Entry
    <3>3. \/ u.new.verified = u.old.verified
          \/ ~u.new.verified
      BY <1>3, <3>2
    <3>. QED  BY <1>3, <2>1, <3>1, <3>3, WrittenEntry
  <2>3. CASE ~\E u \in t.rows : u.row = r
    BY <2>1, <2>3
  <2>. QED  BY <2>2, <2>3
<1>8. row' = row \/ row' = [r \in Rows |-> after(r)]
  BY DEF NotifyCommit
<1>. HIDE DEF after
<1>9. row' \in [Rows -> Entry] /\ \A r \in Rows : row'[r].verified => row[r].verified
  BY <1>7, <1>8 DEF IInv, Types
<1>10. Types'
  BY <1>1, <1>6, <1>9 DEF IInv, Types
<1>11. tx'[w].does = "nothing"
  BY <1>1 DEF IInv, Types, Idle
<1>12. \A v \in Workers : tx'[v] = tx[v] \/ Planned(v)'
  BY <1>1, <1>11 DEF IInv, Types, Planned
<1>. QED  BY <1>6, <1>9, <1>10, <1>12, InvByParts

LEMMA StutterStep == ASSUME IInv, UNCHANGED vars PROVE IInv'
<1>1. Types' /\ NobodyIsSent' /\ Kept /\ UNCHANGED <<row, tx>>
  BY DEF IInv, Types, NobodyIsSent, Kept, vars
<1>. QED  BY <1>1, InvByParts

\* Every state the program reaches, with any rows, addresses, messages and requests, satisfies the
\* inductive invariant: rows that are verified, and what requests are about to write, have tokens.
THEOREM Invariance == Spec => []IInv
<1>1. ASSUME IInv, [Next]_vars PROVE IInv'
  BY <1>1, AddEmailStep, DeleteEmailStep, SendTokenStep, HappenStep, VerifyEmailStep,
     DomainExpiredStep, UpdateCommitStep, NotifyStep, NotifyCommitStep, StutterStep
  DEF Next
<1>. QED  BY <1>1, InitInv, PTL DEF Spec

\* An address is verified only by the user who has it now (verify_email): the token that verified a
\* row was mailed for that row, however deletions, new users and notifications interleave.
THEOREM VerifiedByOwner == Spec => []VerifiedByItsOwner
<1>1. IInv => VerifiedByItsOwner
  BY DEF IInv, Delivered, VerifiedByItsOwner, Live
<1>. QED  BY <1>1, Invariance, PTL

-----------------------------------------------------------------------------
(* Types.  A row has no more bounces than there are messages with a        *)
(* transient bounce recorded: who adds one read the row before, and        *)
(* records the bounce of a message for which there was none.               *)

Transients == {m \in Messages : "Transient" \in recorded[m]}

Records ==
    /\ recorded \in [Messages -> SUBSET Notifications]
    /\ \A m \in Messages : recorded[m] \subseteq happened[m]
    /\ overwritten \subseteq Messages
    /\ \A m \in Messages : msg[m].status # "Unsent" => msg[m].to \in Rows

CountedBounces == \A r \in Rows : row[r].bounces \in 0..Cardinality(Transients)

BouncesPlanned(w) ==
    /\ tx[w].does = "update" => tx[w].new.bounces \in {0, tx[w].old.bounces}
    /\ tx[w].does = "notify" =>
         /\ tx[w].kind \in happened[tx[w].msg]
         /\ \A u \in tx[w].rows :
               \/ u.new.bounces \in {0, u.old.bounces}
               \/ /\ tx[w].kind = "Transient"
                  /\ u.new.bounces \in 0..(Cardinality(Transients \ {tx[w].msg}) + 1)

LiveRows ==
    /\ \A r \in Rows \ Live : row[r] = [Absent EXCEPT !.state = row[r].state]
    /\ \A q, r \in Live : AddressOf[q] = AddressOf[r] => q = r

Sound == Records /\ CountedBounces /\ (\A w \in Workers : BouncesPlanned(w)) /\ LiveRows

(* Nothing that happened or is recorded is taken back, and what a waiting  *)
(* request has counted stays within what is recorded.                      *)
Grows ==
    /\ \A m \in Messages : happened[m] \subseteq happened'[m]
    /\ \A m \in Messages : recorded[m] \subseteq recorded'[m]

LEMMA TransientsGrow ==
    ASSUME Grows
    PROVE  /\ Cardinality(Transients) \in Nat
           /\ Cardinality(Transients) <= Cardinality(Transients')
           /\ Cardinality(Transients') \in Nat
           /\ Cardinality(Transients') <= Cardinality(Messages)
           /\ \A m : Cardinality(Transients \ {m}) \in Nat
                     /\ Cardinality(Transients \ {m}) <= Cardinality(Transients' \ {m})
<1>1. Transients \subseteq Transients' /\ Transients' \subseteq Messages
  BY DEF Grows, Transients
<1>2. \A S : S \subseteq Messages => IsFiniteSet(S) /\ Cardinality(S) <= Cardinality(Messages)
  BY MessagesAssumption, FS_Subset
<1>3. \A S : IsFiniteSet(S) => Cardinality(S) \in Nat
  BY FS_CardinalityType
<1>4. Cardinality(Transients) <= Cardinality(Transients')
  BY <1>1, <1>2, FS_Subset
<1>5. ASSUME NEW m
      PROVE  Cardinality(Transients \ {m}) <= Cardinality(Transients' \ {m})
             /\ Cardinality(Transients \ {m}) \in Nat
  <2>1. Transients \ {m} \subseteq Transients' \ {m} /\ Transients' \ {m} \subseteq Messages
        /\ Transients \ {m} \subseteq Messages
    BY <1>1
  <2>. QED  BY <1>2, <1>3, <2>1, FS_Subset
<1>. QED  BY <1>1, <1>2, <1>3, <1>4, <1>5

LEMMA BouncesPlannedStay ==
    ASSUME IInv, Sound, Grows, NEW w \in Workers, tx'[w] = tx[w]
    PROVE  BouncesPlanned(w)'
<1>1. CASE tx[w].does = "update"
  BY <1>1 DEF Sound, BouncesPlanned
<1>2. CASE tx[w].does = "notify"
  <2>1. tx[w].msg \in Messages
    BY <1>2 DEF IInv, NotificationsVerifyNothing
  <2>2. tx'[w].kind \in happened'[tx'[w].msg]
    BY <1>2, <2>1 DEF Sound, BouncesPlanned, Grows
  <2>3. ASSUME NEW u \in tx[w].rows, tx[w].kind = "Transient",
               u.new.bounces \in 0..(Cardinality(Transients \ {tx[w].msg}) + 1)
        PROVE  u.new.bounces \in 0..(Cardinality(Transients' \ {tx[w].msg}) + 1)
    <3>1. /\ Cardinality(Transients \ {tx[w].msg}) \in Nat
          /\ Cardinality(Transients' \ {tx[w].msg}) \in Nat
          /\ Cardinality(Transients \ {tx[w].msg}) <= Cardinality(Transients' \ {tx[w].msg})
      <4>1. IsFiniteSet(Transients' \ {tx[w].msg})
        BY MessagesAssumption, FS_Subset DEF Transients
      <4>. QED  BY <4>1, TransientsGrow, FS_CardinalityType
    <3>. QED  BY <2>3, <3>1
  <2>. QED  BY <1>2, <2>2, <2>3 DEF Sound, BouncesPlanned
<1>. QED  BY <1>1, <1>2 DEF BouncesPlanned

LEMMA SoundByParts ==
    ASSUME IInv, Sound, Grows, Records', LiveRows',
           \A r \in Rows : row'[r].bounces \in {0, row[r].bounces} \/
                           row'[r].bounces \in 0..Cardinality(Transients'),
           \A w \in Workers : tx'[w] = tx[w] \/ BouncesPlanned(w)'
    PROVE  Sound'
<1>1. \A w \in Workers : BouncesPlanned(w)'
  BY BouncesPlannedStay
<1>2. ASSUME NEW r \in Rows PROVE row'[r].bounces \in 0..Cardinality(Transients')
  BY TransientsGrow DEF Sound, CountedBounces
<1>. QED  BY <1>1, <1>2 DEF Sound, CountedBounces

(* A step that keeps the state of every row, and a row that is not live,   *)
(* keeps the rest of it.                                                   *)
LEMMA LiveRowsStay ==
    ASSUME LiveRows, \A r \in Rows : row'[r].state = row[r].state,
           \A r \in Rows \ Live : row'[r] = row[r]
    PROVE  LiveRows'
<1>1. Live' = Live
  BY DEF Live
<1>. QED  BY <1>1 DEF LiveRows

LEMMA SoundInit == Init => Sound
<1>. SUFFICES ASSUME Init PROVE Sound
  OBVIOUS
<1>1. Records
  BY DEF Init, Records, Unsent
<1>2. \A r \in Rows : row[r] = Absent /\ row[r].state = "absent" /\ row[r].bounces = 0
  BY DEF Init, Absent
<1>3. Live = {}
  BY <1>2 DEF Live
<1>4. \A r \in Rows : row[r] = [Absent EXCEPT !.state = row[r].state]
  BY <1>2 DEF Absent
<1>5. Cardinality(Transients) \in Nat
  BY MessagesAssumption, FS_Subset, FS_CardinalityType DEF Transients
<1>6. \A w \in Workers : BouncesPlanned(w)
  BY DEF Init, Idle, BouncesPlanned
<1>. QED  BY <1>1, <1>2, <1>3, <1>4, <1>5, <1>6 DEF Sound, CountedBounces, LiveRows

LEMMA SoundAddEmail == ASSUME IInv, Sound, NEW r \in Rows, AddEmail(r) PROVE Sound'
<1>1. Grows /\ Records'
  BY DEF AddEmail, Grows, Sound, Records
<1>2. row' = [row EXCEPT ![r] = [row[r] EXCEPT !.state = "live"]]
  BY DEF AddEmail
<1>3. row[r] \in Entry /\ [row[r] EXCEPT !.state = "live"] \in Entry
  BY DEF IInv, Types, Entry
<1>4. \A q \in Rows : row'[q].bounces = row[q].bounces /\ (q # r => row'[q] = row[q])
  BY <1>2, <1>3 DEF IInv, Types, Entry
<1>5. row'[r].state = "live" /\ Live' = Live \cup {r}
  BY <1>2, <1>3, <1>4 DEF IInv, Types, Entry, Live
<1>6. \A q \in Live : AddressOf[q] # AddressOf[r]
  BY DEF AddEmail, LiveAt
<1>7. LiveRows'
  BY <1>4, <1>5, <1>6 DEF Sound, LiveRows
<1>8. \A w \in Workers : tx'[w] = tx[w]
  BY DEF AddEmail
<1>. QED  BY <1>1, <1>4, <1>7, <1>8, SoundByParts

LEMMA SoundDeleteEmail == ASSUME IInv, Sound, NEW r \in Rows, DeleteEmail(r) PROVE Sound'
<1>. DEFINE gone == [Absent EXCEPT !.state = "deleted"]
<1>1. Grows /\ Records'
  BY DEF DeleteEmail, Grows, Sound, Records
<1>2. gone.state = "deleted" /\ gone.bounces = 0 /\ gone = [Absent EXCEPT !.state = gone.state]
  BY DEF Absent
<1>. HIDE DEF gone
<1>3. row' = [row EXCEPT ![r] = gone]
  BY DEF DeleteEmail, gone
<1>4. row'[r] = gone /\ \A q \in Rows : q # r => row'[q] = row[q]
  BY <1>3 DEF IInv, Types
<1>5. Live' = Live \ {r}
  BY <1>2, <1>4 DEF Live
<1>6. LiveRows'
  BY <1>2, <1>4, <1>5 DEF Sound, LiveRows
<1>7. \A q \in Rows : row'[q].bounces \in {0, row[q].bounces}
  BY <1>2, <1>4
<1>8. \A w \in Workers : tx'[w] = tx[w]
  BY DEF DeleteEmail
<1>. QED  BY <1>1, <1>6, <1>7, <1>8, SoundByParts

(* Messages, and what becomes of them, leave the rows alone.               *)
LEMMA SoundMessageStep ==
    ASSUME IInv, Sound, IInv', UNCHANGED row, UNCHANGED recorded, UNCHANGED overwritten,
           \A m \in Messages : happened[m] \subseteq happened'[m],
           \A m \in Messages : msg'[m] = msg[m] \/ msg'[m].to \in Rows,
           \A w \in Workers : tx'[w] = tx[w] \/ BouncesPlanned(w)'
    PROVE  Sound'
<1>1. Grows
  BY DEF Grows
<1>2. Records'
  BY DEF Sound, Records
<1>3. LiveRows'
  BY LiveRowsStay DEF Sound
<1>. QED  BY <1>1, <1>2, <1>3, SoundByParts

LEMMA SoundSendToken ==
    ASSUME IInv, IInv', Sound, NEW m \in Messages, NEW r \in Rows, SendToken(m, r) PROVE Sound'
<1>1. \A n \in Messages : msg'[n] = msg[n] \/ msg'[n].to \in Rows
  BY DEF SendToken, IInv, Types
<1>. QED  BY <1>1, SoundMessageStep DEF SendToken

LEMMA SoundHappen ==
    ASSUME IInv, IInv', Sound, NEW m \in Messages, NEW k \in Notifications, Happen(m, k)
    PROVE  Sound'
<1>1. \A n \in Messages : happened[n] \subseteq happened'[n]
  BY DEF Happen, IInv, Types
<1>. QED  BY <1>1, SoundMessageStep DEF Happen

LEMMA SoundUpdate ==
    ASSUME IInv, IInv', Sound, NEW w \in Workers, NEW r, NEW e, Update(w, r, e),
           e.bounces \in {0, row[r].bounces}
    PROVE  Sound'
<1>1. tx' = [tx EXCEPT ![w] = [does |-> "update", row |-> r, old |-> row[r], new |-> e]]
  BY DEF Update
<1>2. tx'[w] = [does |-> "update", row |-> r, old |-> row[r], new |-> e]
  BY <1>1 DEF IInv, Types
<1>3. BouncesPlanned(w)'
  BY <1>2 DEF BouncesPlanned
<1>4. \A v \in Workers : tx'[v] = tx[v] \/ BouncesPlanned(v)'
  BY <1>1, <1>3 DEF IInv, Types
<1>. QED  BY <1>4, SoundMessageStep DEF Update

LEMMA SoundVerifyEmail ==
    ASSUME IInv, IInv', Sound, NEW w \in Workers, NEW m \in Messages, VerifyEmail(w, m)
    PROVE  Sound'
<1>1. PICK r \in Live \cap {msg[m].to} :
        Update(w, r, [row[r] EXCEPT !.verified = TRUE, !.reason = "none", !.bounces = 0])
  BY DEF VerifyEmail, Token
<1>2. row[r] \in Entry
  BY DEF Live, IInv, Types
<1>3. [row[r] EXCEPT !.verified = TRUE, !.reason = "none", !.bounces = 0].bounces = 0
  BY <1>2 DEF Entry
<1>. QED  BY <1>1, <1>3, SoundUpdate

LEMMA SoundDomainExpired ==
    ASSUME IInv, IInv', Sound, NEW w \in Workers, NEW r \in Rows, DomainExpired(w, r)
    PROVE  Sound'
<1>1. row[r] \in Entry
  BY DEF IInv, Types
<1>2. Unverified(row[r], "domain status invalid").bounces = row[r].bounces
  BY <1>1 DEF Unverified, Entry
<1>. QED  BY <1>2, SoundUpdate DEF DomainExpired

LEMMA WrittenBounces ==
    ASSUME NEW cur \in Entry, NEW old \in Entry, NEW new \in Entry
    PROVE  /\ Written(cur, old, new).bounces \in {cur.bounces, new.bounces}
           /\ new.bounces = old.bounces => Written(cur, old, new).bounces = cur.bounces
           /\ new = old => Written(cur, old, new) = cur
<1>1. DOMAIN cur = {"state", "verified", "reason", "bounces"}
  BY DEF Entry
<1>2. Written(cur, old, new).bounces =
        IF new.bounces # old.bounces THEN new.bounces ELSE cur.bounces
  BY <1>1 DEF Written
<1>3. ASSUME new = old PROVE Written(cur, old, new) = cur
  <2>1. Written(cur, old, new) = [c \in DOMAIN cur |-> cur[c]]
    BY <1>3 DEF Written
  <2>2. cur = [c \in DOMAIN cur |-> cur[c]]
    BY DEF Entry
  <2>. QED  BY <2>1, <2>2
<1>. QED  BY <1>2, <1>3

LEMMA SoundUpdateCommit ==
    ASSUME IInv, IInv', Sound, NEW w \in Workers, UpdateCommit(w) PROVE Sound'
<1>. DEFINE t == tx[w]
            wr == Written(row[t.row], t.old, t.new)
<1>1. t.does = "update" /\ tx' = [tx EXCEPT ![w] = Idle]
      /\ UNCHANGED <<msg, happened, recorded, overwritten>>
      /\ row' = IF t.row \in Live THEN [row EXCEPT ![t.row] = wr] ELSE row
  BY DEF UpdateCommit
<1>2. t.row \in Rows /\ t.old \in Entry /\ t.new \in Entry /\ t.new.state = t.old.state
  BY <1>1 DEF IInv, UpdatesHaveTokens
<1>3. row[t.row] \in Entry
  BY <1>2 DEF IInv, Types
<1>4. t.new.bounces \in {0, t.old.bounces}
  BY <1>1 DEF Sound, BouncesPlanned
<1>5. wr.state = row[t.row].state /\ wr.bounces \in {0, row[t.row].bounces}
  <2>1. wr.state = row[t.row].state
    BY <1>2, <1>3, WrittenEntry
  <2>2. /\ wr.bounces \in {row[t.row].bounces, t.new.bounces}
        /\ t.new.bounces = t.old.bounces => wr.bounces = row[t.row].bounces
    BY <1>2, <1>3, WrittenBounces
  <2>. QED  BY <1>4, <2>1, <2>2
<1>. HIDE DEF wr
<1>6. \A r \in Rows : /\ row'[r].state = row[r].state
                      /\ r \notin Live => row'[r] = row[r]
                      /\ row'[r].bounces \in {0, row[r].bounces}
  BY <1>1, <1>2, <1>5 DEF IInv, Types
<1>7. LiveRows'
  BY <1>6, LiveRowsStay DEF Sound
<1>8. Grows /\ Records'
  BY <1>1 DEF Grows, Sound, Records
<1>9. BouncesPlanned(w)'
  BY <1>1 DEF IInv, Types, Idle, BouncesPlanned
<1>10. \A v \in Workers : tx'[v] = tx[v] \/ BouncesPlanned(v)'
  BY <1>1, <1>9 DEF IInv, Types
<1>. QED  BY <1>6, <1>7, <1>8, <1>10, SoundByParts

LEMMA OutputBounces ==
    ASSUME NEW e \in Entry, NEW k \in Notifications
    PROVE  \/ Output(k, e).bounces \in {0, e.bounces}
           \/ k = "Transient" /\ Output(k, e).bounces = e.bounces + 1
<1>1. Reset(e) \in Entry /\ Reset(e).bounces = 0
  BY DEF Reset, Entry
<1>2. ASSUME NEW f \in Entry, NEW why PROVE Unverified(f, why).bounces = f.bounces
  BY DEF Unverified, Entry
<1>3. Counted(e).bounces = e.bounces + 1
  <2>. DEFINE c == [e EXCEPT !.bounces = @ + 1]
  <2>1. c \in Entry /\ c.bounces = e.bounces + 1
    BY DEF Entry
  <2>. HIDE DEF c
  <2>2. Counted(e) = IF c.bounces > MaxTransientBounces THEN Unverified(c, "soft bounce") ELSE c
    BY DEF Counted, c
  <2>. QED  BY <1>2, <2>1, <2>2
<1>4. \/ k = "Delivery" /\ Output(k, e) = Reset(e)
      \/ k = "Bounce" /\ Output(k, e) = Unverified(Reset(e), "hard bounce")
      \/ k = "Transient" /\ Output(k, e) = Counted(e)
      \/ k = "Complaint" /\ Output(k, e) = Unverified(e, "spam complaint")
  BY DEF Output, Notifications
<1>. QED  BY <1>1, <1>2, <1>3, <1>4

LEMMA SoundNotify ==
    ASSUME IInv, IInv', Sound, NEW w \in Workers, NEW m \in Messages, NEW k \in Notifications,
           Notify(w, m, k)
    PROVE  Sound'
<1>. DEFINE looks == HasOutput(msg[m].status, k) /\ ~msg[m].missing
            found == IF looks THEN LiveAt(msg[m].to) ELSE {}
            rows == {[row |-> r, old |-> row[r], new |-> Output(k, row[r])] : r \in found}
<1>1. /\ UNCHANGED <<row, msg, happened, recorded, overwritten>>
      /\ k \in happened[m] \ recorded[m]
      /\ \A v \in Workers : v # w => tx'[v] = tx[v]
  BY DEF Notify, IInv, Types
<1>2. /\ tx'[w].does = "notify" /\ tx'[w].msg = m /\ tx'[w].kind = k
      /\ tx'[w].rows = rows
  BY DEF Notify, IInv, Types
<1>3. found \subseteq Rows
  BY DEF LiveAt, Live
<1>. HIDE DEF found
<1>4. k = "Transient" => Transients \ {m} = Transients
  BY <1>1 DEF Transients
<1>5. ASSUME NEW u \in rows
      PROVE  \/ u.new.bounces \in {0, u.old.bounces}
             \/ /\ k = "Transient"
                /\ u.new.bounces \in 0..(Cardinality(Transients \ {m}) + 1)
  <2>1. PICK r \in found : u = [row |-> r, old |-> row[r], new |-> Output(k, row[r])]
    OBVIOUS
  <2>2. r \in Rows /\ row[r] \in Entry
    BY <1>3 DEF IInv, Types
  <2>3. row[r].bounces \in 0..Cardinality(Transients) /\ Cardinality(Transients) \in Nat
    <3>1. IsFiniteSet(Transients)
      BY MessagesAssumption, FS_Subset DEF Transients
    <3>. QED  BY <2>2, <3>1, FS_CardinalityType DEF Sound, CountedBounces
  <2>4. \/ Output(k, row[r]).bounces \in {0, row[r].bounces}
        \/ k = "Transient" /\ Output(k, row[r]).bounces = row[r].bounces + 1
    BY <2>2, OutputBounces
  <2>. QED  BY <1>4, <2>1, <2>3, <2>4
<1>. HIDE DEF rows
<1>6. Transients' = Transients
  BY <1>1 DEF Transients
<1>7. BouncesPlanned(w)'
  BY <1>1, <1>2, <1>5, <1>6 DEF BouncesPlanned
<1>. QED  BY <1>1, <1>7, SoundMessageStep

LEMMA SoundNotifyCommit ==
    ASSUME IInv, IInv', Sound, NEW w \in Workers, NotifyCommit(w) PROVE Sound'
<1>. DEFINE t == tx[w]
<1>1. t.does = "notify" /\ tx' = [tx EXCEPT ![w] = Idle] /\ UNCHANGED happened
  BY DEF NotifyCommit
<1>2. /\ t.msg \in Messages /\ t.kind \in Notifications /\ t.kind \in happened[t.msg]
      /\ msg[t.msg].status # "Unsent"
  BY <1>1 DEF IInv, NotificationsVerifyNothing, Sound, BouncesPlanned
<1>3. \A v \in Workers : tx'[v] = tx[v] \/ BouncesPlanned(v)'
  BY <1>1 DEF IInv, Types, Idle, BouncesPlanned
<1>4. CASE Refused(t)
  <2>1. UNCHANGED <<row, msg, recorded, overwritten>>
    BY <1>4 DEF NotifyCommit
  <2>. QED  BY <1>1, <1>3, <2>1, SoundMessageStep
<1>5. CASE ~Refused(t)
  <2>. DEFINE after(r) == IF \E u \in t.rows : u.row = r
                          THEN LET u == CHOOSE u \in t.rows : u.row = r
                               IN  Written(row[r], u.old, u.new)
                          ELSE row[r]
  <2>1. /\ row' = [r \in Rows |-> after(r)]
        /\ recorded' = [recorded EXCEPT ![t.msg] = @ \cup {t.kind}]
        /\ overwritten' \in {overwritten, overwritten \cup {t.msg}}
    BY <1>5 DEF NotifyCommit
  <2>2. \A m \in Messages : msg[m].status # "Unsent" => msg'[m].to = msg[m].to
    <3>1. msg' = [msg EXCEPT ![t.msg] = Written(@, t.old, t.new)]
      BY <1>5 DEF NotifyCommit
    <3>2. t.old \in Message /\ t.new \in Message /\ t.new.to = t.old.to
      BY <1>1 DEF IInv, NotificationsVerifyNothing
    <3>3. Written(msg[t.msg], t.old, t.new).to = msg[t.msg].to
      BY <1>2, <3>2, WrittenMessage DEF IInv, Types
    <3>. QED  BY <3>1, <3>3 DEF IInv, Types
  <2>3. Grows
    BY <1>1, <1>2, <2>1 DEF Grows, Sound, Records
  <2>4. \A m \in Messages : msg'[m].status # "Unsent" => msg[m].status # "Unsent"
    <3>1. msg' = [msg EXCEPT ![t.msg] = Written(@, t.old, t.new)]
      BY <1>5 DEF NotifyCommit
    <3>. QED  BY <1>2, <3>1 DEF IInv, Types
  <2>5. Records'
    BY <1>1, <1>2, <2>1, <2>2, <2>4 DEF Sound, Records
  <2>6. t.kind \notin recorded[t.msg] /\ \A u \in t.rows : u.row \in Live \/ u.new = u.old
    BY <1>5 DEF Refused
  <2>7. t.kind = "Transient" =>
           Cardinality(Transients') = Cardinality(Transients \ {t.msg}) + 1
    <3>. SUFFICES ASSUME t.kind = "Transient"
                  PROVE  Cardinality(Transients') = Cardinality(Transients \ {t.msg}) + 1
      OBVIOUS
    <3>1. t.msg \notin Transients /\ Transients' = Transients \cup {t.msg}
      BY <1>2, <2>1, <2>6 DEF Transients, Sound, Records
    <3>2. IsFiniteSet(Transients) /\ Transients \ {t.msg} = Transients
      BY <3>1, MessagesAssumption, FS_Subset DEF Transients
    <3>. QED  BY <3>1, <3>2, FS_AddElement
  <2>8. ASSUME NEW r \in Rows
        PROVE  /\ after(r).state = row[r].state
               /\ r \notin Live => after(r) = row[r]
               /\ \/ after(r).bounces \in {0, row[r].bounces}
                  \/ after(r).bounces \in 0..Cardinality(Transients')
    <3>1. CASE ~\E u \in t.rows : u.row = r
      BY <3>1
    <3>2. CASE \E u \in t.rows : u.row = r
      <4>1. PICK u \in t.rows : u.row = r /\ after(r) = Written(row[r], u.old, u.new)
        BY <3>2
      <4>2. u.old \in Entry /\ u.new \in Entry /\ u.new.state = u.old.state /\ row[r] \in Entry
        BY <1>1 DEF IInv, NotificationsVerifyNothing, Types
      <4>3. \/ u.new.bounces \in {0, u.old.bounces}
            \/ u.new.bounces \in 0..Cardinality(Transients')
        BY <1>1, <2>7 DEF Sound, BouncesPlanned
      <4>4. r \notin Live => u.new = u.old
        BY <2>6, <4>1
      <4>. DEFINE wr == Written(row[r], u.old, u.new)
      <4>5. wr.state = row[r].state
        BY <4>2, WrittenEntry
      <4>6. /\ wr.bounces \in {row[r].bounces, u.new.bounces}
            /\ u.new.bounces = u.old.bounces => wr.bounces = row[r].bounces
            /\ u.new = u.old => wr = row[r]
        BY <4>2, WrittenBounces
      <4>. HIDE DEF after, wr
      <4>7. after(r) = wr
        BY <4>1 DEF wr
      <4>. QED  BY <4>3, <4>4, <4>5, <4>6, <4>7
    <3>. QED  BY <3>1, <3>2
  <2>. HIDE DEF after
  <2>9. LiveRows'
    BY <2>1, <2>8, LiveRowsStay DEF Sound
  <2>. QED  BY <1>3, <2>1, <2>3, <2>5, <2>8, <2>9, SoundByParts
<1>. QED  BY <1>4, <1>5

LEMMA SoundStep == ASSUME IInv, IInv', Sound, [Next]_vars PROVE Sound'
<1>1. CASE UNCHANGED vars
  BY <1>1, SoundMessageStep DEF vars
<1>. QED
  BY <1>1, SoundAddEmail, SoundDeleteEmail, SoundSendToken, SoundHappen, SoundVerifyEmail,
     SoundDomainExpired, SoundUpdateCommit, SoundNotify, SoundNotifyCommit
  DEF Next

\* The variables of EmailAddresses keep their types: concurrent notifications (ses/views.py) count
\* no more bounces than there are messages, a deleted row takes no late write, and no address has
\* two rows.
THEOREM TypeCorrect == Spec => []TypeOK
<1>1. ASSUME IInv, Sound PROVE TypeOK
  <2>1. ASSUME NEW r \in Rows
        PROVE  /\ row[r].state \in {"absent", "live", "deleted"}
               /\ row[r].verified \in BOOLEAN /\ row[r].reason \in Reasons
               /\ row[r].bounces \in 0..Cardinality(Messages)
               /\ r \notin Live => row[r] = [Absent EXCEPT !.state = row[r].state]
               /\ r \in Live => LiveAt(r) = {r}
    <3>1. row[r] \in Entry
      BY <1>1 DEF IInv, Types
    <3>2. IsFiniteSet(Transients) /\ Cardinality(Transients) <= Cardinality(Messages)
      BY MessagesAssumption, FS_Subset DEF Transients
    <3>3. Cardinality(Transients) \in Nat /\ Cardinality(Messages) \in Nat
      BY <3>2, MessagesAssumption, FS_CardinalityType
    <3>4. row[r].bounces \in 0..Cardinality(Messages)
      BY <1>1, <3>2, <3>3 DEF Sound, CountedBounces
    <3>5. r \in Live => LiveAt(r) = {r}
      BY <1>1 DEF Sound, LiveRows, LiveAt
    <3>. QED  BY <1>1, <3>1, <3>4, <3>5 DEF Sound, LiveRows, Entry
  <2>2. ASSUME NEW m \in Messages
        PROVE  /\ msg[m].status \in Statuses /\ msg[m].missing \in BOOLEAN
               /\ msg[m] # Unsent => msg[m].to \in Rows
               /\ recorded[m] \subseteq happened[m] /\ happened[m] \subseteq Notifications
    BY <1>1 DEF IInv, Types, NobodyIsSent, Message, Sound, Records
  <2>. QED  BY <1>1, <2>1, <2>2 DEF TypeOK, Sound, Records
<1>2. Spec => []Sound
  BY Invariance, SoundInit, SoundStep, PTL DEF Spec
<1>. QED  BY <1>1, <1>2, Invariance, PTL
=============================================================================
