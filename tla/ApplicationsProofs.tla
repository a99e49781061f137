-------------------------- MODULE ApplicationsProofs --------------------------
(* Names and approvals: theorems about Applications. *)
EXTENDS Applications, TLAPS

Approves(w) == tx[w].does = "approve"
Creates(w) == tx[w].does = "approve" /\ tx[w].org # None

Transactions ==
    /\ DOMAIN tx = Workers
    /\ \A w \in Workers : tx[w].does = "answer" => tx[w].app \in Apps /\ tx[w].request \in Nat
    /\ \A w \in Workers : tx[w].does = "edit" => tx[w].app \in Apps /\ tx[w].name \in Names
    /\ \A w \in Workers : Approves(w) =>
          /\ tx[w].app \in Apps /\ tx[w].app \notin undefer
          /\ tx[w].org \in Orgs \cup {None} /\ tx[w].claim \in BOOLEAN

\* What a worker that inserts an organization has checked still holds when it commits.  Of the
\* applications it declines, only one that was renamed in between can have been approved.
Approvable(w, b) == status[b] # "Approved" \/ RenamedSince(w, b)

StillMay(w) ==
    /\ orgName[tx[w].org] = "unused" /\ MayTake(nameOf[tx[w].app], tx[w].claim)
    /\ tx[w].declines \subseteq Apps
    /\ \A b \in tx[w].declines : Approvable(w, b)

Alone ==
    \A v, w \in Workers : Creates(v) /\ Creates(w) =>
       v = w \/ (nameOf[tx[v].app] # nameOf[tx[w].app] /\ tx[v].org # tx[w].org)

\* An organization keeps, renamed or not, the name it was approved for.
FirstName == \A o \in Live : born[o].name \in Names /\ catalog[born[o].name] = o

\* What does not exist was not approved.
Unused == \A o \in Orgs : orgName[o] = "unused" => born[o] = Unborn

Undeferring == \A a \in undefer : status[a] = "Deferred"

IInv ==
    /\ TypeOK /\ Transactions /\ Alone /\ FirstName /\ Unused /\ Undeferring
    /\ \A w \in Workers : Creates(w) => StillMay(w)

LEMMA InitInv == Init => IInv
<1>. SUFFICES ASSUME Init PROVE IInv
  OBVIOUS
<1>1. \A w \in Workers : tx[w].does = "nothing"
  BY DEF Init, Idle
<1>2. Live = {}
  BY MarksAssumption DEF Init, Live
<1>3. TypeOK
  BY RequestsAssumption DEF Init, TypeOK
<1>. QED
  BY <1>1, <1>2, <1>3
  DEF Init, IInv, Transactions, Approves, Creates, Alone, FirstName, Unused, Undeferring

-----------------------------------------------------------------------------
(* Steps that leave the catalog and the organizations alone.               *)
LEMMA NamesKept ==
    ASSUME IInv, UNCHANGED names, TypeOK', DOMAIN tx' = Workers, Undeferring',
           \A a \in Apps : status'[a] = "Approved" => status[a] = "Approved",
           \A w \in Workers :
              \/ tx'[w] = tx[w]
              \/ tx'[w].does = "nothing"
              \/ tx'[w].does = "answer" /\ tx'[w].app \in Apps /\ tx'[w].request \in Nat
              \/ tx'[w].does = "edit" /\ tx'[w].app \in Apps /\ tx'[w].name \in Names
              \/ \E a \in Apps, claim \in BOOLEAN : tx'[w] = Approving(a, claim),
           \A w \in Workers : tx'[w].does = "approve" =>
              tx'[w].app \notin undefer' /\ nameOf'[tx'[w].app] = nameOf[tx'[w].app]
    PROVE  IInv'
<1>1. Transactions'
  BY DEF IInv, Transactions, Approves, Approving
<1>2. \A w \in Workers : Creates(w)' =>
         Creates(w) /\ tx'[w] = tx[w] /\ nameOf'[tx[w].app] = nameOf[tx[w].app]
  BY DEF Creates, Approving
<1>3. \A w \in Workers : Creates(w)' => StillMay(w)'
  <2>1. ASSUME NEW w \in Workers, Creates(w)' PROVE StillMay(w)'
    <3>1. StillMay(w) /\ tx'[w] = tx[w] /\ nameOf'[tx[w].app] = nameOf[tx[w].app]
      BY <1>2, <2>1 DEF IInv
    <3>2. \A b \in tx[w].declines : Approvable(w, b)'
      BY <3>1 DEF StillMay, Approvable, RenamedSince, names
    <3>. QED  BY <3>1, <3>2 DEF StillMay, MayTake, names
  <2>. QED  BY <2>1
<1>4. Alone'
  BY <1>2 DEF IInv, Alone
<1>5. FirstName' /\ Unused'
  BY DEF IInv, FirstName, Unused, Live, names
<1>. QED  BY <1>1, <1>3, <1>4, <1>5 DEF IInv

(* The steps that change the status of one application, or of none.        *)
LEMMA StatusKept ==
    ASSUME IInv, UNCHANGED <<names, tx, undefer>>, TypeOK', Undeferring',
           \A w \in Workers : Approves(w) => nameOf'[tx[w].app] = nameOf[tx[w].app],
           \A a \in Apps : status'[a] = "Approved" => status[a] = "Approved"
    PROVE  IInv'
  BY NamesKept DEF IInv, Transactions, Approves

LEMMA SubmitStep == ASSUME IInv, NEW a \in Apps, Submit(a) PROVE IInv'
<1>1. TypeOK' /\ Undeferring'
  BY DEF IInv, TypeOK, Undeferring, Submit, names, asks, tasks, OPEN, Live
<1>2. \A b \in Apps : status'[b] = "Approved" => status[b] = "Approved"
  BY DEF IInv, TypeOK, Submit
<1>. QED  BY <1>1, <1>2, StatusKept DEF Submit, tasks

LEMMA WithdrawStep == ASSUME IInv, NEW a \in Apps, Withdraw(a) PROVE IInv'
<1>1. TypeOK' /\ Undeferring'
  BY DEF IInv, TypeOK, Undeferring, Withdraw, Unlocked, names, asks, tasks, OPEN, CLOSED, Live
<1>2. \A b \in Apps : status'[b] = "Approved" => status[b] = "Approved"
  BY DEF IInv, TypeOK, Withdraw
<1>. QED  BY <1>1, <1>2, StatusKept DEF Withdraw, tasks

LEMMA DecideStep ==
    ASSUME IInv, NEW a \in Apps, NEW to \in {"Deferred", "Declined", "MoreInformationNeeded"},
           Decide(a, to), UNCHANGED <<nameOf, names, tx, tasks>>,
           asked' \in [Apps -> 0..MaxRequests], open' \in [Apps -> SUBSET (1..MaxRequests)]
    PROVE  IInv'
<1>1. TypeOK' /\ Undeferring'
  BY DEF IInv, TypeOK, Undeferring, Decide, Unlocked, names, tasks, OPEN, CLOSED, Live
<1>2. \A b \in Apps : status'[b] = "Approved" => status[b] = "Approved"
  BY DEF IInv, TypeOK, Decide
<1>. QED  BY <1>1, <1>2, StatusKept DEF tasks

LEMMA DeferDeclineStep == ASSUME IInv, NEW a \in Apps, Defer(a) \/ Decline(a) PROVE IInv'
  BY DecideStep DEF Defer, Decline, IInv, TypeOK, asks

LEMMA RequestMoreInfoStep == ASSUME IInv, NEW a \in Apps, RequestMoreInfo(a) PROVE IInv'
<1>1. asked' \in [Apps -> 0..MaxRequests] /\ open' \in [Apps -> SUBSET (1..MaxRequests)]
  <2>1. asked[a] \in 0..MaxRequests /\ asked[a] < MaxRequests
    BY DEF RequestMoreInfo, IInv, TypeOK
  <2>2. asked[a] + 1 \in 1..MaxRequests
    BY <2>1, RequestsAssumption
  <2>. QED  BY <2>2, RequestsAssumption DEF RequestMoreInfo, IInv, TypeOK
<1>. QED  BY <1>1, DecideStep DEF RequestMoreInfo

LEMMA DeleteDeclinedStep == ASSUME IInv, NEW a \in Apps, DeleteDeclined(a) PROVE IInv'
<1>1. TypeOK' /\ Undeferring'
  BY DEF IInv, TypeOK, Undeferring, DeleteDeclined, names, asks, Live
<1>. QED  BY <1>1, StatusKept DEF DeleteDeclined

LEMMA DeleteCommitStep == ASSUME IInv, DeleteCommit PROVE IInv'
<1>1. TypeOK' /\ Undeferring'
  BY DEF IInv, TypeOK, Undeferring, DeleteCommit, Unlocked, names, asks, Live
<1>2. \A b \in Apps : status'[b] = "Approved" => status[b] = "Approved"
  BY DEF DeleteCommit
<1>. QED  BY <1>1, <1>2, StatusKept DEF DeleteCommit

LEMMA AnswerStep ==
    ASSUME IInv, NEW w \in Workers, NEW a \in Apps, Answer(w, a) PROVE IInv'
<1>1. PICK r \in 1..asked[a] : tx' = [tx EXCEPT ![w] = Answering(a, r)]
  BY DEF Answer
<1>2. r \in Nat
  BY <1>1 DEF IInv, TypeOK
<1>3. UNCHANGED <<status, nameOf, open, asked, names, undefer, doomed>>
  BY DEF Answer, asks, tasks
<1>4. TypeOK' /\ Undeferring'
  BY <1>3 DEF IInv, TypeOK, Undeferring, names, Live
<1>5. tx'[w].does = "answer" /\ tx'[w].app = a /\ tx'[w].request = r
  BY <1>1 DEF Answering, IInv, Transactions
<1>6. \A v \in Workers : v # w => tx'[v] = tx[v]
  BY <1>1 DEF IInv, Transactions
<1>7. DOMAIN tx' = Workers
  BY <1>1 DEF IInv, Transactions
<1>8. \A v \in Workers : tx'[v].does = "approve" => tx'[v].app \notin undefer'
  BY <1>3, <1>5, <1>6 DEF IInv, Transactions, Approves
<1>. QED  BY <1>2, <1>3, <1>4, <1>5, <1>6, <1>7, <1>8, NamesKept

LEMMA EditStep ==
    ASSUME IInv, NEW w \in Workers, NEW a \in Apps, NEW n \in Names, Edit(w, a, n) PROVE IInv'
<1>1. UNCHANGED <<status, nameOf, open, asked, names, undefer, doomed>>
  BY DEF Edit, asks, tasks
<1>2. TypeOK' /\ Undeferring'
  BY <1>1 DEF IInv, TypeOK, Undeferring, names, Live
<1>3. /\ tx'[w].does = "edit" /\ tx'[w].app = a /\ tx'[w].name = n /\ DOMAIN tx' = Workers
      /\ \A v \in Workers : v # w => tx'[v] = tx[v]
  BY DEF Edit, Editing, IInv, Transactions
<1>4. \A v \in Workers : tx'[v].does = "approve" => tx'[v].app \notin undefer'
  BY <1>1, <1>3 DEF IInv, Transactions, Approves
<1>. QED  BY <1>1, <1>2, <1>3, <1>4, NamesKept

LEMMA ApproveStep ==
    ASSUME IInv, NEW w \in Workers, NEW a \in Apps, NEW claim \in BOOLEAN, Approve(w, a, claim)
    PROVE  IInv'
<1>1. UNCHANGED <<status, nameOf, open, asked, names, undefer, doomed>>
  BY DEF Approve, asks, tasks
<1>2. TypeOK' /\ Undeferring'
  BY <1>1 DEF IInv, TypeOK, Undeferring, names, Live
<1>3. tx' = [tx EXCEPT ![w] = Approving(a, claim)] /\ a \notin undefer
  BY DEF Approve, Unlocked
<1>4. \A v \in Workers : v # w => tx'[v] = tx[v]
  BY <1>3 DEF IInv, Transactions
<1>5. tx'[w] = Approving(a, claim) /\ DOMAIN tx' = Workers
  BY <1>3 DEF IInv, Transactions
<1>6. \A v \in Workers : tx'[v].does = "approve" => tx'[v].app \notin undefer'
  BY <1>1, <1>3, <1>4, <1>5 DEF IInv, Transactions, Approves, Approving
<1>. QED  BY <1>1, <1>2, <1>4, <1>5, <1>6, NamesKept

LEMMA TxEnds ==
    ASSUME IInv, NEW w \in Workers, tx' = [tx EXCEPT ![w] = Idle]
    PROVE  /\ DOMAIN tx' = Workers /\ tx'[w].does = "nothing"
           /\ \A v \in Workers \ {w} : tx'[v] = tx[v]
           /\ \A v \in Workers : tx'[v].does = "approve" =>
                 tx[v].does = "approve" /\ tx'[v] = tx[v] /\ tx'[v].app \notin undefer
  BY DEF IInv, Transactions, Approves, Idle

LEMMA RollbackStep == ASSUME IInv, NEW w \in Workers, Rollback(w) PROVE IInv'
<1>1. UNCHANGED <<status, nameOf, open, asked, names, undefer, doomed>>
  BY DEF Rollback, asks, tasks
<1>2. TypeOK' /\ Undeferring'
  BY <1>1 DEF IInv, TypeOK, Undeferring, names, Live
<1>3. tx' = [tx EXCEPT ![w] = Idle]
  BY DEF Rollback
<1>. QED  BY <1>1, <1>2, <1>3, TxEnds, NamesKept

LEMMA EditCommitStep == ASSUME IInv, NEW w \in Workers, EditCommit(w) PROVE IInv'
<1>. DEFINE a == tx[w].app
<1>1. /\ UNCHANGED <<status, open, asked, names, undefer, doomed>>
      /\ tx' = [tx EXCEPT ![w] = Idle] /\ Unlocked(a)
      /\ nameOf' = [nameOf EXCEPT ![a] = tx[w].name]
  BY DEF EditCommit, asks, tasks
<1>2. a \in Apps /\ tx[w].name \in Names
  BY DEF EditCommit, IInv, Transactions
<1>. HIDE DEF a
<1>3. TypeOK' /\ Undeferring'
  BY <1>1, <1>2 DEF IInv, TypeOK, Undeferring, names, Live
<1>4. \A v \in Workers : tx'[v].does = "approve" =>
         tx'[v].app \notin undefer' /\ nameOf'[tx'[v].app] = nameOf[tx'[v].app]
  <2>1. \A v \in Workers : tx[v].does = "approve" => tx[v].app # a
    BY <1>1 DEF Unlocked
  <2>2. \A v \in Workers : tx'[v].does = "approve" =>
           tx'[v] = tx[v] /\ tx'[v].app # a /\ tx'[v].app \notin undefer
    BY <1>1, <2>1, TxEnds
  <2>. QED  BY <1>1, <2>2 DEF IInv, TypeOK
<1>. QED  BY <1>1, <1>3, <1>4, TxEnds, NamesKept

LEMMA AnswerCommitStep == ASSUME IInv, NEW w \in Workers, AnswerCommit(w) PROVE IInv'
<1>. DEFINE a == tx[w].app
            returns == tx[w].all /\ tx[w].seen # "Submitted"
<1>1. /\ UNCHANGED <<nameOf, asked, names, undefer, doomed>> /\ tx' = [tx EXCEPT ![w] = Idle]
      /\ open' = [open EXCEPT ![a] = @ \ {tx[w].request}]
      /\ status' = [status EXCEPT ![a] = IF returns THEN "Submitted" ELSE @]
      /\ returns => Unlocked(a)
      /\ status[a] # "gone"
  BY DEF AnswerCommit, tasks
<1>2. a \in Apps
  BY DEF AnswerCommit, IInv, Transactions
<1>. HIDE DEF a, returns
<1>3. \/ status' = [status EXCEPT ![a] = "Submitted"] /\ Unlocked(a)
      \/ status' = status
  BY <1>1, <1>2 DEF IInv, TypeOK
<1>4. open' \in [Apps -> SUBSET (1..MaxRequests)]
  BY <1>1, <1>2 DEF IInv, TypeOK
<1>5. TypeOK' /\ Undeferring'
  BY <1>1, <1>2, <1>3, <1>4 DEF IInv, TypeOK, Undeferring, Unlocked, names, OPEN, Live
<1>6. \A b \in Apps : status'[b] = "Approved" => status[b] = "Approved"
  BY <1>2, <1>3 DEF IInv, TypeOK
<1>. QED  BY <1>1, <1>5, <1>6, TxEnds, NamesKept

LEMMA UndeferStep == ASSUME IInv, Undefer \/ UndeferFails PROVE IInv'
<1>1. /\ UNCHANGED <<status, nameOf, open, asked, names, tx, doomed>>
      /\ undefer' \subseteq Selectable
  BY DEF Undefer, UndeferFails, asks
<1>2. TypeOK' /\ Undeferring'
  BY <1>1 DEF IInv, TypeOK, Undeferring, names, Live, Selectable
<1>3. \A v \in Workers : tx'[v].does = "approve" => tx'[v].app \notin undefer'
  BY <1>1 DEF Selectable, Unlocked, IInv, Transactions, Approves
<1>. QED  BY <1>1, <1>2, <1>3, NamesKept DEF IInv, Transactions

LEMMA UndeferCommitStep == ASSUME IInv, UndeferCommit PROVE IInv'
<1>1. /\ UNCHANGED <<nameOf, open, asked, names, tx, doomed>> /\ undefer' = {}
      /\ status' = [a \in Apps |-> IF a \in undefer THEN "Submitted" ELSE status[a]]
  BY DEF UndeferCommit, asks
<1>2. TypeOK' /\ Undeferring'
  BY <1>1 DEF IInv, TypeOK, Undeferring, names, Live, OPEN
<1>. QED  BY <1>1, <1>2, NamesKept DEF IInv, Transactions, Approves

-----------------------------------------------------------------------------
(* Steps that change the catalog or the organizations.                     *)
LEMMA CreateOrganizationStep == ASSUME IInv, NEW w \in Workers, CreateOrganization(w) PROVE IInv'
<1>. DEFINE n == nameOf[tx[w].app]
            declines == {b \in Apps \ {tx[w].app} : nameOf[b] = n /\ status[b] \in DECLINED_ON_APPROVAL}
<1>1. PICK o \in Orgs :
        /\ orgName[o] = "unused"
        /\ \A v \in Workers : tx[v].does = "approve" => tx[v].org # o
        /\ tx' = [tx EXCEPT ![w].org = o, ![w].declines = declines]
  BY DEF CreateOrganization
<1>2. /\ UNCHANGED <<status, nameOf, open, asked, names, undefer, doomed>>
      /\ tx[w].does = "approve" /\ ~Creating(n) /\ MayTake(n, tx[w].claim)
  BY DEF CreateOrganization, asks, tasks
<1>3. /\ DOMAIN tx' = Workers /\ \A v \in Workers \ {w} : tx'[v] = tx[v]
      /\ tx'[w].does = tx[w].does /\ tx'[w].app = tx[w].app /\ tx'[w].claim = tx[w].claim
      /\ Creates(w)' => tx'[w].org = o /\ tx'[w].declines = declines
      /\ tx'[w].org \in Orgs \cup {None}
  BY <1>1, <1>2, MarksAssumption DEF IInv, Transactions, Approves, Creates, None
<1>. HIDE DEF declines
<1>4. TypeOK' /\ Undeferring' /\ FirstName' /\ Unused'
  BY <1>2 DEF IInv, TypeOK, Undeferring, FirstName, Unused, names, Live
<1>5. Transactions'
  BY <1>2, <1>3 DEF IInv, Transactions, Approves
<1>6. ASSUME NEW v \in Workers, Creates(v)' PROVE StillMay(v)'
  <2>1. CASE v = w
    <3>1. declines \subseteq Apps /\ \A b \in declines : status[b] # "Approved"
      BY DEF declines, DECLINED_ON_APPROVAL
    <3>. QED  BY <1>1, <1>2, <1>3, <1>6, <2>1, <3>1 DEF StillMay, Approvable, MayTake, names
  <2>2. CASE v # w
    BY <1>2, <1>3, <1>6, <2>2
    DEF IInv, StillMay, Approvable, RenamedSince, Creates, MayTake, names
  <2>. QED  BY <2>1, <2>2
<1>7. Alone'
  <2>1. \A v \in Workers \ {w} : Creates(v)' => Creates(v) /\ nameOf[tx[v].app] # n /\ tx[v].org # o
    BY <1>1, <1>2, <1>3 DEF Creates, Creating
  <2>. QED  BY <1>2, <1>3, <2>1 DEF IInv, Alone, Creates
<1>. QED  BY <1>4, <1>5, <1>6, <1>7 DEF IInv

LEMMA ApproveCommitStep == ASSUME IInv, NEW w \in Workers, ApproveCommit(w) PROVE IInv'
<1>. DEFINE a == tx[w].app
            o == tx[w].org
            n == nameOf[a]
<1>1. /\ Creates(w) /\ UNCHANGED <<nameOf, open, asked, undefer, doomed>>
      /\ tx' = [tx EXCEPT ![w] = Idle]
      /\ \A b \in tx[w].declines : Unlocked(b)
      /\ status' = [b \in Apps |-> IF b = a THEN "Approved"
                                   ELSE IF b \in tx[w].declines THEN "Declined" ELSE status[b]]
      /\ catalog' = [catalog EXCEPT ![n] = o] /\ orgName' = [orgName EXCEPT ![o] = n]
      /\ born' = [born EXCEPT ![o] = [app |-> a, name |-> n]]
  BY DEF ApproveCommit, Creates, asks, tasks
<1>2. /\ a \in Apps /\ o \in Orgs /\ n \in Names /\ a \notin undefer
      /\ orgName[o] = "unused" /\ catalog[n] \in {"free", "orphan"}
  BY <1>1 DEF IInv, TypeOK, Transactions, Approves, Creates, StillMay, MayTake
<1>3. /\ DOMAIN tx' = Workers /\ tx'[w].does = "nothing"
      /\ \A v \in Workers \ {w} : tx'[v] = tx[v]
  BY <1>1 DEF IInv, Transactions, Idle
<1>4. \A v \in Workers : Creates(v) => v = w \/ (tx[v].org # o /\ nameOf[tx[v].app] # n)
  BY <1>1 DEF IInv, Alone
<1>5. born[o] = Unborn /\ born'[o] = [app |-> a, name |-> n]
      /\ \A p \in Orgs : p # o => born'[p] = born[p]
  BY <1>1, <1>2 DEF IInv, Unused, TypeOK
<1>. HIDE DEF a, o, n
<1>6. Live' = Live \cup {o} /\ o \notin Live
  BY <1>1, <1>2, MarksAssumption DEF IInv, TypeOK, Live
<1>7. TypeOK'
  BY <1>1, <1>2, <1>6 DEF IInv, TypeOK, CLOSED
<1>8. Undeferring'
  BY <1>1, <1>2 DEF IInv, TypeOK, Undeferring, Unlocked
<1>9. Transactions'
  BY <1>1, <1>3 DEF IInv, Transactions, Approves
<1>10. \A v \in Workers : Creates(v)' => v # w /\ Creates(v) /\ tx'[v] = tx[v]
  BY <1>3 DEF Creates
<1>11. Alone'
  BY <1>1, <1>10 DEF IInv, Alone
<1>12. FirstName' /\ Unused'
  <2>1. \A p \in Live : /\ p # o /\ born'[p] = born[p]
                        /\ born[p].name \in Names /\ catalog[born[p].name] = p
    BY <1>5, <1>6 DEF IInv, FirstName, Live
  <2>2. \A p \in Live : born[p].name # n
    BY <1>2, <2>1, MarksAssumption DEF Live
  <2>3. \A p \in Live : catalog'[born[p].name] = p
    BY <1>1, <2>1, <2>2 DEF IInv, TypeOK
  <2>4. born'[o].name = n /\ catalog'[n] = o
    BY <1>1, <1>2, <1>5 DEF IInv, TypeOK
  <2>5. FirstName'
    BY <1>2, <1>6, <2>1, <2>3, <2>4 DEF FirstName
  <2>6. Unused'
    BY <1>1, <1>2, <1>5, MarksAssumption DEF IInv, Unused, TypeOK
  <2>. QED  BY <2>5, <2>6
<1>13. ASSUME NEW v \in Workers, Creates(v)' PROVE StillMay(v)'
  <2>1. StillMay(v) /\ tx[v].org # o /\ nameOf[tx[v].app] # n /\ tx'[v] = tx[v]
    BY <1>4, <1>10, <1>13 DEF IInv
  <2>2. orgName'[tx[v].org] = "unused"
    BY <1>1, <2>1 DEF StillMay
  <2>3. MayTake(nameOf[tx[v].app], tx[v].claim)'
    BY <1>1, <2>1 DEF StillMay, MayTake
  <2>4. ASSUME NEW b \in tx[v].declines PROVE Approvable(v, b)'
    <3>1. b \in Apps /\ Approvable(v, b)
      BY <2>1 DEF StillMay
    <3>2. CASE b = a
      BY <1>1, <1>2, <1>5, <2>1, <3>2 DEF Approvable, RenamedSince
    <3>3. CASE b # a /\ status[b] # "Approved"
      BY <1>1, <3>1, <3>3 DEF Approvable
    <3>4. CASE RenamedSince(v, b)
      <4>1. PICK p \in Orgs : born[p].app = b /\ born[p].name # nameOf[tx[v].app]
        BY <3>4 DEF RenamedSince
      <4>2. b # None
        BY <3>1, MarksAssumption DEF None
      <4>3. born'[p] = born[p]
        BY <1>5, <4>1, <4>2 DEF Unborn
      <4>. QED  BY <1>1, <2>1, <4>1, <4>3 DEF Approvable, RenamedSince
    <3>. QED  BY <3>1, <3>2, <3>3, <3>4 DEF Approvable
  <2>. QED  BY <2>1, <2>2, <2>3, <2>4 DEF StillMay
<1>. QED  BY <1>7, <1>8, <1>9, <1>11, <1>12, <1>13 DEF IInv

LEMMA RenameStep == ASSUME IInv, NEW o \in Orgs, NEW n \in Names, Rename(o, n) PROVE IInv'
<1>1. /\ o \in Live /\ ~Creating(n) /\ orgName' = [orgName EXCEPT ![o] = n]
      /\ UNCHANGED <<status, nameOf, open, asked, tx, undefer, doomed, born>>
      /\ catalog' = catalog \/ (catalog[n] \in {"free", o} /\ catalog' = [catalog EXCEPT ![n] = o])
  BY DEF Rename, asks, tasks
<1>2. Live' = Live
  BY <1>1 DEF IInv, TypeOK, Live
<1>3. TypeOK'
  BY <1>1, <1>2 DEF IInv, TypeOK
<1>4. Transactions' /\ Alone' /\ Undeferring'
  BY <1>1 DEF IInv, Transactions, Approves, Alone, Creates, Undeferring
<1>5. FirstName' /\ Unused'
  <2>1. \A p \in Live : born[p].name \in Names /\ catalog[born[p].name] = p /\ p # "free"
    BY MarksAssumption DEF IInv, FirstName, Live
  <2>2. \A p \in Live : catalog'[born[p].name] = p
    BY <1>1, <2>1 DEF IInv, TypeOK
  <2>3. Unused'
    BY <1>1, MarksAssumption DEF IInv, TypeOK, Unused
  <2>. QED  BY <1>1, <1>2, <2>1, <2>2, <2>3 DEF FirstName
<1>6. ASSUME NEW w \in Workers, Creates(w)' PROVE StillMay(w)'
  <2>1. Creates(w) /\ StillMay(w) /\ tx'[w] = tx[w]
    BY <1>1, <1>6 DEF IInv, Creates
  <2>2. nameOf[tx[w].app] # n
    BY <1>1, <2>1 DEF Creates, Creating
  <2>3. tx[w].org # o
    BY <1>1, <2>1, MarksAssumption DEF Live, StillMay
  <2>4. orgName'[tx[w].org] = orgName[tx[w].org]
    BY <1>1, <2>3
  <2>5. catalog'[nameOf[tx[w].app]] = catalog[nameOf[tx[w].app]]
    <3>1. nameOf[tx[w].app] \in Names /\ catalog \in [Names -> Live \cup {"free", "orphan"}]
      BY <2>1 DEF IInv, TypeOK, Transactions, Approves, Creates
    <3>. QED  BY <1>1, <2>2, <3>1
  <2>. QED  BY <1>1, <2>1, <2>4, <2>5 DEF StillMay, Approvable, RenamedSince, MayTake
<1>. QED  BY <1>3, <1>4, <1>5, <1>6 DEF IInv

LEMMA DeleteOrganizationStep == ASSUME IInv, NEW o \in Orgs, DeleteOrganization(o) PROVE IInv'
<1>1. /\ o \in Live /\ orgName' = [orgName EXCEPT ![o] = "deleted"]
      /\ catalog' = [n \in Names |-> IF catalog[n] = o THEN "orphan" ELSE catalog[n]]
      /\ UNCHANGED <<status, nameOf, open, asked, tx, undefer, doomed, born>>
  BY DEF DeleteOrganization, Orphaned, asks, tasks
<1>2. Live' = Live \ {o}
  BY <1>1, MarksAssumption DEF IInv, TypeOK, Live
<1>3. TypeOK'
  BY <1>1, <1>2 DEF IInv, TypeOK
<1>4. Transactions' /\ Alone' /\ Undeferring' /\ Unused'
  BY <1>1 DEF IInv, TypeOK, Transactions, Approves, Alone, Creates, Undeferring, Unused
<1>5. FirstName'
  BY <1>1, <1>2 DEF IInv, FirstName
<1>6. ASSUME NEW w \in Workers, Creates(w)' PROVE StillMay(w)'
  <2>1. Creates(w) /\ StillMay(w) /\ tx'[w] = tx[w] /\ nameOf[tx[w].app] \in Names
    BY <1>1, <1>6 DEF IInv, TypeOK, Creates, Transactions, Approves
  <2>2. tx[w].org # o
    BY <1>1, <2>1, MarksAssumption DEF Live, StillMay
  <2>3. MayTake(nameOf[tx[w].app], tx[w].claim)'
    BY <1>1, <2>1, MarksAssumption DEF StillMay, MayTake, Live
  <2>. QED  BY <1>1, <2>1, <2>2, <2>3 DEF StillMay, Approvable, RenamedSince
<1>. QED  BY <1>3, <1>4, <1>5, <1>6 DEF IInv

LEMMA StutterStep == ASSUME IInv, UNCHANGED vars PROVE IInv'
<1>1. TypeOK' /\ Undeferring'
  BY DEF IInv, TypeOK, Undeferring, vars, names, Live
<1>. QED  BY <1>1, StatusKept DEF vars, names

\* Every state the program reaches satisfies the inductive invariant: what an approval checked
\* before it inserted the organization still holds when it commits.
THEOREM Invariance == Spec => []IInv
<1>1. ASSUME IInv, [Next]_vars PROVE IInv'
  BY <1>1, SubmitStep, WithdrawStep, DeferDeclineStep, RequestMoreInfoStep, DeleteDeclinedStep,
     DeleteCommitStep, AnswerStep, EditStep, ApproveStep, AnswerCommitStep, EditCommitStep,
     CreateOrganizationStep, ApproveCommitStep, RollbackStep, RenameStep, DeleteOrganizationStep,
     UndeferStep, UndeferCommitStep, StutterStep
  DEF Next
<1>. QED  BY <1>1, InitInv, PTL DEF Spec

\* Types are kept, and a name is catalogued for an organization that exists.
THEOREM TypeCorrect == Spec => []TypeOK
<1>1. IInv => TypeOK
  BY DEF IInv
<1>. QED  BY <1>1, Invariance, PTL

\* No two organizations that exist were approved for one name, from one application or from two,
\* at once or after an answer reopened it, whatever their names and the applications' are since: the
\* catalog has the name that an organization was approved for as long as it exists.
THEOREM OneOrganization == Spec => []OneOrganizationEach
<1>1. IInv => OneOrganizationEach
  BY DEF IInv, FirstName, OneOrganizationEach
<1>. QED  BY <1>1, Invariance, PTL

\* What a step may do to a name that somebody has or had.
KeepsNames ==
    \A n \in Names : catalog[n] # "free" =>
         \/ catalog'[n] = catalog[n]
         \/ catalog[n] \in Orgs /\ catalog'[n] = "orphan" /\ orgName'[catalog[n]] = "deleted"
         \/ catalog[n] = "orphan" /\ \E w \in Workers : tx[w].does = "approve" /\ tx[w].claim

LEMMA ApproveCommitKeeps == ASSUME IInv, NEW w \in Workers, ApproveCommit(w) PROVE KeepsNames
<1>1. /\ tx[w].does = "approve" /\ MayTake(nameOf[tx[w].app], tx[w].claim)
      /\ catalog' = [catalog EXCEPT ![nameOf[tx[w].app]] = tx[w].org]
  BY DEF ApproveCommit, IInv, Creates, StillMay
<1>. QED  BY <1>1 DEF IInv, TypeOK, KeepsNames, MayTake

LEMMA RenameKeeps ==
    ASSUME IInv, NEW o \in Orgs, NEW n \in Names, Rename(o, n) PROVE KeepsNames
  BY DEF IInv, TypeOK, KeepsNames, Rename

LEMMA DeleteKeeps == ASSUME IInv, NEW o \in Orgs, DeleteOrganization(o) PROVE KeepsNames
  BY DEF IInv, TypeOK, KeepsNames, DeleteOrganization, Orphaned, Live

\* add_catalog_entry gives a name that an organization has or had to nobody else, unless an
\* administrator claims it for an application, and it is an orphan once the organization is deleted.
THEOREM NamesReserved == Spec => NamesStayReserved
<1>1. ASSUME IInv, [Next]_vars PROVE KeepsNames \/ UNCHANGED vars
  <2>1. CASE UNCHANGED catalog
    BY <2>1 DEF KeepsNames
  <2>2. CASE ~UNCHANGED catalog
    <3>1. \/ \E w \in Workers : ApproveCommit(w)
          \/ \E o \in Orgs : DeleteOrganization(o) \/ \E n \in Names : Rename(o, n)
      BY <1>1, <2>2
      DEF Next, vars, names, Submit, Withdraw, Defer, Decline, RequestMoreInfo, DeleteDeclined,
          DeleteCommit, Answer, Edit, Approve, AnswerCommit, EditCommit, CreateOrganization, Rollback,
          Undefer, UndeferCommit, UndeferFails
    <3>. QED  BY <1>1, <3>1, ApproveCommitKeeps, RenameKeeps, DeleteKeeps
  <2>. QED  BY <2>1, <2>2
<1>2. [][KeepsNames]_vars <=> NamesStayReserved
  BY DEF KeepsNames, NamesStayReserved
<1>. QED  BY <1>1, <1>2, Invariance, PTL DEF Spec

\* What a step may do to an application that is approved.
Stands ==
    \A a \in Apps : status[a] = "Approved" =>
         \/ status'[a] = "Approved"
         \/ status'[a] = "gone" /\ a \in doomed
         \/ status'[a] = "Submitted" /\ \E w \in Workers : AnswerCommit(w) /\ tx[w].app = a
         \/ status'[a] = "Declined"
            /\ \E w \in Workers : ApproveCommit(w) /\ RenamedSince(w, a)

LEMMA ApproveCommitStands == ASSUME IInv, NEW w \in Workers, ApproveCommit(w) PROVE Stands
<1>1. /\ \A b \in tx[w].declines : Approvable(w, b)
      /\ status' = [b \in Apps |-> IF b = tx[w].app THEN "Approved"
                                   ELSE IF b \in tx[w].declines THEN "Declined" ELSE status[b]]
  BY DEF ApproveCommit, Creates, IInv, StillMay
<1>2. ASSUME NEW a \in Apps, status[a] = "Approved"
      PROVE  status'[a] = "Approved" \/ (status'[a] = "Declined" /\ RenamedSince(w, a))
  BY <1>1, <1>2 DEF Approvable
<1>. QED  BY <1>2 DEF Stands

LEMMA AnswerCommitStands == ASSUME IInv, NEW w \in Workers, AnswerCommit(w) PROVE Stands
<1>1. \A a \in Apps : status'[a] = status[a] \/ (status'[a] = "Submitted" /\ tx[w].app = a)
  BY DEF AnswerCommit, IInv, TypeOK
<1>. QED  BY <1>1 DEF Stands

LEMMA OneStatusStands ==
    ASSUME IInv, NEW a \in Apps,
           Submit(a) \/ Withdraw(a) \/ Defer(a) \/ Decline(a) \/ RequestMoreInfo(a)
    PROVE  Stands
<1>1. status[a] # "Approved" /\ \E to : status' = [status EXCEPT ![a] = to]
  BY DEF Submit, Withdraw, Defer, Decline, RequestMoreInfo, Decide, OPEN
<1>. QED  BY <1>1 DEF IInv, TypeOK, Stands

\* Nothing but an answer of the applicant takes an approval back: not the nightly task, which holds
\* only deferred applications, and not another approval, unless it read the application before that
\* was renamed and approved for another name.
THEOREM ApprovalsStand == Spec => ApprovalStands
<1>1. ASSUME IInv, [Next]_vars PROVE Stands \/ UNCHANGED vars
  <2>1. CASE UNCHANGED status
    BY <2>1 DEF Stands
  <2>2. CASE ~UNCHANGED status
    <3>1. \/ \E a \in Apps : Submit(a) \/ Withdraw(a) \/ Defer(a) \/ Decline(a) \/ RequestMoreInfo(a)
          \/ \E w \in Workers : ApproveCommit(w) \/ AnswerCommit(w)
          \/ DeleteCommit \/ UndeferCommit
      BY <1>1, <2>2
      DEF Next, vars, Answer, Edit, EditCommit, Approve, CreateOrganization, Rollback, Rename,
          DeleteOrganization, DeleteDeclined, Undefer, UndeferFails
    <3>2. CASE DeleteCommit
      BY <3>2 DEF DeleteCommit, Stands
    <3>3. CASE UndeferCommit
      BY <1>1, <3>3 DEF UndeferCommit, IInv, Undeferring, Stands
    <3>. QED  BY <1>1, <3>1, <3>2, <3>3, ApproveCommitStands, AnswerCommitStands, OneStatusStands
  <2>. QED  BY <2>1, <2>2
<1>2. [][Stands]_vars <=> ApprovalStands
  BY DEF Stands, ApprovalStands
<1>. QED  BY <1>1, <1>2, Invariance, PTL DEF Spec
=============================================================================
