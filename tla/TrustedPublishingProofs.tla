------------------------ MODULE TrustedPublishingProofs ------------------------
(* Tokens and projects: theorems about TrustedPublishing. *)
EXTENDS TrustedPublishing, TLAPS

(* The tokens.  A request that has not claimed its identifier verified its *)
(* token at most Margin ago; one that has claimed it is alone with that,   *)
(* and the identifier is stored until no token is accepted any more.  Of   *)
(* the tokens without identifier nothing is claimed.                       *)
Unclaimed == {"pending", "create", "publisher", "claim"}
Minting(r, t) == At(r, "mint") /\ tx[r].jwt = t
UsedOrTooLate(t) == t \in claimed \/ now >= Replayable

Sessions ==
    /\ DOMAIN tx = Requests
    /\ \A r \in Requests : Started(r) =>
          /\ tx[r].step \in Unclaimed \cup {"mint"}
          /\ tx[r].jwt \in Jwts /\ tx[r].since \in Nat /\ tx[r].attempt \in Nat

Fresh ==
    \A r \in Requests : tx[r].step \in Unclaimed =>
       tx[r].since < Exp + Leeway /\ now <= tx[r].since + Margin

Once ==
    \A t \in Identified :
       /\ minted[t] \in 0..1 /\ (minted[t] = 1 => UsedOrTooLate(t))
       /\ \A r \in Requests : Minting(r, t) =>
             /\ minted[t] = 0 /\ UsedOrTooLate(t)
             /\ \A q \in Requests : Minting(q, t) => q = r

TokenTypes ==
    /\ now \in 0..(Exp + Leeway + Margin) /\ claimed \subseteq Identified /\ lost \subseteq Identified
    /\ minted \in [Jwts -> Nat]

Tokens == TokenTypes /\ Sessions /\ Fresh /\ Once /\ UsedUpForAToken

LEMMA InitTokens == Init => Tokens
  BY WindowAssumption, IdentifiedAssumption
  DEF Init, Tokens, TokenTypes, Sessions, Fresh, Once, UsedUpForAToken, Started, Idle, Unclaimed,
      Minting, At, UsedOrTooLate

(* A request that goes on, starts or ends, and claims and mints nothing    *)
(* for an identifier.                                                      *)
Others(r) ==
    /\ DOMAIN tx' = Requests
    /\ \A q \in Requests : q # r => tx'[q] = tx[q]
Same(r) ==
    tx'[r].jwt = tx[r].jwt /\ tx'[r].since = tx[r].since /\ tx'[r].attempt = tx[r].attempt

LEMMA TokensKept ==
    ASSUME Tokens, NEW r \in Requests, Others(r), UNCHANGED <<now, claimed>>,
           minted' \in [Jwts -> Nat], \A t \in Identified : minted'[t] = minted[t],
           lost \subseteq lost', lost' \subseteq Identified,
           At(r, "mint") /\ tx[r].jwt \in Identified => tx[r].jwt \in lost',
           \/ tx'[r].step = "idle"
           \/ \E t \in Jwts, n \in Nat : tx'[r] = Attempt(t, n) /\ Accepted
           \/ /\ tx[r].step \in Unclaimed /\ Same(r)
              /\ tx'[r].step \in Unclaimed \/ (tx'[r].step = "mint" /\ tx[r].jwt \notin Identified)
    PROVE  Tokens'
<1>1. ASSUME NEW v, v = tx'[r]
      PROVE  /\ v.step = "mint" => v.jwt \notin Identified
             /\ v.step # "idle" =>
                  /\ v.step \in Unclaimed \cup {"mint"} /\ v.jwt \in Jwts /\ v.attempt \in Nat
                  /\ v.since \in Nat /\ v.since < Exp + Leeway /\ now <= v.since + Margin
  <2>1. CASE v.step = "idle"
    BY <2>1
  <2>2. ASSUME NEW t \in Jwts, NEW n \in Nat, v = Attempt(t, n), Accepted
        PROVE  /\ v.step = "pending" /\ v.jwt \in Jwts /\ v.attempt \in Nat
               /\ v.since \in Nat /\ v.since < Exp + Leeway /\ now <= v.since + Margin
    BY <2>2, WindowAssumption DEF Attempt, Accepted, Tokens, TokenTypes
  <2>3. CASE /\ tx[r].step \in Unclaimed /\ Same(r)
             /\ v.step \in Unclaimed \/ (v.step = "mint" /\ tx[r].jwt \notin Identified)
    BY <1>1, <2>3 DEF Tokens, Sessions, Fresh, Unclaimed, Started, Same
  <2>. QED  BY <1>1, <2>1, <2>2, <2>3 DEF Unclaimed
<1>2. tx'[r].step = "mint" => tx'[r].jwt \notin Identified
  BY <1>1
<1>3. tx'[r].step # "idle" =>
         /\ tx'[r].step \in Unclaimed \cup {"mint"} /\ tx'[r].jwt \in Jwts /\ tx'[r].attempt \in Nat
         /\ tx'[r].since \in Nat /\ tx'[r].since < Exp + Leeway /\ now <= tx'[r].since + Margin
  BY <1>1
<1>4. Sessions'
  BY <1>3 DEF Tokens, Sessions, Started, Others
<1>5. Fresh'
  BY <1>3 DEF Tokens, Fresh, Unclaimed, Others
<1>6. \A q \in Requests, t \in Identified : Minting(q, t)' => Minting(q, t)
  BY <1>2 DEF Minting, At, Others
<1>7. Once'
  BY <1>6 DEF Tokens, Once, UsedOrTooLate, Replayable
<1>8. \A q \in Requests, t \in Identified : Minting(q, t) => Minting(q, t)' \/ t \in lost'
  BY DEF Minting, At, Others
<1>9. UsedUpForAToken'
  BY <1>8 DEF Tokens, TokenTypes, UsedUpForAToken, Minting
<1>. QED  BY <1>4, <1>5, <1>7, <1>9 DEF Tokens, TokenTypes

LEMMA UsersKeepTokens == ASSUME Tokens, UNCHANGED <<now, claimed, tx, minted, lost>> PROVE Tokens'
  BY DEF Tokens, TokenTypes, Sessions, Fresh, Once, UsedUpForAToken, Started, Minting, At,
         UsedOrTooLate, Replayable

LEMMA TickKeepsTokens == ASSUME Tokens, Tick PROVE Tokens'
<1>1. /\ now' = now + 1 /\ UNCHANGED <<tx, minted, lost>>
      /\ now < Exp + Leeway + Margin
      /\ \A r \in Requests : tx[r].step \in Unclaimed => now - tx[r].since < Margin
      /\ claimed' = claimed \/ (claimed' = {} /\ now' >= Replayable)
  <2>1. claimed' = IF now' < Replayable THEN claimed ELSE {}
    BY DEF Tick
  <2>2. now' < Replayable \/ now' >= Replayable
    BY WindowAssumption DEF Tick, Tokens, TokenTypes, Replayable
  <2>. QED  BY <2>1, <2>2 DEF Tick, db, Unclaimed
<1>2. TokenTypes' /\ Sessions'
  <2>1. TokenTypes'
    BY <1>1, WindowAssumption DEF Tokens, TokenTypes
  <2>2. Sessions'
    BY <1>1 DEF Tokens, Sessions, Started
  <2>. QED  BY <2>1, <2>2
<1>3. Fresh'
  <2>1. ASSUME NEW r \in Requests, tx[r].step \in Unclaimed
        PROVE  tx[r].since \in Nat /\ now \in Nat /\ now - tx[r].since < Margin
    BY <1>1, <2>1, WindowAssumption DEF Tokens, TokenTypes, Sessions, Started, Unclaimed
  <2>2. ASSUME NEW r \in Requests, tx[r].step \in Unclaimed
        PROVE  now' <= tx[r].since + Margin
    BY <1>1, <2>1, <2>2, WindowAssumption
  <2>. QED  BY <1>1, <2>2 DEF Tokens, Fresh
<1>4. \A t \in Identified : UsedOrTooLate(t) => UsedOrTooLate(t)'
  BY <1>1, WindowAssumption DEF UsedOrTooLate, Replayable, Tokens, TokenTypes
<1>5. Once'
  BY <1>1, <1>4 DEF Tokens, Once, Minting, At
<1>6. UsedUpForAToken'
  BY <1>1 DEF Tokens, UsedUpForAToken, At
<1>. QED  BY <1>2, <1>3, <1>5, <1>6 DEF Tokens

LEMMA ClaimKeepsTokens ==
    ASSUME Tokens, NEW r \in Requests, At(r, "claim"), ~Used(tx[r].jwt), Go(r, "mint"),
           tx[r].jwt \in Identified,
           claimed' = IF now < Replayable THEN claimed \cup {tx[r].jwt} ELSE claimed,
           UNCHANGED <<now, minted, lost>>
    PROVE  Tokens'
<1>0. PICK j : j = tx[r].jwt
  OBVIOUS
<1>1. /\ j \in Jwts /\ j \in Identified /\ tx[r].since \in Nat /\ tx[r].attempt \in Nat
      /\ tx[r].since < Exp + Leeway /\ now <= tx[r].since + Margin
  BY <1>0 DEF Tokens, Sessions, Started, Fresh, At, Unclaimed
<1>2. now < Replayable
  BY <1>1, WindowAssumption DEF Replayable, Tokens, TokenTypes
<1>3. claimed' = claimed \cup {j} /\ j \notin claimed
  BY <1>0, <1>2 DEF Used
<1>4. minted[j] = 0 /\ \A q \in Requests : ~Minting(q, j)
  BY <1>1, <1>2, <1>3, WindowAssumption DEF Tokens, TokenTypes, Once, UsedOrTooLate, Replayable
<1>5. /\ DOMAIN tx' = Requests /\ \A q \in Requests : q # r => tx'[q] = tx[q]
      /\ tx'[r].step = "mint" /\ tx'[r].jwt = j
      /\ tx'[r].since = tx[r].since /\ tx'[r].attempt = tx[r].attempt
  <2>1. DOMAIN tx = Requests /\ tx' = [tx EXCEPT ![r] = [tx[r] EXCEPT !.step = "mint"]]
    BY DEF Go, Tokens, Sessions
  <2>. QED  BY <1>0, <1>1, <2>1 DEF At
<1>6. TokenTypes' /\ Sessions'
  <2>1. TokenTypes'
    BY <1>1, <1>3 DEF Tokens, TokenTypes
  <2>2. Sessions'
    BY <1>1, <1>5 DEF Tokens, Sessions, Started
  <2>. QED  BY <2>1, <2>2
<1>7. Fresh'
  BY <1>5 DEF Tokens, Fresh, Unclaimed
<1>8. \A q \in Requests, t \in Identified : Minting(q, t)' <=> Minting(q, t) \/ (q = r /\ t = j)
  BY <1>5 DEF Minting, At
<1>9. \A t \in Identified : UsedOrTooLate(t) => UsedOrTooLate(t)'
  BY <1>3 DEF UsedOrTooLate, Replayable
<1>10. UsedOrTooLate(j)'
  BY <1>3 DEF UsedOrTooLate
<1>11. Once'
  BY <1>4, <1>8, <1>9, <1>10 DEF Tokens, Once
<1>12. UsedUpForAToken'
  BY <1>3, <1>8, <1>1 DEF Tokens, TokenTypes, UsedUpForAToken, Minting
<1>. QED  BY <1>6, <1>7, <1>11, <1>12 DEF Tokens

LEMMA MintKeepsTokens ==
    ASSUME Tokens, NEW r \in Requests, At(r, "mint"), Answer(r), tx[r].jwt \in Identified,
           minted' = [minted EXCEPT ![tx[r].jwt] = @ + 1], UNCHANGED <<now, claimed, lost>>
    PROVE  Tokens'
<1>. DEFINE j == tx[r].jwt
<1>1. j \in Jwts /\ j \in Identified /\ Minting(r, j)
  BY DEF Tokens, Sessions, Started, At, Minting
<1>2. /\ minted[j] = 0 /\ UsedOrTooLate(j) /\ \A q \in Requests : Minting(q, j) => q = r
  BY <1>1 DEF Tokens, Once
<1>3. /\ DOMAIN tx' = Requests /\ tx'[r].step = "idle"
      /\ \A q \in Requests : q # r => tx'[q] = tx[q]
  BY DEF Answer, Idle, Tokens, Sessions
<1>. HIDE DEF j
<1>4. minted'[j] = 1 /\ (\A t \in Identified : t # j => minted'[t] = minted[t])
      /\ minted' \in [Jwts -> Nat]
  BY <1>1, <1>2, IdentifiedAssumption DEF Tokens, TokenTypes, j
<1>5. TokenTypes' /\ Sessions' /\ Fresh'
  BY <1>3, <1>4 DEF Tokens, TokenTypes, Sessions, Started, Fresh, Unclaimed
<1>6. \A q \in Requests, t \in Identified : Minting(q, t)' <=> Minting(q, t) /\ q # r
  BY <1>3 DEF Minting, At
<1>7. \A t \in Identified : UsedOrTooLate(t)' = UsedOrTooLate(t)
  BY DEF UsedOrTooLate, Replayable
<1>8. Once'
  BY <1>2, <1>4, <1>6, <1>7 DEF Tokens, Once
<1>9. UsedUpForAToken'
  <2>1. ASSUME NEW t \in claimed, t # j
        PROVE  minted'[t] = 1 \/ t \in lost \/ \E q \in Requests : Minting(q, t)'
    <3>1. \A q \in Requests : Minting(q, t) => q # r
      BY <2>1 DEF Minting, j
    <3>. QED  BY <1>4, <1>6, <2>1, <3>1 DEF Tokens, TokenTypes, UsedUpForAToken, Minting
  <2>. QED  BY <1>4, <2>1 DEF UsedUpForAToken, Minting
<1>. QED  BY <1>5, <1>8, <1>9 DEF Tokens

(* Each step of a request is one of those, or is about no identifier.      *)
LEMMA AnswerKeepsTokens ==
    ASSUME Tokens, NEW r \in Requests, Answer(r), ~At(r, "mint"),
           UNCHANGED <<now, claimed, minted, lost>>
    PROVE  Tokens'
<1>1. Others(r) /\ tx'[r].step = "idle"
  BY DEF Answer, Idle, Others, Tokens, Sessions
<1>. QED  BY <1>1, TokensKept DEF Tokens, TokenTypes

LEMMA RetryKeepsTokens ==
    ASSUME Tokens, NEW r \in Requests, Retry(r), Started(r),
           At(r, "mint") /\ tx[r].jwt \in Identified => tx[r].jwt \in lost',
           UNCHANGED <<now, claimed, minted>>, lost \subseteq lost', lost' \subseteq Identified
    PROVE  Tokens'
<1>1. tx[r].jwt \in Jwts /\ tx[r].attempt + 1 \in Nat
  BY DEF Tokens, Sessions
<1>. DEFINE v == IF tx[r].attempt < Attempts /\ Accepted
                 THEN Attempt(tx[r].jwt, tx[r].attempt + 1) ELSE Idle
<1>2. tx' = [tx EXCEPT ![r] = v]
  BY DEF Retry
<1>3. v.step = "idle" \/ \E t \in Jwts, n \in Nat : v = Attempt(t, n) /\ Accepted
  BY <1>1 DEF Idle
<1>. HIDE DEF v
<1>4. Others(r) /\ tx'[r] = v
  BY <1>2 DEF Others, Tokens, Sessions
<1>5. minted' \in [Jwts -> Nat]
  BY DEF Tokens, TokenTypes
<1>. QED  BY <1>3, <1>4, <1>5, TokensKept

LEMMA GoesOnKeepsTokens ==
    ASSUME Tokens, NEW r \in Requests, Others(r), tx[r].step \in Unclaimed,
           tx'[r].step \in Unclaimed \/ (tx'[r].step = "mint" /\ tx[r].jwt \notin Identified),
           Same(r), UNCHANGED <<now, claimed, minted, lost>>
    PROVE  Tokens'
<1>1. ~At(r, "mint")
  BY DEF At, Unclaimed
<1>. QED  BY <1>1, TokensKept DEF Tokens, TokenTypes

LEMMA AskKeepsTokens ==
    ASSUME Tokens, NEW r \in Requests, NEW t \in Jwts, Ask(r, t) PROVE Tokens'
<1>1. Others(r) /\ tx'[r] = Attempt(t, 1) /\ Accepted /\ ~At(r, "mint")
  BY DEF Ask, Started, At, Others, Tokens, Sessions
<1>. QED  BY <1>1, TokensKept DEF Ask, db, Tokens, TokenTypes

LEMMA FindPendingKeepsTokens == ASSUME Tokens, NEW r \in Requests, FindPending(r) PROVE Tokens'
<1>1. At(r, "pending") /\ UNCHANGED <<now, claimed, minted, lost>>
  BY DEF FindPending
<1>2. CASE Go(r, "publisher")
  <2>1. /\ Others(r) /\ tx'[r].step = "publisher" /\ Same(r)
    BY <1>2 DEF Same, Go, Others, Tokens, Sessions
  <2>. QED  BY <1>1, <2>1, GoesOnKeepsTokens DEF At, Unclaimed
<1>3. CASE Answer(r)
  BY <1>1, <1>3, AnswerKeepsTokens DEF At
<1>4. ASSUME NEW found, tx' = [tx EXCEPT ![r].found = found, ![r].step = "create"] PROVE Tokens'
  <2>1. /\ Others(r) /\ tx'[r].step = "create" /\ Same(r)
    BY <1>4 DEF Same, Others, Tokens, Sessions
  <2>. QED  BY <1>1, <2>1, GoesOnKeepsTokens DEF At, Unclaimed
<1>. QED  BY <1>2, <1>3, <1>4 DEF FindPending

LEMMA CreateProjectKeepsTokens == ASSUME Tokens, NEW r \in Requests, CreateProject(r) PROVE Tokens'
<1>1. At(r, "create") /\ ~At(r, "mint") /\ Started(r) /\ UNCHANGED <<now, claimed, minted, lost>>
  BY DEF CreateProject, db, At, Started
<1>2. CASE Answer(r)
  BY <1>1, <1>2, AnswerKeepsTokens
<1>3. CASE Retry(r)
  BY <1>1, <1>3, RetryKeepsTokens DEF Tokens, TokenTypes
<1>4. ASSUME NEW p, NEW stale,
             tx' = [tx EXCEPT ![r].step = "publisher", ![r].project = p, ![r].stale = stale]
      PROVE  Tokens'
  <2>1. /\ Others(r) /\ tx'[r].step = "publisher" /\ Same(r)
    BY <1>4 DEF Same, Others, Tokens, Sessions
  <2>. QED  BY <1>1, <2>1, GoesOnKeepsTokens DEF At, Unclaimed
<1>. QED  BY <1>2, <1>3, <1>4 DEF CreateProject, Create

LEMMA FindPublisherKeepsTokens == ASSUME Tokens, NEW r \in Requests, FindPublisher(r) PROVE Tokens'
<1>1. At(r, "publisher") /\ ~At(r, "mint") /\ UNCHANGED <<now, claimed, minted, lost>>
  BY DEF FindPublisher, At
<1>2. CASE Commit(r)
  BY <1>1, <1>2, AnswerKeepsTokens DEF Commit
<1>3. ASSUME NEW id, tx' = [tx EXCEPT ![r].row = id, ![r].step = "claim"] PROVE Tokens'
  <2>1. /\ Others(r) /\ tx'[r].step = "claim" /\ Same(r)
    BY <1>3 DEF Same, Others, Tokens, Sessions
  <2>. QED  BY <1>1, <2>1, GoesOnKeepsTokens DEF At, Unclaimed
<1>. QED  BY <1>2, <1>3 DEF FindPublisher

LEMMA RequestKeepsTokens == ASSUME Tokens, NEW r \in Requests, Request(r) PROVE Tokens'
<1>1. CASE Claim(r)
  <2>1. At(r, "claim") /\ ~At(r, "mint") /\ UNCHANGED <<now, minted, lost>>
    BY <1>1 DEF Claim, At
  <2>2. CASE Used(tx[r].jwt)
    BY <1>1, <2>1, <2>2, AnswerKeepsTokens DEF Claim, Commit
  <2>3. CASE ~Used(tx[r].jwt) /\ tx[r].jwt \in Identified
    BY <1>1, <2>1, <2>3, ClaimKeepsTokens DEF Claim
  <2>4. CASE ~Used(tx[r].jwt) /\ tx[r].jwt \notin Identified
    <3>1. Go(r, "mint") /\ claimed' = claimed
      BY <1>1, <2>4 DEF Claim
    <3>2. Others(r) /\ Same(r) /\ tx'[r].step = "mint" /\ tx[r].step \in Unclaimed
      BY <2>1, <3>1 DEF Go, Others, Same, Tokens, Sessions, Unclaimed, At
    <3>. QED  BY <2>1, <2>4, <3>1, <3>2, GoesOnKeepsTokens
  <2>. QED  BY <2>2, <2>3, <2>4
<1>2. CASE Mint(r)
  <2>1. At(r, "mint") /\ Started(r) /\ tx[r].jwt \in Jwts /\ UNCHANGED <<now, claimed>>
    BY <1>2 DEF Mint, At, Started, Tokens, Sessions
  <2>2. CASE Retry(r) /\ lost' = LostWith(r) /\ minted' = minted
    <3>1. lost \subseteq lost' /\ lost' \subseteq Identified
          /\ (tx[r].jwt \in Identified => tx[r].jwt \in lost')
      BY <2>2 DEF LostWith, Tokens, TokenTypes
    <3>. QED  BY <2>1, <2>2, <3>1, RetryKeepsTokens
  <2>3. CASE Commit(r) /\ minted' = [minted EXCEPT ![tx[r].jwt] = @ + 1] /\ lost' = lost
    <3>1. CASE tx[r].jwt \in Identified
      BY <2>1, <2>3, <3>1, MintKeepsTokens DEF Commit
    <3>2. CASE tx[r].jwt \notin Identified
      <4>1. Others(r) /\ tx'[r].step = "idle"
        BY <2>3 DEF Commit, Answer, Idle, Others, Tokens, Sessions
      <4>2. minted' \in [Jwts -> Nat] /\ \A t \in Identified : minted'[t] = minted[t]
        BY <2>1, <2>3, <3>2, IdentifiedAssumption DEF Tokens, TokenTypes
      <4>. QED  BY <2>1, <2>3, <3>2, <4>1, <4>2, TokensKept DEF Tokens, TokenTypes
    <3>. QED  BY <3>1, <3>2
  <2>. QED  BY <1>2, <2>2, <2>3 DEF Mint
<1>3. CASE Crash(r)
  <2>1. /\ Answer(r) /\ UNCHANGED <<now, claimed, minted>>
        /\ lost \subseteq lost' /\ lost' \subseteq Identified
        /\ At(r, "mint") /\ tx[r].jwt \in Identified => tx[r].jwt \in lost'
    BY <1>3 DEF Crash, db, LostWith, Tokens, TokenTypes
  <2>2. tx[r].jwt \in Jwts
    BY <1>3 DEF Crash, Tokens, Sessions
  <2>3. Others(r) /\ tx'[r].step = "idle"
    BY <2>1 DEF Answer, Idle, Others, Tokens, Sessions
  <2>. QED  BY <2>1, <2>2, <2>3, TokensKept DEF Tokens, TokenTypes
<1>. QED
  BY <1>1, <1>2, <1>3, AskKeepsTokens, FindPendingKeepsTokens, CreateProjectKeepsTokens,
     FindPublisherKeepsTokens
  DEF Request

\* Every state the program reaches satisfies the invariant of the tokens: an identifier is stored
\* as long as its token is accepted, and who claimed it is alone.
THEOREM TokenInvariance == Spec => []Tokens
<1>1. ASSUME Tokens, [Next]_vars PROVE Tokens'
  <2>1. CASE UNCHANGED vars
    <3>1. UNCHANGED <<now, claimed, tx, minted, lost>>
      BY <2>1 DEF vars, db
    <3>. QED  BY <1>1, <3>1, UsersKeepTokens
  <2>2. CASE Owners
    <3>1. UNCHANGED <<now, claimed, tx, minted, lost>>
      BY <2>2
      DEF Owners, FillIn, Register, Unregister, AddPublisher, RemovePublisher, DeleteProject
    <3>. QED  BY <1>1, <3>1, UsersKeepTokens
  <2>. QED  BY <1>1, <2>1, <2>2, TickKeepsTokens, RequestKeepsTokens DEF Next
<1>. QED  BY <1>1, InitTokens, PTL DEF Spec

\* An identity token with an identifier is exchanged for one API token at most, however often it is
\* sent, by how many requests at a time, and however late: the identifier outlives the token by the
\* margin.
THEOREM OneToken == Spec => []OneTokenPerIdentifier
<1>1. Tokens => OneTokenPerIdentifier
  BY DEF Tokens, Once, OneTokenPerIdentifier
<1>. QED  BY <1>1, TokenInvariance, PTL

\* A request that fails or is retried before it claimed has not used up its identifier.
THEOREM NotUsedUpInVain == Spec => []UsedUpForAToken
<1>1. Tokens => UsedUpForAToken
  BY DEF Tokens
<1>. QED  BY <1>1, TokenInvariance, PTL

-----------------------------------------------------------------------------
(* The projects.  One request at a time creates the project, while there   *)
(* is none and for registrations of the configuration it was verified for. *)
RequestOK(r) ==
    Started(r) =>
       /\ tx[r].found \subseteq Registrations /\ tx[r].stale \subseteq Registrations
       /\ \A x \in tx[r].found : ConfigOf[x] = Config(r) /\ reg[x] # "absent"
       /\ At(r, "create") => tx[r].found # {}
       /\ tx[r].step \in {"pending", "create"} => tx[r].project = 0
       /\ tx[r].project # 0 => /\ project = 0 /\ tx[r].project = lastProject + 1
                              /\ lastProject < MaxProjects /\ MayHaveRow(Config(r))
                              /\ tx[r].found # {}

Lonely == \A q, r \in Requests : Creating(q) /\ Creating(r) => q = r
Registered == \A x, y \in Pending : ConfigOf[x] = ConfigOf[y] => x = y
RegTypes == reg \in [Registrations -> {"absent", "checked", "pending", "gone"}]
RowTypes == publisher \in [Configs -> [id : 0..MaxRows, live : BOOLEAN, projects : SUBSET {0, project}]]
ProjectTypes ==
    /\ project \in {0, lastProject} /\ lastProject \in Projects
    /\ owner \in [1..MaxProjects -> Users]

Creation ==
    /\ RegTypes /\ RowTypes /\ ProjectTypes /\ Registered /\ Lonely
    /\ \A r \in Requests : RequestOK(r)

LEMMA InitCreation == Init => Creation
<1>. SUFFICES ASSUME Init PROVE Creation
  OBVIOUS
<1>1. \A r \in Requests : ~Started(r)
  BY DEF Init, Started, Idle
<1>2. RegTypes /\ Pending = {} /\ ProjectTypes
  BY BoundsAssumption, RegistrationsAssumption
  DEF Init, RegTypes, Pending, ProjectTypes, Projects
<1>3. RowTypes
  BY BoundsAssumption DEF Init, RowTypes, NoRow
<1>. QED  BY <1>1, <1>2, <1>3 DEF Creation, Registered, Lonely, Creating, RequestOK

(* A request goes on while the project and the publishers stay.            *)
LEMMA CreationKept ==
    ASSUME Creation, NEW r \in Requests, Others(r), UNCHANGED <<project, lastProject, owner, publisher>>,
           RegTypes', Registered', \A x \in Registrations : reg'[x] = "absent" => reg[x] = "absent",
           RequestOK(r)', Creating(r)' => Creating(r) \/ \A q \in Requests : ~Creating(q)
    PROVE  Creation'
<1>1. \A q \in Requests : q # r => (Creating(q)' <=> Creating(q))
  BY DEF Others, Creating, Started
<1>2. Lonely'
  BY <1>1 DEF Creation, Lonely
<1>3. ASSUME NEW q \in Requests, q # r PROVE RequestOK(q)'
  <2>1. tx'[q] = tx[q] /\ RequestOK(q)
    BY <1>3 DEF Others, Creation
  <2>. QED  BY <2>1 DEF RequestOK, Started, At, Config, MayHaveRow, Row
<1>4. RowTypes' /\ ProjectTypes'
  BY DEF Creation, RowTypes, ProjectTypes
<1>. QED  BY <1>2, <1>3, <1>4 DEF Creation

LEMMA EndsKeepsCreation ==
    ASSUME Creation, NEW r \in Requests, Others(r),
           \/ tx'[r].step = "idle"
           \/ \E t \in Jwts, n \in Nat : tx'[r] = Attempt(t, n),
           UNCHANGED <<project, lastProject, owner, publisher>>,
           RegTypes', Registered', \A x \in Registrations : reg'[x] = "absent" => reg[x] = "absent"
    PROVE  Creation'
<1>1. RequestOK(r)' /\ ~Creating(r)'
  <2>1. CASE tx'[r].step = "idle"
    BY <2>1 DEF RequestOK, Creating, Started
  <2>2. ASSUME NEW t \in Jwts, NEW n \in Nat, tx'[r] = Attempt(t, n)
        PROVE  RequestOK(r)' /\ ~Creating(r)'
    <3>1. tx'[r].found = {} /\ tx'[r].stale = {} /\ tx'[r].project = 0 /\ tx'[r].step = "pending"
      BY <2>2 DEF Attempt
    <3>. QED  BY <3>1 DEF RequestOK, Creating, At
  <2>. QED  BY <2>1, <2>2
<1>. QED  BY <1>1, CreationKept

LEMMA RetryKeepsCreation ==
    ASSUME Tokens, Creation, NEW r \in Requests, Started(r), Retry(r),
           UNCHANGED <<project, lastProject, owner, publisher, reg>>
    PROVE  Creation'
<1>1. tx[r].jwt \in Jwts /\ tx[r].attempt + 1 \in Nat
  BY DEF Tokens, Sessions
<1>2. Others(r)
  BY DEF Retry, Others, Tokens, Sessions
<1>3. tx'[r].step = "idle" \/ \E t \in Jwts, n \in Nat : tx'[r] = Attempt(t, n)
  BY <1>1 DEF Retry, Idle, Tokens, Sessions
<1>4. RegTypes' /\ Registered'
  BY DEF Creation, RegTypes, Registered, Pending
<1>. QED  BY <1>2, <1>3, <1>4, EndsKeepsCreation

LEMMA GoesOnKeepsCreation ==
    ASSUME Creation, NEW r \in Requests, Others(r), Started(r),
           tx'[r].step \in {"publisher", "claim", "mint"},
           tx'[r].jwt = tx[r].jwt, tx'[r].found = tx[r].found, tx'[r].stale = tx[r].stale,
           tx'[r].project = tx[r].project,
           UNCHANGED <<project, lastProject, owner, publisher, reg>>
    PROVE  Creation'
<1>1. RequestOK(r)' /\ (Creating(r)' => Creating(r))
  BY DEF Creation, RequestOK, Creating, Started, At, Config, MayHaveRow, Row
<1>2. RegTypes' /\ Registered'
  BY DEF Creation, RegTypes, Registered, Pending
<1>. QED  BY <1>1, <1>2, CreationKept

LEMMA AnswerKeepsCreation ==
    ASSUME Tokens, Creation, NEW r \in Requests, Answer(r), NEW S \in SUBSET Registrations,
           reg' = Gone(S), UNCHANGED <<project, lastProject, owner, publisher>>
    PROVE  Creation'
<1>1. Others(r) /\ tx'[r].step = "idle"
  BY DEF Answer, Idle, Others, Tokens, Sessions
<1>2. RegTypes' /\ Pending' \subseteq Pending
  BY DEF Creation, RegTypes, Gone, Pending
<1>3. Registered' /\ \A x \in Registrations : reg'[x] = "absent" => reg[x] = "absent"
  BY <1>2 DEF Creation, Registered, Gone
<1>. QED  BY <1>1, <1>2, <1>3, EndsKeepsCreation

LEMMA GoneNone == ASSUME RegTypes PROVE Gone({}) = reg
  BY DEF RegTypes, Gone

LEMMA CommitKeepsCreation ==
    ASSUME Tokens, Creation, NEW r \in Requests, Started(r), Commit(r) PROVE Creation'
<1>1. CASE ~Creating(r)
  BY <1>1, AnswerKeepsCreation, GoneNone DEF Commit, Creation
<1>2. CASE Creating(r)
  <2>1. PICK p : p = tx[r].project
    OBVIOUS
  <2>2. PICK c : c = Config(r)
    OBVIOUS
  <2>3. PICK u : u = UserOf[CHOOSE x \in tx[r].found : TRUE]
    OBVIOUS
  <2>4. /\ Answer(r) /\ project' = p /\ lastProject' = p /\ owner' = [owner EXCEPT ![p] = u]
        /\ reg' = Gone(Holds(r)) /\ publisher' = With(c, p)
    BY <1>2, <2>1, <2>2, <2>3 DEF Commit
  <2>5. /\ tx[r].found \subseteq Registrations /\ tx[r].found # {} /\ tx[r].stale \subseteq Registrations
        /\ project = 0 /\ p = lastProject + 1 /\ lastProject < MaxProjects /\ MayHaveRow(c)
        /\ c \in Configs
    BY <1>2, <2>1, <2>2, RegistrationsAssumption
    DEF Creation, RequestOK, Creating, Tokens, Sessions, Config
  <2>6. p \in 1..MaxProjects /\ u \in Users
    BY <2>3, <2>5, BoundsAssumption, RegistrationsAssumption DEF Creation, ProjectTypes, Projects
  <2>7. ProjectTypes'
    BY <2>4, <2>6 DEF Creation, ProjectTypes, Projects
  <2>8. RowTypes'
    <3>1. Row(c) \in [id : 0..MaxRows, live : BOOLEAN, projects : SUBSET {0, project}]
      BY <2>5, BoundsAssumption DEF Creation, RowTypes, Row, MayHaveRow
    <3>. DEFINE new == [Row(c) EXCEPT !.projects = @ \cup {p}]
    <3>2. new \in [id : 0..MaxRows, live : BOOLEAN, projects : SUBSET {0, p}]
      BY <2>5, <3>1
    <3>3. publisher' = [publisher EXCEPT ![c] = new]
      BY <2>4 DEF With
    <3>. HIDE DEF new
    <3>4. publisher \in [Configs -> [id : 0..MaxRows, live : BOOLEAN, projects : SUBSET {0, p}]]
      BY <2>5 DEF Creation, RowTypes
    <3>. QED  BY <2>4, <2>5, <3>2, <3>3, <3>4 DEF RowTypes
  <2>9. RegTypes' /\ Pending' \subseteq Pending
    BY <2>4 DEF Creation, RegTypes, Gone, Pending
  <2>10. Registered' /\ \A x \in Registrations : reg'[x] = "absent" => reg[x] = "absent"
    BY <2>4, <2>9 DEF Creation, Registered, Gone
  <2>11. /\ DOMAIN tx' = Requests /\ tx'[r].step = "idle"
         /\ \A q \in Requests : q # r => tx'[q] = tx[q] /\ ~Creating(q)
    BY <1>2, <2>4 DEF Answer, Idle, Tokens, Sessions, Creation, Lonely
  <2>12. \A q \in Requests : ~Creating(q)'
    BY <2>11 DEF Creating, Started
  <2>13. ASSUME NEW q \in Requests PROVE RequestOK(q)'
    <3>1. CASE q = r
      BY <2>11, <3>1 DEF RequestOK, Started
    <3>2. CASE q # r
      <4>1. tx'[q] = tx[q] /\ RequestOK(q) /\ (Started(q) => tx[q].project = 0)
        BY <2>11, <3>2 DEF Creation, Creating
      <4>. QED  BY <2>10, <4>1 DEF RequestOK, Started, At, Config
    <3>. QED  BY <3>1, <3>2
  <2>. QED  BY <2>7, <2>8, <2>9, <2>10, <2>12, <2>13 DEF Creation, Lonely
<1>. QED  BY <1>1, <1>2

LEMMA AskKeepsCreation ==
    ASSUME Tokens, Creation, NEW r \in Requests, NEW t \in Jwts, Ask(r, t) PROVE Creation'
<1>1. Others(r) /\ tx'[r] = Attempt(t, 1) /\ UNCHANGED <<project, lastProject, owner, publisher, reg>>
  BY DEF Ask, Others, Tokens, Sessions, db
<1>2. RegTypes' /\ Registered'
  BY <1>1 DEF Creation, RegTypes, Registered, Pending
<1>. QED  BY <1>1, <1>2, EndsKeepsCreation

LEMMA FindPendingKeepsCreation ==
    ASSUME Tokens, Creation, NEW r \in Requests, FindPending(r) PROVE Creation'
<1>. DEFINE found == {x \in Pending : ConfigOf[x] = Config(r)}
<1>1. At(r, "pending") /\ Started(r) /\ UNCHANGED <<project, lastProject, owner, publisher>>
  BY DEF FindPending, At, Started
<1>2. found \in SUBSET Registrations
  BY DEF Pending
<1>3. CASE Go(r, "publisher") /\ reg' = reg
  <2>1. /\ Others(r) /\ tx'[r].step = "publisher" /\ tx'[r].jwt = tx[r].jwt
        /\ tx'[r].found = tx[r].found /\ tx'[r].stale = tx[r].stale /\ tx'[r].project = tx[r].project
    BY <1>3 DEF Go, Others, Tokens, Sessions
  <2>. QED  BY <1>1, <1>3, <2>1, GoesOnKeepsCreation
<1>4. CASE Answer(r) /\ reg' = reg
  BY <1>1, <1>4, AnswerKeepsCreation, GoneNone DEF Creation
<1>5. CASE Answer(r) /\ reg' = Gone(found)
  <2>. HIDE DEF found
  <2>. QED  BY <1>1, <1>2, <1>5, AnswerKeepsCreation
<1>6. CASE found # {} /\ tx' = [tx EXCEPT ![r].found = found, ![r].step = "create"] /\ reg' = reg
  <2>1. \A x \in found : ConfigOf[x] = Config(r) /\ reg[x] # "absent"
    BY DEF Pending
  <2>. HIDE DEF found
  <2>2. PICK f : f = found
    OBVIOUS
  <2>3. /\ Others(r) /\ tx'[r].step = "create" /\ tx'[r].jwt = tx[r].jwt /\ tx'[r].found = f
        /\ tx'[r].stale = tx[r].stale /\ tx'[r].project = tx[r].project
    BY <1>6, <2>2 DEF Others, Tokens, Sessions
  <2>4. tx[r].project = 0 /\ tx[r].stale \subseteq Registrations
    BY <1>1 DEF Creation, RequestOK, At
  <2>5. RequestOK(r)' /\ ~Creating(r)'
    BY <1>2, <1>6, <2>1, <2>2, <2>3, <2>4 DEF RequestOK, Started, At, Config, Creating
  <2>6. RegTypes' /\ Registered'
    BY <1>6 DEF Creation, RegTypes, Registered, Pending
  <2>. QED  BY <1>1, <1>6, <2>3, <2>5, <2>6, CreationKept
<1>. QED  BY <1>3, <1>4, <1>5, <1>6 DEF FindPending

LEMMA CreateProjectKeepsCreation ==
    ASSUME Tokens, Creation, NEW r \in Requests, CreateProject(r) PROVE Creation'
<1>1. /\ At(r, "create") /\ Started(r) /\ \A q \in Requests : ~Creating(q)
      /\ UNCHANGED <<project, lastProject, owner, publisher, reg>>
  BY DEF CreateProject, db, At, Started
<1>2. CASE Answer(r)
  BY <1>1, <1>2, AnswerKeepsCreation, GoneNone DEF Creation
<1>3. CASE Retry(r)
  BY <1>1, <1>3, RetryKeepsCreation
<1>4. CASE /\ project = 0 /\ lastProject < MaxProjects /\ MayHaveRow(Config(r))
           /\ Create(r, lastProject + 1)
  <2>1. PICK stale \in SUBSET Registrations :
          tx' = [tx EXCEPT ![r].step = "publisher", ![r].project = lastProject + 1, ![r].stale = stale]
    BY <1>4 DEF Create, Pending
  <2>2. /\ Others(r) /\ tx'[r].step = "publisher" /\ tx'[r].jwt = tx[r].jwt
        /\ tx'[r].found = tx[r].found /\ tx'[r].stale = stale /\ tx'[r].project = lastProject + 1
    BY <2>1 DEF Others, Tokens, Sessions
  <2>3. /\ tx[r].found \subseteq Registrations /\ tx[r].found # {}
        /\ \A x \in tx[r].found : ConfigOf[x] = Config(r) /\ reg[x] # "absent"
    BY <1>1 DEF Creation, RequestOK
  <2>4. RequestOK(r)'
    BY <1>1, <1>4, <2>2, <2>3 DEF RequestOK, Started, At, Config, MayHaveRow, Row
  <2>5. RegTypes' /\ Registered'
    BY <1>1 DEF Creation, RegTypes, Registered, Pending
  <2>. QED  BY <1>1, <2>2, <2>4, <2>5, CreationKept
<1>. QED  BY <1>2, <1>3, <1>4 DEF CreateProject

LEMMA FindPublisherKeepsCreation ==
    ASSUME Tokens, Creation, NEW r \in Requests, FindPublisher(r) PROVE Creation'
<1>1. At(r, "publisher") /\ Started(r)
  BY DEF FindPublisher, At, Started
<1>2. CASE Commit(r)
  BY <1>1, <1>2, CommitKeepsCreation
<1>3. ASSUME NEW id, tx' = [tx EXCEPT ![r].row = id, ![r].step = "claim"],
             UNCHANGED <<project, lastProject, owner, publisher, reg>>
      PROVE  Creation'
  <2>1. /\ Others(r) /\ tx'[r].step = "claim" /\ tx'[r].jwt = tx[r].jwt
        /\ tx'[r].found = tx[r].found /\ tx'[r].stale = tx[r].stale /\ tx'[r].project = tx[r].project
    BY <1>3 DEF Others, Tokens, Sessions
  <2>. QED  BY <1>1, <1>3, <2>1, GoesOnKeepsCreation
<1>. QED  BY <1>2, <1>3 DEF FindPublisher

LEMMA RequestKeepsCreation ==
    ASSUME Tokens, Creation, NEW r \in Requests, Request(r) PROVE Creation'
<1>1. CASE Claim(r)
  <2>1. Started(r)
    BY <1>1 DEF Claim, At, Started
  <2>2. CASE Go(r, "mint") /\ UNCHANGED <<project, lastProject, owner, publisher, reg>>
    <3>1. /\ Others(r) /\ tx'[r].step = "mint" /\ tx'[r].jwt = tx[r].jwt
          /\ tx'[r].found = tx[r].found /\ tx'[r].stale = tx[r].stale
          /\ tx'[r].project = tx[r].project
      BY <2>2 DEF Go, Others, Tokens, Sessions
    <3>. QED  BY <2>1, <2>2, <3>1, GoesOnKeepsCreation
  <2>. QED  BY <1>1, <2>1, <2>2, CommitKeepsCreation DEF Claim
<1>2. CASE Mint(r)
  <2>1. Started(r)
    BY <1>2 DEF Mint, At, Started
  <2>. QED  BY <1>2, <2>1, CommitKeepsCreation, RetryKeepsCreation DEF Mint
<1>3. CASE Crash(r)
  BY <1>3, AnswerKeepsCreation, GoneNone DEF Crash, Creation, db
<1>. QED
  BY <1>1, <1>2, <1>3, AskKeepsCreation, FindPendingKeepsCreation, CreateProjectKeepsCreation,
     FindPublisherKeepsCreation
  DEF Request

(* What users do.                                                          *)
LEMMA RegistrationKeepsCreation ==
    ASSUME Creation, NEW x \in Registrations, FillIn(x) \/ Register(x) \/ Unregister(x)
    PROVE  Creation'
<1>1. /\ UNCHANGED <<project, lastProject, owner, publisher, tx>> /\ RegTypes'
      /\ \A y \in Registrations : reg'[y] = "absent" => reg[y] = "absent"
  BY DEF FillIn, Register, Unregister, Gone, Creation, RegTypes
<1>2. Registered'
  <2>1. \/ Pending' \subseteq Pending
        \/ /\ Pending' \subseteq Pending \cup {x}
           /\ \A y \in Pending : ConfigOf[y] # ConfigOf[x]
    BY DEF FillIn, Register, Unregister, Gone, Creation, RegTypes, Pending
  <2>. QED  BY <2>1 DEF Creation, Registered
<1>3. \A r \in Requests : RequestOK(r)'
  BY <1>1 DEF Creation, RequestOK, Started, At, Config, MayHaveRow, Row
<1>4. RowTypes' /\ ProjectTypes' /\ Lonely'
  BY <1>1 DEF Creation, RowTypes, ProjectTypes, Lonely, Creating, Started
<1>. QED  BY <1>1, <1>2, <1>3, <1>4 DEF Creation

(* Rows change, but none of a request that creates the project goes.       *)
LEMMA PublishersKeepCreation ==
    ASSUME Creation, RowTypes', ProjectTypes', UNCHANGED <<lastProject, reg, tx>>,
           project' # project => \A r \in Requests : ~Creating(r),
           \A r \in Requests : Creating(r) /\ MayHaveRow(Config(r)) => MayHaveRow(Config(r))'
    PROVE  Creation'
<1>1. RegTypes' /\ Registered' /\ Lonely'
  BY DEF Creation, RegTypes, Registered, Pending, Lonely, Creating, Started
<1>2. ASSUME NEW r \in Requests PROVE RequestOK(r)'
  <2>1. RequestOK(r) /\ tx'[r] = tx[r]
    BY DEF Creation
  <2>2. CASE Creating(r)
    BY <2>1, <2>2 DEF RequestOK, Creating, Started, At, Config
  <2>3. CASE ~Creating(r)
    BY <2>1, <2>3 DEF RequestOK, Creating, Started, At, Config
  <2>. QED  BY <2>2, <2>3
<1>. QED  BY <1>1, <1>2 DEF Creation

LEMMA AddPublisherKeepsCreation ==
    ASSUME Creation, NEW c \in Configs, NEW p \in Projects, AddPublisher(c, p) PROVE Creation'
<1>1. /\ p \in {0, project} /\ MayHaveRow(c) /\ publisher' = With(c, p)
      /\ \A r \in Requests : Creating(r) /\ Config(r) = c => publisher[c].live
      /\ UNCHANGED <<project, lastProject, owner, reg, tx>>
  BY DEF AddPublisher
<1>. DEFINE new == [Row(c) EXCEPT !.projects = @ \cup {p}]
<1>2. Row(c) \in [id : 0..MaxRows, live : BOOLEAN, projects : SUBSET {0, project}]
  BY <1>1, BoundsAssumption DEF Creation, RowTypes, Row, MayHaveRow
<1>3. new \in [id : 0..MaxRows, live : BOOLEAN, projects : SUBSET {0, project}]
      /\ new.id = Row(c).id /\ new.live = Row(c).live
  BY <1>1, <1>2
<1>4. publisher' = [publisher EXCEPT ![c] = new]
  BY <1>1 DEF With
<1>. HIDE DEF new
<1>5. RowTypes' /\ ProjectTypes'
  BY <1>1, <1>3, <1>4 DEF Creation, RowTypes, ProjectTypes
<1>6. ASSUME NEW r \in Requests, Creating(r), MayHaveRow(Config(r)) PROVE MayHaveRow(Config(r))'
  <2>1. CASE Config(r) = c
    <3>1. publisher[c].live /\ publisher'[c].live /\ publisher'[c].id = publisher[c].id
      BY <1>1, <1>3, <1>4, <1>6, <2>1 DEF Row, Creation, RowTypes
    <3>. QED  BY <1>1, <1>6, <2>1, <3>1 DEF MayHaveRow, Row, Config
  <2>2. CASE Config(r) # c
    BY <1>1, <1>4, <1>6, <2>2 DEF MayHaveRow, Row, Config, Creation, RowTypes
  <2>. QED  BY <2>1, <2>2
<1>. QED  BY <1>1, <1>5, <1>6, PublishersKeepCreation

LEMMA RemovePublisherKeepsCreation ==
    ASSUME Tokens, Creation, NEW c \in Configs, NEW p \in Projects, RemovePublisher(c, p)
    PROVE  Creation'
<1>. DEFINE left == publisher[c].projects \ {p}
            new == [publisher[c] EXCEPT !.projects = left, !.live = left # {}]
<1>1. /\ left = {} => \A r \in Requests : Creating(r) => Config(r) # c
      /\ publisher' = [publisher EXCEPT ![c] = new]
      /\ UNCHANGED <<project, lastProject, owner, reg, tx>>
  BY DEF RemovePublisher
<1>2. publisher[c] \in [id : 0..MaxRows, live : BOOLEAN, projects : SUBSET {0, project}]
  BY DEF Creation, RowTypes
<1>3. new \in [id : 0..MaxRows, live : BOOLEAN, projects : SUBSET {0, project}]
      /\ new.id = publisher[c].id /\ (left # {} => new.live)
  BY <1>2
<1>. HIDE DEF new, left
<1>4. RowTypes' /\ ProjectTypes'
  BY <1>1, <1>3 DEF Creation, RowTypes, ProjectTypes
<1>5. ASSUME NEW r \in Requests, Creating(r), MayHaveRow(Config(r)) PROVE MayHaveRow(Config(r))'
  <2>1. CASE Config(r) = c
    <3>1. publisher'[c].live /\ publisher'[c].id = publisher[c].id
      BY <1>1, <1>3, <1>5, <2>1 DEF Creation, RowTypes
    <3>. QED  BY <1>1, <1>2, <1>5, <2>1, <3>1, BoundsAssumption DEF MayHaveRow, Row, Config
  <2>2. CASE Config(r) # c
    BY <1>1, <1>5, <2>2 DEF MayHaveRow, Row, Config, Creation, RowTypes
  <2>. QED  BY <2>1, <2>2
<1>. QED  BY <1>1, <1>4, <1>5, PublishersKeepCreation

LEMMA DeleteProjectKeepsCreation == ASSUME Tokens, Creation, DeleteProject PROVE Creation'
<1>1. /\ project # 0 /\ project' = 0 /\ UNCHANGED <<lastProject, owner, reg, tx>>
      /\ publisher' = [c \in Configs |-> [publisher[c] EXCEPT !.projects = @ \ {project}]]
  BY DEF DeleteProject
<1>2. ASSUME NEW c \in Configs
      PROVE  [publisher[c] EXCEPT !.projects = @ \ {project}]
               \in [id : 0..MaxRows, live : BOOLEAN, projects : SUBSET {0}]
  BY DEF Creation, RowTypes
<1>3. RowTypes' /\ ProjectTypes'
  BY <1>1, <1>2 DEF Creation, RowTypes, ProjectTypes
<1>4. \A r \in Requests : ~Creating(r)
  BY <1>1 DEF Creation, RequestOK, Creating
<1>. QED  BY <1>1, <1>3, <1>4, PublishersKeepCreation

LEMMA OthersKeepCreation ==
    ASSUME Creation, UNCHANGED <<project, lastProject, owner, reg, publisher, tx>> PROVE Creation'
<1>1. RowTypes' /\ ProjectTypes'
  BY DEF Creation, RowTypes, ProjectTypes
<1>2. \A r \in Requests : MayHaveRow(Config(r))' <=> MayHaveRow(Config(r))
  BY DEF MayHaveRow, Row, Config
<1>. QED  BY <1>1, <1>2, PublishersKeepCreation

\* Every state the program reaches satisfies the invariant of the projects: one request creates the
\* project of the name at a time, while there is none, and has a registration that said it may.
THEOREM CreationInvariance == Spec => []Creation
<1>1. ASSUME Tokens, Creation, [Next]_vars PROVE Creation'
  <2>1. CASE UNCHANGED vars \/ Tick
    <3>1. UNCHANGED <<project, lastProject, owner, reg, publisher, tx>>
      BY <2>1 DEF vars, db, Tick
    <3>. QED  BY <1>1, <3>1, OthersKeepCreation
  <2>2. CASE Owners
    BY <1>1, <2>2, RegistrationKeepsCreation, AddPublisherKeepsCreation,
       RemovePublisherKeepsCreation, DeleteProjectKeepsCreation
    DEF Owners
  <2>. QED  BY <1>1, <2>1, <2>2, RequestKeepsCreation DEF Next
<1>. QED  BY <1>1, InitCreation, TokenInvariance, PTL DEF Spec

\* Types are kept, with the constraints of the tables: one project of the name, one request that
\* inserts it, one registration of a configuration.
THEOREM TypeCorrect == Spec => []TypeOK
<1>1. Tokens /\ Creation => TypeOK
  BY DEF Tokens, TokenTypes, Creation, RegTypes, RowTypes, ProjectTypes, Registered, Lonely, TypeOK
<1>. QED  BY <1>1, TokenInvariance, CreationInvariance, PTL

\* Where the publishers that a step adds come from.
Chosen ==
    \A c \in Configs : \A p \in publisher'[c].projects \ publisher[c].projects :
       \/ /\ p \notin {0, project}
          /\ \E x \in Registrations : ConfigOf[x] = c /\ UserOf[x] = owner'[p] /\ reg[x] # "absent"
       \/ AddPublisher(c, p)

LEMMA CommitChooses ==
    ASSUME Tokens, Creation, NEW r \in Requests, Started(r), Commit(r) PROVE Chosen
<1>1. CASE ~Creating(r)
  BY <1>1 DEF Commit, Chosen
<1>2. CASE Creating(r)
  <2>. DEFINE p == tx[r].project
              x == CHOOSE x \in tx[r].found : TRUE
  <2>1. /\ p \in 1..MaxProjects /\ project = 0
        /\ x \in Registrations /\ ConfigOf[x] = Config(r) /\ reg[x] # "absent"
    BY <1>2, BoundsAssumption DEF Creation, RequestOK, Creating, ProjectTypes, Projects
  <2>2. /\ owner' = [owner EXCEPT ![p] = UserOf[x]] /\ publisher' = With(Config(r), p)
    BY <1>2 DEF Commit
  <2>. HIDE DEF x, p
  <2>3. owner'[p] = UserOf[x]
    BY <2>1, <2>2 DEF Creation, ProjectTypes
  <2>4. Row(Config(r)).projects \subseteq publisher[Config(r)].projects
    BY DEF Row
  <2>5. \A c \in Configs : \A q \in publisher'[c].projects \ publisher[c].projects :
           c = Config(r) /\ q = p
    <3>1. publisher \in [Configs -> [id : 0..MaxRows, live : BOOLEAN, projects : SUBSET {0, project}]]
      BY DEF Creation, RowTypes
    <3>2. publisher'[Config(r)] = [Row(Config(r)) EXCEPT !.projects = @ \cup {p}]
      BY <1>2, <2>2, <3>1, RegistrationsAssumption DEF With, Config, Tokens, Sessions
    <3>3. publisher'[Config(r)].projects \subseteq Row(Config(r)).projects \cup {p}
      BY <3>2, <3>1, RegistrationsAssumption DEF Row, Config, Tokens, Sessions
    <3>4. \A c \in Configs : c # Config(r) => publisher'[c] = publisher[c]
      BY <2>2, <3>1 DEF With
    <3>. QED  BY <2>4, <3>3, <3>4
  <2>. QED  BY <2>1, <2>3, <2>5 DEF Chosen
<1>. QED  BY <1>1, <1>2

LEMMA RequestChooses == ASSUME Tokens, Creation, NEW r \in Requests, Request(r) PROVE Chosen
<1>1. CASE UNCHANGED publisher
  BY <1>1 DEF Chosen
<1>2. CASE Commit(r) /\ Started(r)
  BY <1>2, CommitChooses
<1>. QED
  BY <1>1, <1>2
  DEF Request, Ask, FindPending, CreateProject, FindPublisher, Claim, Mint, Crash, db, At, Started

LEMMA OwnersChoose == ASSUME Creation, Owners PROVE Chosen
<1>1. CASE UNCHANGED publisher
  BY <1>1 DEF Chosen
<1>2. ASSUME NEW c \in Configs, NEW p \in Projects, AddPublisher(c, p) PROVE Chosen
  <2>1. /\ \A d \in Configs : d # c => publisher'[d] = publisher[d]
        /\ publisher'[c].projects \subseteq publisher[c].projects \cup {p}
    BY <1>2 DEF AddPublisher, With, Row, Creation, RowTypes
  <2>. QED  BY <1>2, <2>1 DEF Chosen
<1>3. ASSUME NEW c \in Configs, NEW p \in Projects, RemovePublisher(c, p) PROVE Chosen
  <2>1. \A d \in Configs : publisher'[d].projects \subseteq publisher[d].projects
    BY <1>3 DEF RemovePublisher, Creation, RowTypes
  <2>. QED  BY <2>1 DEF Chosen
<1>4. CASE DeleteProject
  <2>1. \A d \in Configs : publisher'[d].projects \subseteq publisher[d].projects
    BY <1>4 DEF DeleteProject, Creation, RowTypes
  <2>. QED  BY <2>1 DEF Chosen
<1>. QED  BY <1>1, <1>2, <1>3, <1>4 DEF Owners, FillIn, Register, Unregister

\* A project is published only from where one of its owners said: its creation commits together
\* with a publisher registered by who then owns it, and later ones are added by owners.
THEOREM ChosenPublishers == Spec => PublishersAreChosen
<1>1. ASSUME Tokens, Creation, [Next]_vars PROVE Chosen \/ UNCHANGED vars
  <2>1. CASE Tick
    BY <2>1 DEF Tick, db, Chosen
  <2>. QED  BY <1>1, <2>1, RequestChooses, OwnersChoose DEF Next
<1>2. [][Chosen]_vars <=> PublishersAreChosen
  BY DEF Chosen, PublishersAreChosen
<1>. QED  BY <1>1, <1>2, TokenInvariance, CreationInvariance, PTL DEF Spec
=============================================================================
