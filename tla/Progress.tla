------------------------------ MODULE Progress ------------------------------
(***************************************************************************)
(* What keeps requests and mirrors going: the part of their liveness that  *)
(* holds in every state and of every step, whatever the fairness.          *)
(*                                                                         *)
(* What a request has still to do is a list of numbers, which gets         *)
(* smaller.  ensure_monotonic_journals takes journal entries out of a      *)
(* flush and puts them back after it, and the session's commit flushes     *)
(* until nothing is left: this has to come to an end.                      *)
(***************************************************************************)
EXTENDS LockOrder

(* Lists of numbers of one length, the first difference deciding. *)
Smaller(a, b) ==
    /\ a \in Seq(Nat)
    /\ \E i \in DOMAIN b : a[i] < b[i] /\ \A j \in 1..(i - 1) : a[j] = b[j]

(* Flushes after the present one: journal entries that share the session   *)
(* with other objects wait for one more.                                   *)
FlushesLeft(t) ==
    CASE pc[t] = "idle" -> 0
      [] pc[t] = "open" ->
            IF Clean(t) THEN 0
            ELSE IF pending[t] # <<>> /\ HasOtherPending(t) THEN 2 ELSE 1
      [] OTHER -> IF deferred[t] = <<>> THEN 0 ELSE 1

StageOfFlush(t) ==
    CASE pc[t] = "lockRows" -> 3
      [] pc[t] = "execute" -> 2
      [] pc[t] = "open" -> 1
      [] OTHER -> 0

StatementsLeft(t) ==
    IF pc[t] = "lockRows" THEN Cardinality(toLock[t])
    ELSE Len(writes[t]) + Len(pending[t]) + Len(deletes[t])

CommitLeft(t) == <<FlushesLeft(t), StageOfFlush(t), StatementsLeft(t)>>

StageOfRequest(t) ==
    IF pc[t] = "idle" THEN 0 ELSE IF committing[t] THEN 1 ELSE 2

RequestLeft(t) ==
    <<StageOfRequest(t), Len(script[t]),
      FlushesLeft(t), StageOfFlush(t), StatementsLeft(t)>>

(* A worker's own part of the state. *)
OfTransaction(t) ==
    <<pc[t], committing[t], pending[t], deferred[t], writes[t], deletes[t],
      work[t], added[t], toLock[t], held[t], written[t], rowSerial[t]>>

(* Whatever a committing transaction does brings it nearer to its end:     *)
(* taking journal entries out of a flush and restoring them never goes on. *)
CommitsGetShorter ==
    [][\A t \in Tx :
          committing[t] /\ OfTransaction(t)' # OfTransaction(t)
             => Smaller(CommitLeft(t)', CommitLeft(t))]_vars

(* Whatever a handler does, up to its commit, brings it nearer to its end. *)
RequestsGetShorter ==
    [][\A t \in Tx :
          /\ pc[t] # "idle"
          /\ OfTransaction(t)' # OfTransaction(t) \/ script'[t] # script[t]
          => Smaller(RequestLeft(t)', RequestLeft(t))]_lockVars

(* While there are requests, one of them waits for nobody, or PostgreSQL   *)
(* has two to choose from of which one waits with a late statement.        *)
SomebodyRuns ==
    (\E t \in Tx : pc[t] # "idle")
       => \/ \E t \in Tx : pc[t] # "idle" /\ Blockers(t) = {}
          \/ \E t, u \in Tx : LatePair(t, u)

(* A mirror that is behind finds a page of changelog_since_serial() that   *)
(* takes it on: one that is full, or that ends with the newest entry.      *)
MirrorFindsAPage ==
    (\E i \in Ids(committed) : mirrorSerial < i)
       => \E n \in Page(mirrorSerial, MaxSerial) :
             LET page == Page(mirrorSerial, n)
             IN  /\ Cardinality(page) <= PageLimit
                 /\ \/ Cardinality(page) = PageLimit
                    \/ \A i \in Ids(committed) : i <= n
=============================================================================
