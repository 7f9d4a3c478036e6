------------------------- MODULE OfflineSyncProofs -------------------------
(***************************************************************************)
(* Proofs about OfflineSync, for any items, any number of overlapping sync *)
(* services and any value of the bounds.                                   *)
(*                                                                         *)
(* FreshItemNotOvertaken needs to know that what a pass still holds of its *)
(* snapshot is closed under older fresh items, and that a retried item is  *)
(* never fresh again.  The latter is so as long as two services do not     *)
(* overlap, which write back the attempts they read earlier, or nobody     *)
(* taps Retry.                                                             *)
(***************************************************************************)
EXTENDS OfflineSync, TLAPS

\* The pass holds an item exactly between reading its row and settling it.
Holding == {"marking", "waiting", "settling"}

\* A service waits for an answer exactly while it has a call out, and what it
\* works on is a queue row.
PassInv ==
  \A s \in Services :
    /\ pc[s] \in Holding => cur[s] \in Enqueued
    /\ call[s] # "none" => pc[s] = "waiting"
    /\ ready[s] \subseteq Enqueued

\* A positive answer, on the wire or in the hands of the pass, is about a sale
\* the server holds.
AnswerInv ==
  \A s \in Services :
    /\ call[s] = "ok" => sales[cur[s]] = 1
    /\ (pc[s] = "settling" /\ outcome[s] = "ok") => sales[cur[s]] = 1

\* Whatever the server may still be asked to record, has recorded, or the
\* screen may retry is a queue row.
QueuedInv ==
  /\ \A i \in Items : sales[i] > 0 => i \in Enqueued
  /\ \A o \in orphans : o[1] \in Enqueued
  /\ shown \subseteq Enqueued
  /\ tapped # None => tapped \in Enqueued

Inv == /\ TypeOK
       /\ PassInv
       /\ AnswerInv
       /\ QueuedInv
       /\ AtMostOneSale
       /\ SyncedIsRecorded

\* What one step of createSale can return: the rows of the item stay, or go
\* from none to one with a positive answer.
LEMMA CreateSaleResult ==
  ASSUME NEW i \in Items, NEW stage \in Stages, sales \in [Items -> Nat],
         sales[i] <= 1, NEW r \in CreateSale(i, stage)
  PROVE  /\ r.to \in Answers \union {"checked"}
         /\ r.rows \in Nat
         /\ r.rows <= 1
         /\ r.rows >= sales[i]
         /\ r.to = "ok" => r.rows = 1
  BY DEF CreateSale, Answers, Stages

\* The empty queue satisfies the invariant.
LEMMA InitInv == Init => Inv
<1> SUFFICES ASSUME Init PROVE Inv
  OBVIOUS
<1> USE DEF Init
<1>1. TypeOK
  BY DEF TypeOK, Statuses, Passes
<1>2. PassInv
  BY DEF PassInv, Holding
<1>3. AnswerInv /\ AtMostOneSale /\ SyncedIsRecorded
  BY DEF AnswerInv, AtMostOneSale, SyncedIsRecorded
<1>4. QueuedInv
  BY DEF QueuedInv
<1> QED
  BY <1>1, <1>2, <1>3, <1>4 DEF Inv

\* Every action preserves the invariant.
LEMMA NextInv == Inv /\ [Next]_vars => Inv'
<1> SUFFICES ASSUME Inv, [Next]_vars PROVE Inv'
  OBVIOUS
<1> USE OfflineSyncAssumption
    DEF Inv, TypeOK, PassInv, AnswerInv, QueuedInv, AtMostOneSale,
        SyncedIsRecorded, Enqueued, Holding, Statuses, Passes, Answers, Stages,
        queueVars, passVars, screenVars, bounds
<1>1. ASSUME NEW i \in Items, Enqueue(i) PROVE Inv'
  BY <1>1 DEF Enqueue
<1>2. ASSUME NEW i \in Items, BackoffElapses(i) PROVE Inv'
  BY <1>2 DEF BackoffElapses
<1>3. ASSUME NEW i \in Items, TapRetry(i) PROVE Inv'
  BY <1>3 DEF TapRetry
<1>4. ASSUME NEW s \in Services, StartService(s) PROVE Inv'
  BY <1>4 DEF StartService
<1>5. ASSUME NEW s \in Services, StopService(s) PROVE Inv'
  BY <1>5 DEF StopService
<1>6. ASSUME NEW s \in Services, SyncNow(s) PROVE Inv'
  BY <1>6 DEF SyncNow
<1>7. ASSUME NEW s \in Services, CheckOnline(s) PROVE Inv'
  BY <1>7 DEF CheckOnline
<1>8. ASSUME NEW s \in Services, ListReady(s) PROVE Inv'
  BY <1>8 DEF ListReady, ReadyItems
<1>9. ASSUME NEW s \in Services, BeginItem(s) PROVE Inv'
  BY <1>9 DEF BeginItem, IsNext
<1>10. ASSUME NEW s \in Services, MarkSyncing(s) PROVE Inv'
  BY <1>10 DEF MarkSyncing, Write
<1>11. ASSUME NEW s \in Services, EndPass(s) PROVE Inv'
  BY <1>11 DEF EndPass
<1>12. ASSUME NEW s \in Services, Respond(s) PROVE Inv'
  BY <1>12 DEF Respond
<1>13. ASSUME NEW s \in Services, MarkSynced(s) PROVE Inv'
  BY <1>13 DEF MarkSynced, Write, Continue
<1>14. ASSUME NEW s \in Services, MarkRetryableFailure(s) PROVE Inv'
  <2>1. PICK st \in {"dead", "failed"}, d \in [Items -> BOOLEAN] :
          /\ Write(cur[s], st, seen[s] + 1)
          /\ due' = d
    BY <1>14 DEF MarkRetryableFailure
  <2> QED
    BY <1>14, <2>1 DEF MarkRetryableFailure, Write, Continue
<1>15. ASSUME NEW s \in Services, MarkDead(s) PROVE Inv'
  BY <1>15 DEF MarkDead, Write, Continue
<1>16. ASSUME NEW s \in Services, NetworkError(s) PROVE Inv'
  BY <1>16 DEF NetworkError, Left
<1>17. ASSUME NEW s \in Services, ServeCall(s) PROVE Inv'
  BY <1>17, CreateSaleResult DEF ServeCall
<1>18. ASSUME NEW s \in Services, StorageError(s) PROVE Inv'
  BY <1>18 DEF StorageError
<1>19. CASE Load
  BY <1>19 DEF Load
<1>20. CASE ManualRetry
  BY <1>20 DEF ManualRetry, Write
<1>21. CASE ServeOrphan
  BY <1>21, CreateSaleResult DEF ServeOrphan
<1>22. CASE Connectivity
  BY <1>22 DEF Connectivity
<1>23. CASE AppKilled
  BY <1>23 DEF AppKilled
<1>24. CASE UNCHANGED vars
  BY <1>24 DEF vars
<1> QED
  BY <1>1, <1>2, <1>3, <1>4, <1>5, <1>6, <1>7, <1>8, <1>9, <1>10, <1>11, <1>12, <1>13, <1>14, <1>15, <1>16, <1>17, <1>18, <1>19, <1>20, <1>21, <1>22, <1>23, <1>24 DEF Next, PassStep

\* The inductive invariant holds of every reachable state.
THEOREM Invariance == Spec => []Inv
  BY InitInv, NextInv, PTL DEF Spec

\* Every state of the queue, the passes, the wire and the server is well-typed.
THEOREM TypeCorrect == Spec => []TypeOK
  BY Invariance, PTL DEF Inv

\* POST /sales records a clientMutationId at most once, for any number of
\* overlapping passes, abandoned requests, retries, kills and storage errors.
THEOREM SaleAtMostOnce == Spec => []AtMostOneSale
  BY Invariance, PTL DEF Inv

\* An item is marked synced only if the server holds its sale.
THEOREM SyncedOnlyIfRecorded == Spec => []SyncedIsRecorded
  BY Invariance, PTL DEF Inv
-----------------------------------------------------------------------------
(* Refinement of SaleOnce *)

\* A step that leaves the set of queued items and the Sale rows alone is, seen
\* from SaleOnce, a change of what the device shows.
LEMMA QuietStep ==
  ASSUME Inv, Inv', sales' = sales, Enqueued' = Enqueued
  PROVE  Once!Show
  BY DEF Inv, SyncedIsRecorded, Once!Show, Enqueued

\* One step of createSale for a queued item commits its Sale row or does not.
LEMMA ServeStep ==
  ASSUME Inv, NEW i \in Enqueued, NEW stage \in Stages,
         NEW r \in CreateSale(i, stage),
         sales' = [sales EXCEPT ![i] = r.rows], status' = status
  PROVE  Once!Record(i) \/ UNCHANGED Once!onceVars
<1>1. i \in Items /\ sales \in [Items -> Nat] /\ sales[i] <= 1
  BY DEF Inv, TypeOK, AtMostOneSale, Enqueued
<1>2. r.rows \in Nat /\ r.rows <= 1 /\ r.rows >= sales[i]
  BY <1>1, CreateSaleResult
<1>3. CASE r.rows = sales[i]
  BY <1>1, <1>3 DEF Once!onceVars, Enqueued
<1>4. CASE r.rows = 1 /\ sales[i] = 0
  BY <1>1, <1>4 DEF Once!Record, Enqueued
<1> QED
  BY <1>1, <1>2, <1>3, <1>4

\* Every step is a step of SaleOnce or leaves its variables alone.
LEMMA StepRefines ==
  Inv /\ Inv' /\ [Next]_vars => [Once!OnceNext]_(Once!onceVars)
<1> SUFFICES ASSUME Inv, Inv', [Next]_vars
             PROVE  Once!OnceNext \/ UNCHANGED Once!onceVars
  OBVIOUS
<1>1. ASSUME NEW i \in Items, Enqueue(i) PROVE Once!Ring(i)
  <2>1. /\ i \notin Enqueued
        /\ Enqueued' = Enqueued \union {i}
        /\ {j \in Items : status'[j] = "synced"}
             = {j \in Items : status[j] = "synced"}
        /\ sales' = sales
    BY <1>1 DEF Enqueue, Enqueued, Inv, TypeOK
  <2> QED
    BY <2>1 DEF Once!Ring
<1>2. ASSUME NEW s \in Services, ServeCall(s)
      PROVE  (\E i \in Items : Once!Record(i)) \/ UNCHANGED Once!onceVars
  <2>1. cur[s] \in Enqueued /\ call[s] \in Stages
    BY <1>2 DEF ServeCall, Inv, PassInv, Stages, Holding
  <2> QED
    BY <1>2, <2>1, ServeStep DEF ServeCall, queueVars, Enqueued
<1>3. ASSUME ServeOrphan
      PROVE  (\E i \in Items : Once!Record(i)) \/ UNCHANGED Once!onceVars
  <2>1. PICK o \in orphans : \E r \in CreateSale(o[1], o[2]) :
                               sales' = [sales EXCEPT ![o[1]] = r.rows]
    BY <1>3 DEF ServeOrphan
  <2>2. o[1] \in Enqueued /\ o[2] \in Stages
    BY DEF Inv, QueuedInv, TypeOK
  <2> QED
    BY <1>3, <2>1, <2>2, ServeStep DEF ServeOrphan, queueVars, Enqueued
<1>4. ASSUME NEW i \in Items, BackoffElapses(i) \/ TapRetry(i)
      PROVE  Once!Show
  BY <1>4, QuietStep DEF BackoffElapses, TapRetry, queueVars, Enqueued
<1>5. ASSUME NEW s \in Services,
             \/ StartService(s) \/ StopService(s) \/ SyncNow(s)
             \/ CheckOnline(s) \/ ListReady(s) \/ BeginItem(s) \/ EndPass(s)
             \/ Respond(s) \/ NetworkError(s) \/ StorageError(s)
      PROVE  Once!Show
  BY <1>5, QuietStep
  DEF StartService, StopService, SyncNow, CheckOnline, ListReady, BeginItem,
      EndPass, Respond, NetworkError, StorageError, queueVars, Enqueued
<1>6. ASSUME NEW s \in Services,
             \/ MarkSyncing(s) \/ MarkSynced(s) \/ MarkRetryableFailure(s)
             \/ MarkDead(s)
      PROVE  Once!Show
  <2>1. /\ cur[s] \in Enqueued
        /\ sales' = sales
        /\ \E st \in Statuses \ {"absent"} :
             status' = [status EXCEPT ![cur[s]] = st]
    BY <1>6 DEF MarkSyncing, MarkSynced, MarkRetryableFailure, MarkDead, Write,
                Continue, Inv, PassInv, Holding, Statuses
  <2>2. Enqueued' = Enqueued
    BY <2>1 DEF Inv, TypeOK, Enqueued
  <2> QED
    BY <2>1, <2>2, QuietStep
<1>7. ASSUME Load \/ Connectivity \/ AppKilled PROVE Once!Show
  BY <1>7, QuietStep DEF Load, Connectivity, AppKilled, queueVars, Enqueued
<1>8. ASSUME ManualRetry PROVE Once!Show
  <2>1. /\ tapped \in Enqueued
        /\ sales' = sales
        /\ status' = [status EXCEPT ![tapped] = "pending"]
    BY <1>8 DEF ManualRetry, Write, Inv, QueuedInv
  <2>2. Enqueued' = Enqueued
    BY <2>1 DEF Inv, TypeOK, Enqueued
  <2> QED
    BY <2>1, <2>2, QuietStep
<1>9. CASE UNCHANGED vars
  BY <1>9 DEF vars, Once!onceVars, Enqueued
<1> QED
  BY <1>1, <1>2, <1>3, <1>4, <1>5, <1>6, <1>7, <1>8, <1>9
  DEF Next, PassStep, Once!OnceNext

\* The offline sale path implements SaleOnce: initial states map to initial
\* states and every step is a Ring, a Record, a Show or a stutter.
THEOREM Refinement == Spec => ImplementsSaleOnce
<1>1. Init => Once!OnceInit
  BY DEF Init, Once!OnceInit, Enqueued
<1> QED
  BY <1>1, Invariance, StepRefines, PTL
  DEF Spec, ImplementsSaleOnce, Once!OnceSpec

\* The queue tells the truth about every sale: recorded at most once, and synced
\* only if recorded.
THEOREM QueueIsTrue == Spec => []QueueTellsTruth
  BY SaleAtMostOnce, SyncedOnlyIfRecorded, PTL DEF QueueTellsTruth
-----------------------------------------------------------------------------
(* The order of recording *)

OneService == \A s, t \in Services : s = t

\* Enqueued and never tried.
Fresh(i) == status[i] = "pending" /\ attempts[i] = 0

\* Nobody is about to make an item that was tried look fresh.
TapInv == tapped # None => tapSeen > 0

\* With one service, what is dead, shown with Retry or tapped keeps a positive
\* count, also while the pass is about to write a count it has read.
TriedInv ==
  /\ \A i \in Items : i \in shown \/ tapped = i \/ status[i] = "dead" => attempts[i] > 0
  /\ TapInv
  /\ \A s \in Services :
       pc[s] \in {"marking", "settling"} /\ attempts[cur[s]] > 0 => seen[s] > 0

\* Nothing younger than a fresh item has been sent, and a pass that is going to
\* send something younger comes to the fresh item first.
Untouched(i, j) ==
  /\ sales[j] = 0
  /\ \A o \in orphans : o[1] # j
  /\ \A s \in Services :
       /\ pc[s] \in Holding => cur[s] # j
       /\ j \in ready[s] => i \in ready[s] \/ (cur[s] = i /\ pc[s] = "marking")

FreshInv ==
  /\ \A i \in Items : createdAt[i] <= clock
  /\ \A i \in Items : status[i] = "pending" => due[i]
  /\ \A i, j \in Items : Fresh(i) /\ createdAt[i] < createdAt[j] => Untouched(i, j)

\* With one service, every step keeps the counts of tried items positive.
LEMMA TriedStep ==
  ASSUME OneService, Inv, TriedInv, [Next]_vars
  PROVE  TriedInv'
<1> USE OfflineSyncAssumption
    DEF Inv, TypeOK, PassInv, QueuedInv, Enqueued, Holding, TriedInv, TapInv,
        queueVars, passVars, screenVars, bounds
<1>1. ASSUME NEW i \in Items, Enqueue(i) PROVE TriedInv'
  BY <1>1 DEF Enqueue
<1>2. ASSUME NEW i \in Items, BackoffElapses(i) PROVE TriedInv'
  BY <1>2 DEF BackoffElapses
<1>3. ASSUME NEW i \in Items, TapRetry(i) PROVE TriedInv'
  BY <1>3 DEF TapRetry
<1>4. ASSUME NEW s \in Services,
             \/ StartService(s) \/ StopService(s) \/ SyncNow(s) \/ CheckOnline(s)
             \/ ListReady(s) \/ EndPass(s) \/ ServeCall(s) \/ StorageError(s)
      PROVE  TriedInv'
  BY <1>4 DEF StartService, StopService, SyncNow, CheckOnline, ListReady, EndPass,
              ServeCall, StorageError
<1>5. ASSUME NEW s \in Services, BeginItem(s) \/ Respond(s) \/ NetworkError(s)
      PROVE  TriedInv'
  BY <1>5 DEF BeginItem, IsNext, Respond, NetworkError
<1>6. ASSUME NEW s \in Services, NEW st \in Statuses, NEW n \in Nat,
             pc[s] \in {"marking", "settling"}, Write(cur[s], st, n),
             n >= seen[s], st = "dead" => n > 0,
             pc' \in [Services -> Passes], pc'[s] \notin {"marking", "settling"},
             UNCHANGED screenVars
      PROVE  TriedInv'
  <2>1. \A t \in Services : t = s
    BY DEF OneService
  <2>2. \A i \in Items : attempts[i] > 0 => attempts'[i] > 0
    BY <1>6 DEF Write
  <2>3. \A i \in Items : status'[i] = "dead" => attempts'[i] > 0
    BY <1>6, <2>2 DEF Write
  <2> QED BY <1>6, <2>1, <2>2, <2>3
<1>7. ASSUME NEW s \in Services, MarkSyncing(s) PROVE TriedInv'
  BY <1>6, <1>7 DEF MarkSyncing, Statuses, Passes
<1>8. ASSUME NEW s \in Services, MarkSynced(s) PROVE TriedInv'
  BY <1>6, <1>8 DEF MarkSynced, Continue, Statuses, Passes
<1>9. ASSUME NEW s \in Services, MarkRetryableFailure(s) PROVE TriedInv'
  <2>1. PICK st \in {"dead", "failed"} : Write(cur[s], st, seen[s] + 1)
    BY <1>9 DEF MarkRetryableFailure
  <2> QED BY <1>6, <1>9, <2>1 DEF MarkRetryableFailure, Continue, Statuses, Passes
<1>10. ASSUME NEW s \in Services, MarkDead(s) PROVE TriedInv'
  BY <1>6, <1>10 DEF MarkDead, Continue, Statuses, Passes
<1>11. CASE Load
  BY <1>11 DEF Load
<1>12. CASE ManualRetry
  BY <1>12 DEF ManualRetry, Write
<1>13. CASE ServeOrphan \/ Connectivity
  BY <1>13 DEF ServeOrphan, Connectivity
<1>14. CASE AppKilled
  BY <1>14 DEF AppKilled
<1>15. CASE UNCHANGED vars
  BY <1>15 DEF vars
<1> QED
  BY <1>1, <1>2, <1>3, <1>4, <1>5, <1>7, <1>8, <1>9, <1>10, <1>11, <1>12, <1>13,
     <1>14, <1>15 DEF Next, PassStep

\* Retry never makes an item fresh again, if services do not overlap or nobody
\* can tap it.
LEMMA TapInvariance ==
  ASSUME OneService \/ MaxRetries = 0
  PROVE  Spec => []TapInv
<1> DEFINE CountsInv == (OneService => TriedInv) /\ (MaxRetries = 0 => tapped = None)
<1>1. Init => CountsInv
  BY OfflineSyncAssumption DEF Init, TriedInv, TapInv
<1>2. Inv /\ CountsInv /\ [Next]_vars => CountsInv'
  <2>1. Inv /\ MaxRetries = 0 /\ tapped = None /\ [Next]_vars => tapped' = None
    BY DEF Inv, TypeOK, Next, PassStep, vars, queueVars, passVars, screenVars,
       Enqueue, BackoffElapses, TapRetry, StartService, StopService, SyncNow,
       CheckOnline, ListReady, BeginItem, MarkSyncing, EndPass, Respond,
       MarkSynced, MarkRetryableFailure, MarkDead, Continue, NetworkError,
       ServeCall, StorageError, Load, ManualRetry, ServeOrphan, Connectivity,
       AppKilled
  <2>2. OneService' = OneService
    BY DEF OneService
  <2> QED BY <2>1, <2>2, TriedStep
<1>3. CountsInv => TapInv
  BY DEF TriedInv, TapInv
<1> QED BY <1>1, <1>2, <1>3, Invariance, PTL DEF Spec

\* A step that sends nothing, and leaves queue and snapshots alone.
LEMMA FreshQuiet ==
  ASSUME Inv, FreshInv,
         UNCHANGED <<status, attempts, createdAt, clock, sales>>,
         \A i \in Items : status[i] = "pending" => due'[i],
         \A o \in orphans' : \/ o \in orphans
                             \/ \E s \in Services : o[1] = cur[s] /\ pc[s] = "waiting",
         \A s \in Services :
           /\ pc'[s] \in Holding => pc[s] \in Holding /\ cur'[s] = cur[s]
           /\ \/ ready'[s] = {}
              \/ /\ ready'[s] = ready[s]
                 /\ pc[s] = "marking" => pc'[s] = "marking" /\ cur'[s] = cur[s]
  PROVE  FreshInv'
<1> USE DEF Inv, TypeOK, FreshInv
<1>1. ASSUME NEW i \in Items, NEW j \in Items, Fresh(i)', createdAt[i] < createdAt[j]
      PROVE  Untouched(i, j)'
  <2>1. Untouched(i, j)
    BY <1>1 DEF Fresh
  <2>2. \A o \in orphans' : o[1] # j
    BY <2>1 DEF Untouched, Holding
  <2>3. ASSUME NEW s \in Services
        PROVE  /\ pc'[s] \in Holding => cur'[s] # j
               /\ j \in ready'[s] => i \in ready'[s] \/ (cur'[s] = i /\ pc'[s] = "marking")
    BY <2>1, <2>3 DEF Untouched
  <2> QED BY <2>1, <2>2, <2>3 DEF Untouched
<1> QED BY <1>1

\* A write of the pass or of manualRetry to a row leaves the row not fresh.
LEMMA FreshWrite ==
  ASSUME Inv, FreshInv, NEW i \in Items, NEW st \in Statuses, NEW n \in Nat,
         Write(i, st, n), st # "pending" \/ n > 0,
         \A k \in Items : status'[k] = "pending" => due'[k],
         UNCHANGED <<createdAt, clock, sales, orphans, ready>>,
         \A s \in Services :
           /\ pc'[s] \in Holding => pc[s] \in Holding /\ cur'[s] = cur[s]
           /\ cur[s] # i /\ pc[s] = "marking" => pc'[s] = "marking" /\ cur'[s] = cur[s]
  PROVE  FreshInv'
<1> USE DEF Inv, TypeOK, FreshInv
<1>1. ASSUME NEW k \in Items, NEW j \in Items, Fresh(k)', createdAt[k] < createdAt[j]
      PROVE  Untouched(k, j)'
  <2>1. k # i /\ Fresh(k)
    BY <1>1 DEF Fresh, Write
  <2>2. Untouched(k, j)
    BY <1>1, <2>1
  <2> QED BY <2>1, <2>2 DEF Untouched
<1> QED BY <1>1
\* Every step keeps what is younger than a fresh item untouched.
LEMMA FreshStep ==
  ASSUME Inv, TapInv, FreshInv, [Next]_vars
  PROVE  FreshInv'
<1> USE OfflineSyncAssumption
    DEF Inv, TypeOK, PassInv, queueVars, passVars, screenVars, bounds
<1>1. ASSUME NEW k \in Items, Enqueue(k) PROVE FreshInv'
  <2> USE DEF FreshInv
  <2>1. /\ sales[k] = 0 /\ \A o \in orphans : o[1] # k
        /\ \A s \in Services : (pc[s] \in Holding => cur[s] # k) /\ k \notin ready[s]
    BY <1>1 DEF Enqueue, QueuedInv, Enqueued
  <2>2. ASSUME NEW i \in Items, NEW j \in Items, Fresh(i)', createdAt'[i] < createdAt'[j]
        PROVE  Untouched(i, j)'
    <3>1. i # k
      BY <1>1, <2>2 DEF Enqueue
    <3>2. CASE j = k
      BY <1>1, <2>1, <3>2 DEF Enqueue, Untouched
    <3>3. CASE j # k
      <4>1. Fresh(i) /\ createdAt[i] < createdAt[j]
        BY <1>1, <2>2, <3>1, <3>3 DEF Enqueue, Fresh
      <4>2. Untouched(i, j)
        BY <4>1
      <4> QED BY <1>1, <4>2 DEF Enqueue, Untouched
    <3> QED BY <3>2, <3>3
  <2> QED BY <1>1, <2>2 DEF Enqueue
<1>2. ASSUME NEW i \in Items, BackoffElapses(i) \/ TapRetry(i) PROVE FreshInv'
  BY <1>2, FreshQuiet DEF BackoffElapses, TapRetry, FreshInv
<1>3. ASSUME NEW s \in Services,
             \/ StartService(s) \/ StopService(s) \/ SyncNow(s) \/ CheckOnline(s)
             \/ EndPass(s) \/ Respond(s) \/ StorageError(s)
      PROVE  FreshInv'
  BY <1>3, FreshQuiet
  DEF StartService, StopService, SyncNow, CheckOnline, EndPass, Respond,
      StorageError, FreshInv, Holding
<1>4. ASSUME NEW s \in Services, ListReady(s) PROVE FreshInv'
  <2>1. ASSUME NEW i \in Items, NEW j \in Items, Fresh(i), createdAt[i] < createdAt[j]
        PROVE  Untouched(i, j)'
    <3>1. Untouched(i, j)
      BY <2>1 DEF FreshInv
    <3>2. i \in ReadyItems
      BY <2>1 DEF FreshInv, Fresh, ReadyItems
    <3> QED BY <1>4, <3>1, <3>2 DEF ListReady, Untouched, Holding
  <2> QED BY <1>4, <2>1 DEF ListReady, FreshInv, Fresh
<1>5. ASSUME NEW s \in Services, BeginItem(s) PROVE FreshInv'
  <2>1. PICK k \in Items : /\ IsNext(k, s)
                           /\ cur' = [cur EXCEPT ![s] = k]
                           /\ ready' = [ready EXCEPT ![s] = @ \ {k}]
    BY <1>5 DEF BeginItem
  <2>2. ASSUME NEW i \in Items, NEW j \in Items, Fresh(i), createdAt[i] < createdAt[j]
        PROVE  Untouched(i, j)'
    <3>1. Untouched(i, j)
      BY <2>2 DEF FreshInv
    <3>2. j # k
      BY <1>5, <2>1, <2>2, <3>1 DEF BeginItem, IsNext, Untouched
    <3>3. ASSUME NEW t \in Services
          PROVE  /\ pc'[t] \in Holding => cur'[t] # j
                 /\ j \in ready'[t] => i \in ready'[t] \/ (cur'[t] = i /\ pc'[t] = "marking")
      BY <1>5, <2>1, <3>1, <3>2 DEF BeginItem, Untouched
    <3> QED BY <1>5, <3>1, <3>3 DEF BeginItem, Untouched
  <2> QED BY <1>5, <2>2 DEF BeginItem, FreshInv, Fresh
<1>6. ASSUME NEW s \in Services, MarkSyncing(s) PROVE FreshInv'
  <2>1. cur[s] \in Items /\ Write(cur[s], "syncing", seen[s]) /\ seen[s] \in Nat
    BY <1>6 DEF MarkSyncing, Holding, Enqueued
  <2>2. \A i \in Items : status'[i] = "pending" => due'[i]
    BY <1>6, <2>1 DEF MarkSyncing, Write, FreshInv
  <2>3. ASSUME NEW t \in Services
        PROVE  /\ pc'[t] \in Holding => pc[t] \in Holding /\ cur'[t] = cur[t]
               /\ cur[t] # cur[s] /\ pc[t] = "marking"
                    => pc'[t] = "marking" /\ cur'[t] = cur[t]
    BY <1>6 DEF MarkSyncing, Holding
  <2>4. UNCHANGED <<createdAt, clock, sales, orphans, ready>>
    BY <1>6 DEF MarkSyncing
  <2> QED BY <2>1, <2>2, <2>3, <2>4, FreshWrite DEF Statuses
<1>7. ASSUME NEW s \in Services, MarkSynced(s) PROVE FreshInv'
  BY <1>7, FreshWrite
  DEF MarkSynced, Continue, Write, Statuses, Holding, Enqueued, FreshInv
<1>8. ASSUME NEW s \in Services, MarkRetryableFailure(s) PROVE FreshInv'
  <2>1. PICK st \in {"dead", "failed"} :
          /\ Write(cur[s], st, seen[s] + 1)
          /\ \A i \in Items : i # cur[s] => due'[i] = due[i]
    BY <1>8 DEF MarkRetryableFailure
  <2>2. \A i \in Items : status'[i] = "pending" => due'[i]
    BY <2>1 DEF Write, FreshInv
  <2> QED
    BY <1>8, <2>1, <2>2, FreshWrite
    DEF MarkRetryableFailure, Continue, Statuses, Holding, Enqueued
<1>9. ASSUME NEW s \in Services, MarkDead(s) PROVE FreshInv'
  <2>1. \A i \in Items : status'[i] = "pending" => due'[i]
    BY <1>9 DEF MarkDead, Write, FreshInv
  <2> QED
    BY <1>9, <2>1, FreshWrite DEF MarkDead, Continue, Statuses, Holding, Enqueued
<1>10. ASSUME NEW s \in Services, NetworkError(s) PROVE FreshInv'
  <2>1. \A o \in orphans' : o \in orphans \/ o[1] = cur[s]
    BY <1>10 DEF NetworkError, Left
  <2>2. /\ pc[s] = "waiting" /\ pc' = [pc EXCEPT ![s] = "settling"]
        /\ UNCHANGED <<status, attempts, due, createdAt, clock, sales, ready, cur>>
    BY <1>10 DEF NetworkError
  <2>3. \A t \in Services : /\ pc'[t] \in Holding => pc[t] \in Holding
                            /\ pc[t] = "marking" => pc'[t] = "marking"
    BY <2>2 DEF Holding
  <2> QED BY <2>1, <2>2, <2>3, FreshQuiet DEF FreshInv
<1>11. ASSUME NEW s \in Services, ServeCall(s) PROVE FreshInv'
  <2>1. call[s] \in Stages /\ pc[s] = "waiting" /\ cur[s] \in Items
    BY <1>11 DEF ServeCall, Stages, Holding, Enqueued
  <2>2. ASSUME NEW i \in Items, NEW j \in Items, Fresh(i), createdAt[i] < createdAt[j]
        PROVE  Untouched(i, j)'
    <3>1. Untouched(i, j)
      BY <2>2 DEF FreshInv
    <3>2. j # cur[s]
      BY <2>1, <3>1 DEF Untouched, Holding
    <3> QED BY <1>11, <2>1, <3>1, <3>2 DEF ServeCall, Untouched
  <2> QED BY <1>11, <2>2 DEF ServeCall, FreshInv, Fresh
<1>12. CASE Load \/ Connectivity
  BY <1>12, FreshQuiet DEF Load, Connectivity, FreshInv
<1>13. CASE ManualRetry
  BY <1>13, FreshWrite DEF ManualRetry, TapInv, Write, Statuses, FreshInv
<1>14. CASE ServeOrphan
  <2>1. PICK o \in orphans :
          /\ \E r \in CreateSale(o[1], o[2]) : sales' = [sales EXCEPT ![o[1]] = r.rows]
          /\ \A q \in orphans' : q \in orphans \/ q[1] = o[1]
    <3>1. PICK p \in orphans : \E r \in CreateSale(p[1], p[2]) :
            /\ sales' = [sales EXCEPT ![p[1]] = r.rows]
            /\ \E rest \in {orphans, orphans \ {p}} :
                 orphans' = IF r.to = "checked" THEN rest \union {<<p[1], r.to>>} ELSE rest
      BY <1>14 DEF ServeOrphan
    <3>2. \A q \in orphans' : q \in orphans \/ q[1] = p[1]
      BY <3>1
    <3> QED BY <3>1, <3>2
  <2>2. ASSUME NEW i \in Items, NEW j \in Items, Fresh(i), createdAt[i] < createdAt[j]
        PROVE  Untouched(i, j)'
    <3>1. Untouched(i, j)
      BY <2>2 DEF FreshInv
    <3>2. j # o[1]
      BY <3>1 DEF Untouched
    <3> QED BY <1>14, <2>1, <3>1, <3>2 DEF ServeOrphan, Untouched
  <2> QED BY <1>14, <2>2 DEF ServeOrphan, FreshInv, Fresh
<1>15. CASE AppKilled
  <2>1. \A s \in Services : call[s] \in Stages => pc[s] = "waiting"
    BY DEF Stages
  <2>2. \A o \in orphans' : \/ o \in orphans
                            \/ \E s \in Services : o[1] = cur[s] /\ pc[s] = "waiting"
    BY <1>15, <2>1 DEF AppKilled
  <2> QED BY <1>15, <2>2, FreshQuiet DEF AppKilled, FreshInv, Holding
<1>16. CASE UNCHANGED vars
  BY <1>16, FreshQuiet DEF vars, FreshInv
<1> QED
  BY <1>1, <1>2, <1>3, <1>4, <1>5, <1>6, <1>7, <1>8, <1>9, <1>10, <1>11, <1>12,
     <1>13, <1>14, <1>15, <1>16 DEF Next, PassStep

\* A fresh item is not overtaken by a later sale, for any number of items, kills
\* and storage errors, with any number of taps on Retry as long as services do
\* not overlap, and with any number of services as long as nobody taps it
\* (listReady's order and runOnce's loop).
THEOREM FreshItemsFirst ==
  ASSUME OneService \/ MaxRetries = 0
  PROVE  Spec => []FreshItemNotOvertaken
<1>1. Init => FreshInv
  BY DEF Init, FreshInv, Fresh, Untouched
<1>2. Inv /\ TapInv /\ FreshInv /\ [Next]_vars => FreshInv'
  BY FreshStep
<1>3. Inv /\ FreshInv => FreshItemNotOvertaken
  BY DEF Inv, TypeOK, FreshInv, FreshItemNotOvertaken, Fresh, Untouched, Enqueued
<1>4. Spec => []TapInv
  BY TapInvariance
<1> QED BY <1>1, <1>2, <1>3, <1>4, Invariance, PTL DEF Spec
=============================================================================
